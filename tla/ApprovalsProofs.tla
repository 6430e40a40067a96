--------------------------- MODULE ApprovalsProofs ---------------------------
(* What the approval queue guarantees for every number of threads, keys and *)
(* approvals, every configuration and every cap on the history.            *)
EXTENDS Approvals, TLAPS

(* A save drops entries from the queue it is given and nothing else; what   *)
(* it writes, if it can write, is the queue it leaves in memory.           *)
LEMMA SaveFacts ==
  ASSUME NEW STATE q, NEW STATE e, Save(q, e)
  PROVE  /\ queue' \subseteq q /\ entry' = e
         /\ disk' = Snapshot(queue', e) \/ ("disk" \in Faults /\ disk' = disk)
         /\ \A i \in q \ queue' : e[i].status # "pending"
BY DEF Save, Excess, Processed

LEMMA SnapshotType ==
  ASSUME NEW q \in SUBSET Ids, NEW e \in [Ids -> Decisions]
  PROVE  Snapshot(q, e) \in Snapshots /\ Snapshot(q, e).ids = q
BY DEF Snapshot, Snapshots, Decisions, Blank, Statuses

-----------------------------------------------------------------------------
LEMMA InitType == Init => TypeOK
BY BoundsAssumption, ConfigAssumption
   DEF Init, TypeOK, Ids, Decisions, Blank, Statuses, Snapshots, Call, Steps, LockSteps, Idle

LEMMA CreatedIds == TypeOK => 1 .. created \subseteq Ids
BY BoundsAssumption DEF TypeOK, Ids

(* A step that saves a well-typed queue keeps the three variables it sets   *)
(* well-typed.                                                             *)
LEMMA SaveType ==
  ASSUME NEW STATE q, NEW STATE e, NEW STATE n, TypeOK, Save(q, e),
         n \in 0 .. MaxIds, created <= n, q \subseteq 1 .. n, e \in [Ids -> Decisions]
  PROVE  /\ queue' \subseteq 1 .. n
         /\ entry' \in [Ids -> Decisions]
         /\ disk' \in Snapshots /\ disk'.ids \subseteq 1 .. n
<1>1. queue' \subseteq q /\ entry' = e
      /\ (disk' = Snapshot(queue', e) \/ disk' = disk)
  BY SaveFacts
<1>2. 1 .. n \subseteq Ids
  BY BoundsAssumption DEF Ids
<1>3. CASE disk' = Snapshot(queue', e)
  BY <1>1, <1>2, <1>3, SnapshotType
<1>4. CASE disk' = disk
  <2>1. 1 .. created \subseteq 1 .. n
    BY DEF TypeOK
  <2> QED BY <1>1, <1>4, <2>1 DEF TypeOK
<1> QED BY <1>1, <1>3, <1>4

(* A decision about a queued entry, saved: what Revoke, Claim, NoExecutable, *)
(* SaveResult and Reject do.                                               *)
LEMMA DecideType ==
  ASSUME TypeOK, NEW STATE i, NEW STATE d, i \in Ids, d \in Decisions, Decide(i, d),
         created' = created
  PROVE  /\ queue' \subseteq 1 .. created' /\ entry' \in [Ids -> Decisions]
         /\ disk' \in Snapshots /\ disk'.ids \subseteq 1 .. created'
<1>1. [entry EXCEPT ![i] = d] \in [Ids -> Decisions]
  BY DEF TypeOK
<1>2. created \in 0 .. MaxIds /\ created <= created /\ queue \subseteq 1 .. created
  BY BoundsAssumption DEF TypeOK
<1> QED BY <1>1, <1>2, SaveType DEF Decide

(* A thread that is in a handler knows its id and its caller.              *)
LEMMA CallType ==
  ASSUME TypeOK, NEW w \in Threads, thread[w].step # "idle"
  PROVE  /\ thread[w] \in Call
         /\ thread[w].id \in 1 .. created /\ thread[w].id \in Ids
         /\ thread[w].key \in Keys
         /\ request[thread[w].id] \in Requests
         /\ entry[thread[w].id] \in Decisions
BY CreatedIds DEF TypeOK

(* The two ways a handler step changes its thread.                         *)
LEMMA ThreadType ==
  ASSUME TypeOK, created' = created, NEW w \in Threads,
         Return(w) \/ (thread[w].step # "idle" /\ \E s \in Steps : Goto(w, s))
  PROVE  /\ thread' \in [Threads -> Call]
         /\ \A v \in Threads : thread'[v].step # "idle" =>
              thread'[v].id \in 1 .. created' /\ thread'[v].key \in Keys
<1>1. Idle \in Call
  BY BoundsAssumption DEF Idle, Call, Steps, LockSteps
<1>2. CASE Return(w)
  BY <1>1, <1>2 DEF Return, TypeOK, Idle
<1>3. CASE thread[w].step # "idle" /\ \E s \in Steps : Goto(w, s)
  <2> PICK s \in Steps : Goto(w, s)
    BY <1>3
  <2>1. thread[w] \in Call /\ thread[w].id \in 1 .. created /\ thread[w].key \in Keys
    BY <1>3 DEF TypeOK
  <2>2. thread' = [thread EXCEPT ![w] = [thread[w] EXCEPT !.step = s]]
    BY DEF Goto
  <2>3. [thread[w] EXCEPT !.step = s] \in Call
    BY <2>1 DEF Call
  <2> QED BY <2>1, <2>2, <2>3 DEF TypeOK, Call
<1> QED BY <1>2, <1>3

(* The steps of the re-check that decide nothing.                           *)
Checking(w) == CheckRole(w) \/ CheckAction(w) \/ CheckController(w) \/ CheckRaises(w)

LEMMA CheckingDoes ==
  ASSUME NEW w \in Threads, Checking(w)
  PROVE  /\ UNCHANGED <<request, created, queue, entry, disk, cooling, coolDisk,
                        auth, audit, runs, recent>>
         /\ thread[w].step \in LockSteps \cup {"approve"}
         /\ Return(w) \/ \E s \in LockSteps : Goto(w, s)
         /\ seen' \subseteq seen \cup {auth}
BY DEF Checking, CheckRole, CheckAction, CheckController, CheckRaises, LockSteps

LEMMA HandlerBusy ==
  ASSUME NEW w \in Threads, Handle(w) PROVE thread[w].step # "idle"
<1>1. CASE Checking(w)
  BY <1>1, CheckingDoes DEF LockSteps
<1>2. CASE ~Checking(w)
  BY <1>2 DEF Checking, Handle, Refuse, Revoke, Block, Claim, Execute, ExecuteRaises,
              NoExecutable, Record, SaveResult, Audit, Reject, LockSteps
<1> QED BY <1>1, <1>2

LEMMA StepType == TypeOK /\ [Next]_vars => TypeOK'
<1> SUFFICES ASSUME TypeOK, [Next]_vars PROVE TypeOK'
  OBVIOUS
<1>1. ASSUME NEW k \in Keys, NEW t \in Targets, NEW dry \in BOOLEAN, Submit(k, t, dry)
      PROVE  TypeOK'
  <2> DEFINE r == [requester |-> k, role |-> auth.keys[k].role, target |-> t, dry |-> dry]
  <2>1. created + 1 \in 0 .. MaxIds /\ created' = created + 1 /\ created <= created + 1
    BY <1>1, BoundsAssumption DEF Submit, TypeOK
  <2>2. auth.keys[k].role \in Roles
    <3>1. auth \in AuthConf
      BY ConfigAssumption DEF TypeOK
    <3> QED BY <3>1 DEF AuthConf, KeyConf
  <2>3. r \in Requests
    BY <2>2 DEF Requests
  <2>4. request' \in [1 .. created' -> Requests]
    <3>1. request' = [i \in 1 .. created + 1 |-> IF i = created + 1 THEN r ELSE request[i]]
      BY <1>1 DEF Submit
    <3>2. \A i \in 1 .. created + 1 : i # created + 1 => request[i] \in Requests
      BY DEF TypeOK
    <3> QED BY <2>1, <2>3, <3>1, <3>2
  <2>5. /\ queue' \subseteq 1 .. created' /\ entry' \in [Ids -> Decisions]
        /\ disk' \in Snapshots /\ disk'.ids \subseteq 1 .. created'
    <3>0. queue \subseteq 1 .. created /\ created \in Nat
      BY <2>1, BoundsAssumption DEF TypeOK
    <3>1. queue \cup {created + 1} \subseteq 1 .. created + 1
      <4> HIDE DEF r
      <4>1. 1 .. created \subseteq 1 .. created + 1 /\ created + 1 \in 1 .. created + 1
        BY <3>0
      <4> QED BY <3>0, <4>1
    <3> QED BY <1>1, <2>1, <3>1, SaveType DEF Submit, TypeOK
  <2>6. 1 .. created \subseteq 1 .. created'
    BY <2>1 DEF TypeOK
  <2> QED BY <1>1, <2>1, <2>4, <2>5, <2>6 DEF Submit, TypeOK
<1>2. ASSUME NEW w \in Threads, NEW k \in Keys, NEW i \in 1 .. created,
             NEW v \in {"approve", "reject"}, Open(w, k, i, v)
      PROVE  TypeOK'
  <2>1. [step |-> v, id |-> i, key |-> k] \in Call
    BY BoundsAssumption DEF Call, Steps, LockSteps, TypeOK
  <2> QED BY <1>2, <2>1 DEF Open, TypeOK
<1>3. ASSUME NEW w \in Threads, Handle(w) PROVE TypeOK'
  <2>0. thread[w].step # "idle"
    BY <1>3, HandlerBusy
  <2> DEFINE i == thread[w].id
  <2>a. i \in 1 .. created /\ i \in Ids /\ thread[w].key \in Keys
        /\ request[i] \in Requests /\ entry[i] \in Decisions
    BY <2>0, CallType
  <2>1. CASE Refuse(w)
    BY <2>1, ThreadType DEF Refuse, TypeOK
  <2>2. CASE Revoke(w)
    <3>1. [entry[i] EXCEPT !.status = "rejected", !.result = "error"] \in Decisions
      BY <2>a DEF Decisions, Statuses
    <3> QED BY <2>2, <2>a, <3>1, DecideType, ThreadType DEF Revoke, TypeOK
  <2>3. CASE Block(w)
    <3>1. <<"blocked", i>> \in AuditRecords
      BY <2>a DEF AuditRecords
    <3> QED BY <2>3, <3>1, ThreadType DEF Block, TypeOK
  <2>4. CASE Claim(w)
    <3>1. [entry[i] EXCEPT !.status = "approved", !.by = thread[w].key] \in Decisions
      BY <2>a DEF Decisions, Statuses
    <3>2. "execute" \in Steps
      BY DEF Steps, LockSteps
    <3> QED BY <2>4, <2>0, <2>a, <3>1, <3>2, DecideType, ThreadType DEF Claim, TypeOK
  <2>5. CASE Execute(w)
    <3>1. runs' \in [Ids -> 0 .. MaxRuns]
      BY <2>5, <2>a, BoundsAssumption DEF Execute, TypeOK
    <3>2. recent' \subseteq 1 .. created
      BY <2>5, <2>a DEF Execute, TypeOK
    <3>3. "record" \in Steps /\ "save" \in Steps
      BY DEF Steps, LockSteps
    <3> QED BY <2>5, <2>0, <3>1, <3>2, <3>3, ThreadType DEF Execute, TypeOK
  <2>6. CASE ExecuteRaises(w)
    BY <2>6, ThreadType DEF ExecuteRaises, TypeOK
  <2>7. CASE NoExecutable(w)
    <3>1. [entry[i] EXCEPT !.status = "rejected", !.result = "error"] \in Decisions
      BY <2>a DEF Decisions, Statuses
    <3> QED BY <2>7, <2>a, <3>1, DecideType, ThreadType DEF NoExecutable, TypeOK
  <2>8. CASE Record(w)
    <3>1. request[i].target \in Targets
      BY <2>a DEF Requests
    <3>2. cooling' \subseteq Targets /\ coolDisk' \subseteq Targets
      BY <2>8, <3>1 DEF Record, TypeOK
    <3>3. "save" \in Steps
      BY DEF Steps, LockSteps
    <3> QED BY <2>8, <2>0, <3>2, <3>3, ThreadType DEF Record, TypeOK
  <2>9. CASE SaveResult(w)
    <3>1. [entry[i] EXCEPT !.result = "outcome"] \in Decisions
      BY <2>a DEF Decisions, Statuses
    <3>2. "audit" \in Steps
      BY DEF Steps, LockSteps
    <3> QED BY <2>9, <2>0, <2>a, <3>1, <3>2, DecideType, ThreadType DEF SaveResult, TypeOK
  <2>10. CASE Audit(w)
    <3>1. <<"approved", i>> \in AuditRecords /\ <<"rejected", i>> \in AuditRecords
      BY <2>a DEF AuditRecords
    <3> QED BY <2>10, <3>1, ThreadType DEF Audit, TypeOK
  <2>11. CASE Reject(w)
    <3>1. [status |-> "rejected", result |-> "error", by |-> thread[w].key] \in Decisions
      BY <2>a DEF Decisions, Statuses
    <3>2. "auditReject" \in Steps
      BY DEF Steps, LockSteps
    <3> QED BY <2>11, <2>0, <2>a, <3>1, <3>2, DecideType, ThreadType DEF Reject, TypeOK
  <2>12. CASE Checking(w)
    <3>1. LockSteps \subseteq Steps
      BY DEF Steps
    <3>2. /\ thread' \in [Threads -> Call]
          /\ \A v \in Threads : thread'[v].step # "idle" =>
               thread'[v].id \in 1 .. created' /\ thread'[v].key \in Keys
      BY <2>12, <2>0, <3>1, CheckingDoes, ThreadType
    <3> QED BY <2>12, <3>2, CheckingDoes DEF TypeOK
  <2> QED BY <1>3, <2>1, <2>2, <2>3, <2>4, <2>5, <2>6, <2>7, <2>8, <2>9, <2>10, <2>11, <2>12
          DEF Handle, Checking
<1>4. ASSUME NEW t \in Targets, Elapse(t) PROVE TypeOK'
  BY <1>4 DEF Elapse, TypeOK
<1>5. ASSUME NEW conf \in Configs, Reconfigure(conf) PROVE TypeOK'
  BY <1>5 DEF Reconfigure, TypeOK
<1>6. CASE Restart
  <2>1. Idle \in Call
    BY BoundsAssumption DEF Idle, Call, Steps, LockSteps
  <2> QED BY <1>6, <2>1 DEF Restart, TypeOK, Snapshots, Idle
<1>7. CASE UNCHANGED vars
  BY <1>7 DEF vars, TypeOK
<1> QED BY <1>1, <1>2, <1>3, <1>4, <1>5, <1>6, <1>7 DEF Next

(* Every variable of the queue keeps its type, under every fault           *)
(* (main.py:190-211, 415-521, 752-932).                                    *)
THEOREM TypeCorrect == Spec => []TypeOK
<1> QED BY InitType, StepType, PTL DEF Spec

-----------------------------------------------------------------------------
(* A handler past its claim works on an entry that is marked approved, in   *)
(* the object it holds, and nobody else does: this is what makes           *)
(* SoleClaimant inductive.                                                 *)
Claimed == \A w \in Threads : Working(w) => entry[thread[w].id].status = "approved"

(* The lock: one thread at most is re-checking a requester, and what it     *)
(* found when it took the lock still holds: the entry can be decided.      *)
Locked(w) == thread[w].step \in LockSteps
LockInv ==
  \A w \in Threads : Locked(w) =>
    /\ Decidable(thread[w].id, thread[w].key)
    /\ \A v \in Threads : Locked(v) => v = w

ClaimInv == TypeOK /\ SoleClaimant /\ Claimed /\ LockInv

(* What is decided about a requester is decided about a pending entry.      *)
LEMMA Rechecked ==
  ASSUME LockInv, NEW w \in Threads, Revoke(w) \/ Claim(w)
  PROVE  /\ Decidable(thread[w].id, thread[w].key)
         /\ thread[w].step \in LockSteps \cup {"approve"} /\ ~Working(w)
BY DEF Revoke, Claim, LockInv, Locked, LockSteps, Working

(* How one handler step of thread w moves the threads that are working.     *)
LEMMA OneThreadMoves ==
  ASSUME TypeOK, NEW w \in Threads,
         Return(w) \/ \E s \in Steps : Goto(w, s)
  PROVE  /\ \A v \in Threads \ {w} : thread'[v] = thread[v]
         /\ Return(w) => thread'[w] = Idle
         /\ \A s \in Steps : Goto(w, s) =>
              thread'[w].step = s /\ thread'[w].id = thread[w].id
                                  /\ thread'[w].key = thread[w].key
BY DEF Return, Goto, TypeOK, Call

(* A step that leaves every entry alone and puts no new thread to work.     *)
LEMMA ClaimsStay ==
  ASSUME ClaimInv, entry' = entry,
         \A w \in Threads : Working(w)' => Working(w) /\ thread'[w].id = thread[w].id
  PROVE  SoleClaimant' /\ Claimed'
BY DEF ClaimInv, SoleClaimant, Claimed

(* A step that decides the entry of thread w, which stops or goes on.       *)
LEMMA ClaimsStayDeciding ==
  ASSUME ClaimInv, NEW w \in Threads, NEW STATE d, d \in Decisions,
         thread[w].step # "idle",
         Decide(thread[w].id, d),
         \A v \in Threads \ {w} : thread'[v] = thread[v],
         Working(w)' => thread'[w].id = thread[w].id /\ d.status = "approved",
         Working(w) \/ entry[thread[w].id].status = "pending"
  PROVE  SoleClaimant' /\ Claimed'
<1> DEFINE i == thread[w].id
<1>1. i \in Ids
  BY CallType DEF ClaimInv
<1>2. entry' = [entry EXCEPT ![i] = d]
  BY SaveFacts DEF Decide
<1>3. \A v \in Threads \ {w} : Working(v) => thread[v].id # i
  BY DEF ClaimInv, SoleClaimant, Claimed
<1>4. \A v \in Threads \ {w} : Working(v)' <=> Working(v)
  BY DEF Working
<1>5. SoleClaimant'
  BY <1>3, <1>4 DEF SoleClaimant, ClaimInv
<1>6. Claimed'
  <2> SUFFICES ASSUME NEW v \in Threads, Working(v)'
               PROVE  entry'[thread'[v].id].status = "approved"
    BY DEF Claimed
  <2>1. CASE v = w
    BY <1>1, <1>2, <2>1 DEF ClaimInv, TypeOK
  <2>2. CASE v # w
    <3>1. Working(v) /\ thread[v].id # i /\ thread[v].id \in Ids
          /\ entry[thread[v].id].status = "approved"
      BY <1>3, <1>4, <2>2, CallType DEF ClaimInv, Claimed, Working
    <3> QED BY <1>1, <1>2, <2>2, <3>1 DEF ClaimInv, TypeOK
  <2> QED BY <2>1, <2>2
<1> QED BY <1>5, <1>6

LEMMA StepClaims == ClaimInv /\ [Next]_vars => SoleClaimant' /\ Claimed'
<1> SUFFICES ASSUME ClaimInv, [Next]_vars PROVE SoleClaimant' /\ Claimed'
  OBVIOUS
<1>0. TypeOK
  BY DEF ClaimInv
<1>1. ASSUME NEW k \in Keys, NEW t \in Targets, NEW dry \in BOOLEAN, Submit(k, t, dry)
      PROVE  SoleClaimant' /\ Claimed'
  <2>1. entry' = entry /\ thread' = thread
    BY <1>1, SaveFacts DEF Submit
  <2> QED BY <2>1, ClaimsStay DEF Working
<1>2. ASSUME NEW w \in Threads, NEW k \in Keys, NEW i \in 1 .. created,
             NEW v \in {"approve", "reject"}, Open(w, k, i, v)
      PROVE  SoleClaimant' /\ Claimed'
  <2>1. /\ entry' = entry
        /\ \A u \in Threads : u # w => thread'[u] = thread[u]
        /\ thread'[w].step = v
    BY <1>2, <1>0 DEF Open, TypeOK
  <2> QED BY <2>1, ClaimsStay DEF Working
<1>3. ASSUME NEW w \in Threads, Handle(w) PROVE SoleClaimant' /\ Claimed'
  <2>0. thread[w].step # "idle"
    BY <1>3, HandlerBusy
  <2> DEFINE i == thread[w].id
  <2>a. i \in Ids /\ thread[w].key \in Keys /\ entry[i] \in Decisions
    BY <1>0, <2>0, CallType
  <2>b. Return(w) => /\ \A v \in Threads \ {w} : thread'[v] = thread[v]
                     /\ ~Working(w)'
    BY <1>0, OneThreadMoves DEF Working, Idle
  <2>c. \A s \in Steps : Goto(w, s) =>
          /\ \A v \in Threads \ {w} : thread'[v] = thread[v]
          /\ thread'[w].step = s /\ thread'[w].id = i
    BY <1>0, OneThreadMoves
  <2>1. CASE Refuse(w) \/ Block(w) \/ ExecuteRaises(w) \/ Audit(w)
    BY <2>1, <2>b, ClaimsStay DEF Refuse, Block, ExecuteRaises, Audit, Working
  <2>2. CASE Revoke(w)
    <3>1. [entry[i] EXCEPT !.status = "rejected", !.result = "error"] \in Decisions
      BY <2>a DEF Decisions, Statuses
    <3>2. entry[i].status = "pending"
      BY <2>2, Rechecked DEF ClaimInv, Decidable
    <3> QED BY <2>2, <2>0, <2>b, <3>1, <3>2, ClaimsStayDeciding DEF Revoke
  <2>3. CASE Claim(w)
    <3> DEFINE d == [entry[i] EXCEPT !.status = "approved", !.by = thread[w].key]
    <3>1. d \in Decisions /\ d.status = "approved"
      BY <2>a DEF Decisions, Statuses
    <3>2. "execute" \in Steps
      BY DEF Steps, LockSteps
    <3>3. entry[i].status = "pending"
      BY <2>3, Rechecked DEF ClaimInv, Decidable
    <3> QED BY <2>3, <2>0, <2>c, <3>1, <3>2, <3>3, ClaimsStayDeciding DEF Claim
  <2>4. CASE Execute(w) \/ Record(w)
    <3>1. "record" \in Steps /\ "save" \in Steps
      BY DEF Steps, LockSteps
    <3>2. entry' = entry /\ Working(w) /\ (Goto(w, "record") \/ Goto(w, "save"))
      BY <2>4 DEF Execute, Record, Working
    <3> QED BY <2>c, <3>1, <3>2, ClaimsStay DEF Working
  <2>5. CASE NoExecutable(w)
    <3>1. [entry[i] EXCEPT !.status = "rejected", !.result = "error"] \in Decisions
      BY <2>a DEF Decisions, Statuses
    <3> QED BY <2>5, <2>0, <2>b, <3>1, ClaimsStayDeciding DEF NoExecutable, Working
  <2>6. CASE SaveResult(w)
    <3> DEFINE d == [entry[i] EXCEPT !.result = "outcome"]
    <3>1. Working(w)
      BY <2>6 DEF SaveResult, Working
    <3>2. d \in Decisions /\ d.status = "approved"
      BY <2>a, <3>1 DEF Decisions, ClaimInv, Claimed
    <3>3. "audit" \in Steps
      BY DEF Steps, LockSteps
    <3> QED BY <2>6, <2>0, <2>c, <3>1, <3>2, <3>3, ClaimsStayDeciding DEF SaveResult
  <2>7. CASE Reject(w)
    <3> DEFINE d == [status |-> "rejected", result |-> "error", by |-> thread[w].key]
    <3>1. d \in Decisions
      BY <2>a DEF Decisions, Statuses
    <3>2. "auditReject" \in Steps
      BY DEF Steps, LockSteps
    <3>3. ~Working(w)'
      BY <2>7, <2>c, <3>2 DEF Reject, Working
    <3> QED BY <2>7, <2>0, <2>c, <3>1, <3>2, <3>3, ClaimsStayDeciding DEF Reject, Decidable
  <2>8. CASE Checking(w)
    <3>1. LockSteps \subseteq Steps /\ ~Working(w)
      BY <2>8, CheckingDoes DEF Steps, LockSteps, Working
    <3>2. ~Working(w)' /\ \A v \in Threads \ {w} : thread'[v] = thread[v]
      BY <2>8, <2>b, <2>c, <3>1, CheckingDoes DEF Working, LockSteps
    <3>3. entry' = entry
      BY <2>8, CheckingDoes
    <3> QED BY <3>2, <3>3, ClaimsStay DEF Working
  <2> QED BY <1>3, <2>1, <2>2, <2>3, <2>4, <2>5, <2>6, <2>7, <2>8 DEF Handle, Checking
<1>4. ASSUME NEW t \in Targets, Elapse(t) PROVE SoleClaimant' /\ Claimed'
  BY <1>4, ClaimsStay DEF Elapse, Working
<1>5. ASSUME NEW conf \in Configs, Reconfigure(conf) PROVE SoleClaimant' /\ Claimed'
  BY <1>5, ClaimsStay DEF Reconfigure, Working
<1>6. CASE Restart
  BY <1>6 DEF Restart, SoleClaimant, Claimed, Working, Idle
<1>7. CASE UNCHANGED vars
  BY <1>7, ClaimsStay DEF vars, Working
<1> QED BY <1>1, <1>2, <1>3, <1>4, <1>5, <1>6, <1>7 DEF Next

(* A step that leaves the queue alone and lets no other thread lock.        *)
LEMMA LockStays ==
  ASSUME ClaimInv, UNCHANGED <<request, queue, entry>>,
         \A v \in Threads : Locked(v)' => thread'[v] = thread[v]
  PROVE  LockInv'
BY DEF ClaimInv, LockInv, Locked, Decidable

(* A step of the thread that holds the lock, or of one that finds it free,  *)
(* which lets go of it again.                                              *)
LEMMA LockReleased ==
  ASSUME ClaimInv, NEW w \in Threads, LockFree \/ Locked(w), ~Locked(w)',
         \A v \in Threads \ {w} : thread'[v] = thread[v]
  PROVE  LockInv'
BY DEF ClaimInv, LockInv, Locked, LockFree

LEMMA StepLock == ClaimInv /\ [Next]_vars => LockInv'
<1> SUFFICES ASSUME ClaimInv, [Next]_vars PROVE LockInv'
  OBVIOUS
<1>0. TypeOK /\ LockInv
  BY DEF ClaimInv
<1>1. ASSUME NEW k \in Keys, NEW t \in Targets, NEW dry \in BOOLEAN, Submit(k, t, dry)
      PROVE  LockInv'
  BY <1>1 DEF Submit, LockFree, LockInv, Locked
<1>2. ASSUME NEW w \in Threads, NEW k \in Keys, NEW i \in 1 .. created,
             NEW v \in {"approve", "reject"}, Open(w, k, i, v)
      PROVE  LockInv'
  <2>1. \A u \in Threads : Locked(u)' => thread'[u] = thread[u]
    BY <1>2, <1>0 DEF Open, TypeOK, Locked, LockSteps
  <2> QED BY <1>2, <2>1, LockStays DEF Open
<1>3. ASSUME NEW w \in Threads, Handle(w) PROVE LockInv'
  <2> DEFINE i == thread[w].id
  <2>b. Return(w) => /\ \A v \in Threads \ {w} : thread'[v] = thread[v]
                     /\ ~Locked(w)'
    BY <1>0, OneThreadMoves DEF Locked, LockSteps, Idle
  <2>c. \A s \in Steps : Goto(w, s) =>
          /\ \A v \in Threads \ {w} : thread'[v] = thread[v]
          /\ thread'[w].step = s /\ thread'[w].id = i /\ thread'[w].key = thread[w].key
    BY <1>0, OneThreadMoves
  <2>d. \A s \in {"execute", "record", "save", "audit", "auditReject"} :
          s \in Steps /\ s \notin LockSteps
    BY DEF Steps, LockSteps
  <2>1. CASE Refuse(w) \/ ExecuteRaises(w) \/ Audit(w)
    <3>1. Return(w) /\ UNCHANGED <<request, queue, entry>>
      BY <2>1 DEF Refuse, ExecuteRaises, Audit
    <3> QED BY <2>b, <3>1, LockStays
  <2>2. CASE Execute(w) \/ Record(w)
    <3>1. /\ UNCHANGED <<request, queue, entry>>
          /\ \E s \in {"record", "save"} : Goto(w, s)
      BY <2>2 DEF Execute, Record
    <3>2. ~Locked(w)' /\ \A v \in Threads \ {w} : thread'[v] = thread[v]
      BY <2>c, <2>d, <3>1 DEF Locked
    <3> QED BY <3>1, <3>2, LockStays
  <2>3. CASE Revoke(w) \/ Block(w) \/ Claim(w) \/ CheckRaises(w) \/ NoExecutable(w)
             \/ SaveResult(w) \/ Reject(w)
    <3>1. LockFree \/ Locked(w)
      BY <2>3 DEF Revoke, Block, Claim, CheckRaises, NoExecutable, SaveResult, Reject,
                  Locked, LockSteps
    <3>2. Return(w) \/ \E s \in {"execute", "audit", "auditReject"} : Goto(w, s)
      BY <2>3 DEF Revoke, Block, Claim, CheckRaises, NoExecutable, SaveResult, Reject
    <3>3. ~Locked(w)' /\ \A v \in Threads \ {w} : thread'[v] = thread[v]
      BY <2>b, <2>c, <2>d, <3>2 DEF Locked
    <3> QED BY <3>1, <3>3, LockReleased
  <2>4. CASE CheckRole(w) \/ CheckAction(w) \/ CheckController(w)
    <3>1. /\ UNCHANGED <<request, queue, entry>>
          /\ \E s \in LockSteps : Goto(w, s)
      BY <2>4 DEF CheckRole, CheckAction, CheckController, LockSteps
    <3>2. (LockFree /\ Decidable(i, thread[w].key)) \/ Locked(w)
      BY <2>4 DEF CheckRole, CheckAction, CheckController, Locked, LockSteps
    <3>3. /\ \A v \in Threads \ {w} : thread'[v] = thread[v]
          /\ thread'[w].id = i /\ thread'[w].key = thread[w].key
      BY <2>c, <3>1 DEF Steps
    <3> QED BY <1>0, <3>1, <3>2, <3>3 DEF LockInv, Locked, LockFree, Decidable
  <2> QED BY <1>3, <2>1, <2>2, <2>3, <2>4 DEF Handle
<1>4. CASE Restart
  BY <1>4 DEF Restart, LockInv, Locked, LockSteps, Idle
<1>5. CASE UNCHANGED <<request, queue, entry, thread>>
  BY <1>5, LockStays
<1> QED BY <1>1, <1>2, <1>3, <1>4, <1>5 DEF Next, Elapse, Reconfigure, vars

LEMMA InitClaims == Init => SoleClaimant /\ Claimed /\ LockInv
BY DEF Init, SoleClaimant, Claimed, Working, Idle, LockInv, Locked, LockSteps

LEMMA ClaimInvariant == Spec => []ClaimInv
<1>1. Init => ClaimInv
  BY InitType, InitClaims DEF ClaimInv
<1>2. ClaimInv /\ [Next]_vars => ClaimInv'
  BY StepType, StepClaims, StepLock DEF ClaimInv
<1> QED BY <1>1, <1>2, PTL DEF Spec

(* Two handlers never carry out the same approval, under every fault: a     *)
(* lost save, a crash, an exception (main.py:824-830).                     *)
THEOREM ClaimsAreExclusive == Spec => []SoleClaimant
<1>1. ClaimInv => SoleClaimant
  BY DEF ClaimInv
<1> QED BY <1>1, ClaimInvariant, PTL

-----------------------------------------------------------------------------
(* When the queue's file can always be written, memory and disk agree       *)
(* between any two steps.                                                  *)
LEMMA StepDisk ==
  ASSUME "disk" \notin Faults, TypeOK, DiskIsCurrent, [Next]_vars
  PROVE  DiskIsCurrent'
<1>1. ASSUME NEW STATE q, NEW STATE e, Save(q, e) PROVE DiskIsCurrent'
  BY <1>1, SaveFacts DEF DiskIsCurrent, Snapshot
<1>2. ASSUME NEW STATE i, NEW STATE d, Decide(i, d) PROVE DiskIsCurrent'
  BY <1>1, <1>2 DEF Decide
<1>3. CASE UNCHANGED <<queue, entry, disk>>
  BY <1>3 DEF DiskIsCurrent, Snapshot
<1>4. ASSUME NEW k \in Keys, NEW t \in Targets, NEW dry \in BOOLEAN, Submit(k, t, dry)
      PROVE  DiskIsCurrent'
  BY <1>1, <1>4 DEF Submit
<1>5. ASSUME NEW w \in Threads, Handle(w) PROVE DiskIsCurrent'
  <2>1. CASE Refuse(w) \/ Block(w) \/ Execute(w) \/ ExecuteRaises(w) \/ Record(w) \/ Audit(w)
    BY <1>3, <2>1 DEF Refuse, Block, Execute, ExecuteRaises, Record, Audit
  <2>2. CASE Revoke(w) \/ Claim(w) \/ NoExecutable(w) \/ SaveResult(w) \/ Reject(w)
    BY <1>2, <2>2 DEF Revoke, Claim, NoExecutable, SaveResult, Reject
  <2>3. CASE Checking(w)
    BY <1>3, <2>3, CheckingDoes
  <2> QED BY <1>5, <2>1, <2>2, <2>3 DEF Handle, Checking
<1>6. CASE Restart
  <2>1. entry \in [Ids -> Decisions] /\ disk = Snapshot(queue, entry)
    BY DEF TypeOK, DiskIsCurrent
  <2>2. queue' = queue /\ entry' = [i \in Ids |-> IF i \in queue THEN entry[i] ELSE Blank]
        /\ disk' = disk
    BY <1>6, <2>1 DEF Restart, Snapshot
  <2> QED BY <2>1, <2>2 DEF DiskIsCurrent, Snapshot
<1> QED BY <1>3, <1>4, <1>5, <1>6
        DEF Next, Open, Elapse, Reconfigure, vars

(* A claimed approval has not run yet, and somebody other than the          *)
(* requester is on record for it.                                          *)
Ready == \A w \in Threads : thread[w].step = "execute" =>
           /\ runs[thread[w].id] = 0
           /\ entry[thread[w].id].by \notin {NoKey, request[thread[w].id].requester}

(* A run is never more than one, never before the request, and never of an  *)
(* entry that could be claimed again.                                      *)
Spent == /\ AtMostOnce
         /\ ExecutedWasApproved
         /\ \A i \in Ids : i > created => runs[i] = 0

RunInv == ClaimInv /\ DiskIsCurrent /\ Ready /\ Spent

(* A step that runs nothing, decides nothing and claims nothing.            *)
LEMMA RunStays ==
  ASSUME RunInv, TypeOK', runs' = runs, entry' = entry, created <= created',
         \A i \in 1 .. created : request'[i] = request[i],
         \A i \in queue' \ queue : i > created,
         \A w \in Threads : thread'[w].step = "execute" => thread'[w] = thread[w]
  PROVE  Ready' /\ Spent'
<1> USE DEF RunInv, ClaimInv
<1>1. created \in Nat /\ created' \in Nat
  BY BoundsAssumption DEF TypeOK
<1>2. Ready'
  BY CallType DEF Ready
<1>3. AtMostOnce'
  BY DEF Spent, AtMostOnce
<1>4. ASSUME NEW i \in queue', runs'[i] > 0
      PROVE  entry'[i].status = "approved" /\ entry'[i].by \notin {NoKey, request'[i].requester}
  <2>1. i \in queue
    <3> SUFFICES ASSUME i \notin queue PROVE FALSE
      OBVIOUS
    <3>1. i > created
      OBVIOUS
    <3>2. i \in Ids
      BY BoundsAssumption DEF TypeOK, Ids
    <3> QED BY <1>4, <3>1, <3>2 DEF Spent
  <2>2. i \in 1 .. created
    BY <2>1 DEF TypeOK
  <2> QED BY <1>4, <2>1, <2>2 DEF Spent, ExecutedWasApproved
<1>5. \A i \in Ids : i > created' => runs'[i] = 0
  BY <1>1, BoundsAssumption DEF Spent, Ids
<1> QED BY <1>2, <1>3, <1>4, <1>5 DEF Spent, ExecutedWasApproved

(* A step that decides the entry i of thread w and runs nothing.            *)
LEMMA RunStaysDeciding ==
  ASSUME RunInv, TypeOK', NEW w \in Threads, NEW STATE d, d \in Decisions,
         thread[w].step # "idle", Decide(thread[w].id, d),
         runs' = runs, created' = created, request' = request,
         \A v \in Threads \ {w} : thread'[v] = thread[v],
         thread'[w].step = "execute" =>
           /\ thread'[w].id = thread[w].id
           /\ runs[thread[w].id] = 0
           /\ d.by \notin {NoKey, request[thread[w].id].requester},
         thread[w].id \in queue /\ runs[thread[w].id] > 0 =>
           d.status = "approved" /\ d.by = entry[thread[w].id].by,
         Working(w) \/ entry[thread[w].id].status = "pending"
  PROVE  Ready' /\ Spent'
<1> DEFINE i == thread[w].id
<1>1. i \in Ids
  BY CallType DEF RunInv, ClaimInv
<1>2. entry' = [entry EXCEPT ![i] = d] /\ queue' \subseteq queue
  BY SaveFacts DEF Decide
<1>3. entry'[i] = d /\ \A j \in Ids \ {i} : entry'[j] = entry[j]
  BY <1>1, <1>2 DEF RunInv, ClaimInv, TypeOK
<1>4. \A v \in Threads \ {w} : Working(v) => thread[v].id # i
  BY DEF RunInv, ClaimInv, SoleClaimant, Claimed
<1>5. Ready'
  <2> SUFFICES ASSUME NEW v \in Threads, thread'[v].step = "execute"
               PROVE  /\ runs[thread'[v].id] = 0
                      /\ entry'[thread'[v].id].by
                           \notin {NoKey, request[thread'[v].id].requester}
    BY DEF Ready
  <2>1. CASE v = w
    BY <1>3, <2>1
  <2>2. CASE v # w
    <3>1. thread'[v] = thread[v] /\ Working(v)
      BY <2>2 DEF Working
    <3>2. thread[v].id \in Ids \ {i}
      BY <1>4, <2>2, <3>1, CallType DEF RunInv, ClaimInv
    <3> QED BY <1>3, <3>1, <3>2 DEF RunInv, Ready
  <2> QED BY <2>1, <2>2
<1>6. ExecutedWasApproved'
  <2> SUFFICES ASSUME NEW j \in queue', runs[j] > 0
               PROVE  entry'[j].status = "approved"
                      /\ entry'[j].by \notin {NoKey, request[j].requester}
    BY DEF ExecutedWasApproved
  <2>1. j \in queue /\ j \in Ids
    BY <1>2, CreatedIds DEF RunInv, ClaimInv, TypeOK
  <2>2. entry[j].status = "approved" /\ entry[j].by \notin {NoKey, request[j].requester}
    BY <2>1 DEF RunInv, Spent, ExecutedWasApproved
  <2> QED BY <1>3, <2>1, <2>2
<1> QED BY <1>5, <1>6 DEF RunInv, Spent, AtMostOnce

(* The one step that runs something uses up a claim that had not run.       *)
LEMMA RunOnce ==
  ASSUME RunInv, TypeOK', NEW w \in Threads, Execute(w)
  PROVE  Ready' /\ Spent'
<1> DEFINE i == thread[w].id
<1>1. i \in Ids /\ i \in 1 .. created /\ thread[w].step = "execute"
  BY CallType DEF Execute, RunInv, ClaimInv
<1>2. /\ runs' = [runs EXCEPT ![i] = @ + 1]
      /\ UNCHANGED <<entry, queue, request, created>>
  BY DEF Execute
<1>3. runs[i] = 0 /\ entry[i].by \notin {NoKey, request[i].requester}
      /\ entry[i].status = "approved"
  BY <1>1 DEF RunInv, ClaimInv, Claimed, Ready, Working
<1>4. runs'[i] = 1 /\ \A j \in Ids \ {i} : runs'[j] = runs[j]
  BY <1>1, <1>2, <1>3 DEF RunInv, ClaimInv, TypeOK
<1>5. thread'[w].step # "execute" /\ \A v \in Threads \ {w} : thread'[v] = thread[v]
  BY OneThreadMoves DEF Execute, RunInv, ClaimInv, Steps, LockSteps
<1>6. Ready'
  <2> SUFFICES ASSUME NEW v \in Threads, thread'[v].step = "execute"
               PROVE  runs'[thread'[v].id] = 0
                      /\ entry[thread'[v].id].by
                           \notin {NoKey, request[thread'[v].id].requester}
    BY <1>2 DEF Ready
  <2>1. v # w /\ thread'[v] = thread[v]
    BY <1>5
  <2>2. thread[v].id \in Ids \ {i}
    BY <1>1, <2>1, CallType DEF RunInv, ClaimInv, SoleClaimant, Working
  <2> QED BY <1>4, <2>1, <2>2 DEF RunInv, Ready
<1>7. AtMostOnce'
  BY <1>4 DEF RunInv, Spent, AtMostOnce
<1>8. ExecutedWasApproved'
  <2> SUFFICES ASSUME NEW j \in queue, runs'[j] > 0
               PROVE  entry[j].status = "approved"
                      /\ entry[j].by \notin {NoKey, request[j].requester}
    BY <1>2 DEF ExecutedWasApproved
  <2>1. j \in Ids
    BY CreatedIds DEF RunInv, ClaimInv, TypeOK
  <2> QED BY <1>3, <1>4, <2>1 DEF RunInv, Spent, ExecutedWasApproved
<1>9. \A j \in Ids : j > created' => runs'[j] = 0
  <2>1. ~(i > created)
    BY <1>1, BoundsAssumption DEF RunInv, ClaimInv, TypeOK
  <2> QED BY <1>2, <1>4, <2>1 DEF RunInv, Spent
<1> QED BY <1>6, <1>7, <1>8, <1>9 DEF Spent

LEMMA StepRun ==
  ASSUME "disk" \notin Faults, RunInv, TypeOK', [Next]_vars
  PROVE  Ready' /\ Spent'
<1>0. TypeOK /\ created \in Nat /\ created' \in Nat /\ created <= created
  BY BoundsAssumption DEF RunInv, ClaimInv, TypeOK
<1>1. ASSUME NEW k \in Keys, NEW t \in Targets, NEW dry \in BOOLEAN, Submit(k, t, dry)
      PROVE  Ready' /\ Spent'
  <2>1. /\ created' = created + 1 /\ created <= created'
        /\ \A i \in 1 .. created : request'[i] = request[i]
    BY <1>0, <1>1 DEF Submit
  <2>2. entry' = entry /\ queue' \subseteq queue \cup {created + 1}
    BY <1>1, SaveFacts DEF Submit
  <2>3. \A i \in queue' \ queue : i > created
    BY <1>0, <2>2
  <2> QED BY <1>1, <2>1, <2>2, <2>3, RunStays DEF Submit
<1>2. ASSUME NEW w \in Threads, NEW k \in Keys, NEW i \in 1 .. created,
             NEW v \in {"approve", "reject"}, Open(w, k, i, v)
      PROVE  Ready' /\ Spent'
  <2>1. /\ \A u \in Threads : u # w => thread'[u] = thread[u]
        /\ thread'[w].step = v
    BY <1>0, <1>2 DEF Open, TypeOK
  <2> QED BY <1>0, <1>2, <2>1, RunStays DEF Open
<1>3. ASSUME NEW w \in Threads, Handle(w) PROVE Ready' /\ Spent'
  <2>0. thread[w].step # "idle"
    BY <1>3, HandlerBusy
  <2> DEFINE i == thread[w].id
  <2>a. i \in Ids /\ thread[w].key \in Keys /\ entry[i] \in Decisions
        /\ runs[i] \in Nat
    BY <1>0, <2>0, CallType, BoundsAssumption DEF TypeOK
  <2>b. Return(w) => /\ \A v \in Threads \ {w} : thread'[v] = thread[v]
                     /\ thread'[w].step # "execute"
    BY <1>0, OneThreadMoves DEF Idle
  <2>c. \A s \in Steps : Goto(w, s) =>
          /\ \A v \in Threads \ {w} : thread'[v] = thread[v]
          /\ thread'[w].step = s /\ thread'[w].id = i
    BY <1>0, OneThreadMoves
  <2>d. entry[i].status = "pending" /\ i \in queue => runs[i] = 0
    BY <2>a DEF RunInv, Spent, ExecutedWasApproved
  <2>e. \A s \in {"execute", "record", "save", "audit", "auditReject"} : s \in Steps
    BY DEF Steps, LockSteps
  <2>1. CASE Refuse(w) \/ Block(w) \/ ExecuteRaises(w) \/ Audit(w)
    BY <1>0, <2>1, <2>b, RunStays DEF Refuse, Block, ExecuteRaises, Audit
  <2>2. CASE Revoke(w)
    <3>1. [entry[i] EXCEPT !.status = "rejected", !.result = "error"] \in Decisions
      BY <2>a DEF Decisions, Statuses
    <3>2. entry[i].status = "pending"
      BY <2>2, Rechecked DEF RunInv, ClaimInv, Decidable
    <3> QED BY <2>2, <2>0, <2>a, <2>b, <2>d, <3>1, <3>2, RunStaysDeciding DEF Revoke
  <2>3. CASE Claim(w)
    <3> DEFINE d == [entry[i] EXCEPT !.status = "approved", !.by = thread[w].key]
    <3>1. d \in Decisions /\ d.by = thread[w].key /\ d.by # NoKey
      BY <2>a, ConfigAssumption DEF Decisions, Statuses
    <3>0. Decidable(i, thread[w].key)
      BY <2>3, Rechecked DEF RunInv, ClaimInv
    <3>2. d.by # request[i].requester
      BY <3>0, <3>1 DEF Decidable
    <3>3. runs[i] = 0 /\ entry[i].status = "pending"
      BY <3>0, <2>d DEF Decidable
    <3>4. thread'[w].id = i /\ \A v \in Threads \ {w} : thread'[v] = thread[v]
      BY <2>3, <2>c, <2>e DEF Claim
    <3>5. Decide(i, d) /\ UNCHANGED <<runs, created, request>>
      BY <2>3 DEF Claim
    <3> HIDE DEF d
    <3> QED BY <2>0, <3>1, <3>2, <3>3, <3>4, <3>5, RunStaysDeciding
  <2>4. CASE Execute(w)
    BY <2>4, RunOnce
  <2>5. CASE Record(w)
    <3>1. thread'[w].step # "execute" /\ \A v \in Threads \ {w} : thread'[v] = thread[v]
      BY <2>5, <2>c, <2>e DEF Record
    <3> QED BY <1>0, <2>5, <3>1, RunStays DEF Record
  <2>6. CASE NoExecutable(w)
    <3>1. [entry[i] EXCEPT !.status = "rejected", !.result = "error"] \in Decisions
      BY <2>a DEF Decisions, Statuses
    <3>2. runs[i] = 0 /\ Working(w)
      BY <2>6 DEF NoExecutable, RunInv, Ready, Working
    <3> QED BY <2>6, <2>0, <2>a, <2>b, <3>1, <3>2, RunStaysDeciding DEF NoExecutable
  <2>7. CASE SaveResult(w)
    <3> DEFINE d == [entry[i] EXCEPT !.result = "outcome"]
    <3>1. Working(w)
      BY <2>7 DEF SaveResult, Working
    <3>2. d \in Decisions /\ d.status = "approved" /\ d.by = entry[i].by
      BY <2>a, <3>1 DEF Decisions, RunInv, ClaimInv, Claimed
    <3> QED BY <2>7, <2>0, <2>c, <2>e, <3>1, <3>2, RunStaysDeciding DEF SaveResult
  <2>8. CASE Reject(w)
    <3> DEFINE d == [status |-> "rejected", result |-> "error", by |-> thread[w].key]
    <3>1. d \in Decisions
      BY <2>a DEF Decisions, Statuses
    <3> QED BY <2>8, <2>0, <2>a, <2>c, <2>d, <2>e, <3>1, RunStaysDeciding
            DEF Reject, Decidable
  <2>9. CASE Checking(w)
    <3>1. LockSteps \subseteq Steps /\ "execute" \notin LockSteps
      BY DEF Steps, LockSteps
    <3>2. thread'[w].step # "execute" /\ \A v \in Threads \ {w} : thread'[v] = thread[v]
      BY <2>9, <2>b, <2>c, <3>1, CheckingDoes
    <3> QED BY <1>0, <2>9, <3>2, CheckingDoes, RunStays
  <2> QED BY <1>3, <2>1, <2>2, <2>3, <2>4, <2>5, <2>6, <2>7, <2>8, <2>9 DEF Handle, Checking
<1>4. ASSUME NEW t \in Targets, Elapse(t) PROVE Ready' /\ Spent'
  BY <1>0, <1>4, RunStays DEF Elapse
<1>5. ASSUME NEW conf \in Configs, Reconfigure(conf) PROVE Ready' /\ Spent'
  BY <1>0, <1>5, RunStays DEF Reconfigure
<1>6. CASE Restart
  <2>1. queue' = queue /\ \A i \in queue : entry'[i] = entry[i]
    <3>1. queue \subseteq Ids
      BY <1>0, CreatedIds DEF TypeOK
    <3>2. disk = Snapshot(queue, entry)
      BY DEF RunInv, DiskIsCurrent
    <3> QED BY <1>6, <3>1, <3>2 DEF Restart, Snapshot
  <2>2. Ready'
    BY <1>6 DEF Restart, Ready, Idle
  <2> QED BY <1>6, <2>1, <2>2 DEF Restart, RunInv, Spent, AtMostOnce, ExecutedWasApproved
<1>7. CASE UNCHANGED vars
  BY <1>0, <1>7, RunStays DEF vars
<1> QED BY <1>1, <1>2, <1>3, <1>4, <1>5, <1>6, <1>7 DEF Next

LEMMA InitRun == Init => DiskIsCurrent /\ Ready /\ Spent
BY DEF Init, DiskIsCurrent, Snapshot, Ready, Spent, AtMostOnce, ExecutedWasApproved, Idle

LEMMA RunInvariant == ASSUME "disk" \notin Faults PROVE Spec => []RunInv
<1>1. Init => RunInv
  BY InitType, InitClaims, InitRun DEF RunInv, ClaimInv
<1>2. RunInv /\ [Next]_vars => RunInv'
  <2> SUFFICES ASSUME RunInv, [Next]_vars PROVE RunInv'
    OBVIOUS
  <2>1. ClaimInv'
    BY StepType, StepClaims, StepLock DEF RunInv, ClaimInv
  <2> QED BY <2>1, StepDisk, StepRun DEF RunInv, ClaimInv
<1> QED BY <1>1, <1>2, PTL DEF Spec

(* A restart finds exactly the queue that was in memory, if every write of  *)
(* its file succeeds (main.py:187-189).                                    *)
THEOREM RestartLosesNothing ==
  ASSUME "disk" \notin Faults PROVE Spec => []DiskIsCurrent
<1>1. RunInv => DiskIsCurrent
  BY DEF RunInv
<1> QED BY <1>1, RunInvariant, PTL

(* However often the process crashes, an approval is executed at most once, *)
(* if every write of the queue's file succeeds (main.py:824-834).          *)
THEOREM RunsAtMostOnce == ASSUME "disk" \notin Faults PROVE Spec => []AtMostOnce
<1>1. RunInv => AtMostOnce
  BY DEF RunInv, Spent
<1> QED BY <1>1, RunInvariant, PTL

(* What was executed stays on record as approved by a key that is not the   *)
(* requester's, under the same condition (main.py:771-775, 827-829).       *)
THEOREM ApprovedBySomeoneElse ==
  ASSUME "disk" \notin Faults PROVE Spec => []ExecutedWasApproved
<1>1. RunInv => ExecutedWasApproved
  BY DEF RunInv, Spent
<1> QED BY <1>1, RunInvariant, PTL
=============================================================================
