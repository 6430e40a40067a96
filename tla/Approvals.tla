----------------------------- MODULE Approvals -----------------------------
(***************************************************************************)
(* The approval queue of src/main.py: a /webhook request that asks for an  *)
(* approval is queued; a second API key approves or rejects it; approving  *)
(* executes the action.  /approvals/{id}/approve and .../reject are plain  *)
(* `def` handlers, so each call runs on a thread of the server's pool and  *)
(* several of them interleave.  A block under `with approval_lock` is one  *)
(* action here: nothing else changes the queue meanwhile, and of the state *)
(* outside the lock it reads the cooldown record, once.  Only the block of *)
(* approve is cut where it parses config/auth.yaml again, which may be     *)
(* edited in between: a thread at one of these steps holds the lock.       *)
(* Every call made outside the lock is an action of its own.               *)
(*                                                                         *)
(* Ids are handed out in creation order (uuid4 in the code: never reused), *)
(* so approval_queue, which is only appended to, is the set of its ids and *)
(* "oldest" is "smallest".                                                 *)
(***************************************************************************)
EXTENDS Naturals, FiniteSets

CONSTANTS
  Threads,        \* threads of the pool that run approve/reject handlers
  Keys,           \* API keys
  NoKey,          \* approved_by of an entry nobody has decided
  Roles,          \* role names, the role None of an unknown key included
  Targets,        \* (event_type, controller, dedup value): a cooldown key
  Cooled,         \* targets whose action has cooldown_seconds > 0
  Inert,          \* targets for which execute_action returns None
  Configs,        \* contents config/auth.yaml may have
  MaxIds,         \* bound: approvals ever requested
  MaxProcessed,   \* MAX_PROCESSED_APPROVALS
  MaxRuns,        \* bound: executions of one approval (only with "disk")
  Faults          \* which of FaultKinds may happen

FaultKinds == {"crash", "disk", "audit", "raise"}
Ids == 1 .. MaxIds
KeyConf == [role: Roles, actions: SUBSET Targets, controllers: SUBSET Targets]
AuthConf == [keys: [Keys -> KeyConf],
             grants: [Roles -> SUBSET {"execute_actions", "approve_actions"}]]
Requests == [requester: Keys, role: Roles, target: Targets, dry: BOOLEAN]
Statuses == {"pending", "approved", "rejected"}
Decisions == [status: Statuses, result: {"none", "outcome", "error"},
              by: Keys \cup {NoKey}]
Blank == [status |-> "pending", result |-> "none", by |-> NoKey]
LockSteps == {"action", "controller", "claim"}
Steps == {"idle", "approve", "reject", "execute", "record", "save",
          "audit", "auditReject"} \cup LockSteps
Snapshots == [ids: SUBSET Ids, entry: [Ids -> Decisions]]

ASSUME BoundsAssumption ==
  /\ MaxIds \in Nat /\ MaxProcessed \in Nat /\ MaxRuns \in Nat \ {0}
ASSUME ConfigAssumption ==
  /\ NoKey \notin Keys
  /\ Configs \subseteq AuthConf
  /\ Cooled \subseteq Targets /\ Inert \subseteq Targets
  /\ Faults \subseteq FaultKinds

VARIABLES
  request,   \* the part of an entry that never changes, by id
  created,   \* ids handed out so far
  queue,     \* approval_queue: ids in memory
  entry,     \* the entry objects: status, result, approved_by.  An object
             \* pruned from the queue lives on in the thread that holds it
  disk,      \* logs/approvals.json
  thread,    \* what each handler thread is doing, for which id and caller
  cooling,   \* targets for which seconds_remaining is not None
  coolDisk,  \* the same, by the record in logs/cooldowns.json
  auth,      \* config/auth.yaml, re-read on every check
  audit,     \* audit log: pairs <<kind, id>>
  runs,      \* history: how often each approval's action was executed
  recent,    \* history: executions since their target's cooldown last lapsed
  seen       \* history: versions of config/auth.yaml since the thread that is
             \* re-checking the requester took the lock

vars == <<request, created, queue, entry, disk, thread, cooling, coolDisk,
          auth, audit, runs, recent, seen>>

Idle == [step |-> "idle", id |-> 0, key |-> NoKey]

Init ==
  /\ request = [i \in {} |-> i] /\ created = 0
  /\ queue = {} /\ entry = [i \in Ids |-> Blank]
  /\ disk = [ids |-> {}, entry |-> [i \in Ids |-> Blank]]
  /\ thread = [w \in Threads |-> Idle]
  /\ cooling = {} /\ coolDisk = {}
  /\ auth \in Configs
  /\ audit = {} /\ runs = [i \in Ids |-> 0] /\ recent = {} /\ seen = {}

-----------------------------------------------------------------------------
(* Permissions: src/auth.py.  A key the file does not name has no role and  *)
(* no restriction either.                                                  *)

HasPermission(role, permission) == permission \in auth.grants[role]
ActionAllowed(k, t) == t \in auth.keys[k].actions
ControllerAllowed(k, t) == t \in auth.keys[k].controllers

(* approval_lock is free: no thread is re-checking a requester.            *)
LockFree == \A w \in Threads : thread[w].step \notin LockSteps

(* Cooldown applies to a real run of an action that configures one.        *)
Guarded(i) == ~request[i].dry /\ request[i].target \in Cooled

(* Mutants: pending entries count as history; one entry too many is kept.  *)
ProcessedAll(q, e) == q
ExcessByOne(q, e) ==
  LET done == {i \in q : e[i].status # "pending"} IN
  {i \in done : Cardinality({j \in done : j > i}) > MaxProcessed}

(* Saving: the oldest processed entries beyond the cap are dropped, then    *)
(* the file is replaced; an OSError is only logged ("disk").               *)
Processed(q, e) == {i \in q : e[i].status # "pending"}
Excess(q, e) ==
  {i \in Processed(q, e) :
     Cardinality({j \in Processed(q, e) : j > i}) >= MaxProcessed}
Snapshot(q, e) ==
  [ids |-> q, entry |-> [i \in Ids |-> IF i \in q THEN e[i] ELSE Blank]]
Save(q, e) ==
  LET kept == q \ Excess(q, e) IN
  /\ queue' = kept
  /\ entry' = e
  /\ \/ disk' = Snapshot(kept, e)
     \/ "disk" \in Faults /\ disk' = disk

Decide(i, decision) == Save(queue, [entry EXCEPT ![i] = decision])
Goto(w, step) == thread' = [thread EXCEPT ![w].step = step]
Return(w) == thread' = [thread EXCEPT ![w] = Idle]

-----------------------------------------------------------------------------
(* POST /webhook with approval_required: queue the request.                *)
Submit(k, t, dry) ==
  /\ created < MaxIds
  /\ HasPermission(auth.keys[k].role, "execute_actions")
  /\ ActionAllowed(k, t) /\ ControllerAllowed(k, t)
  /\ LockFree
  /\ created' = created + 1
  /\ request' = [i \in 1 .. created + 1 |->
       IF i = created + 1
       THEN [requester |-> k, role |-> auth.keys[k].role, target |-> t, dry |-> dry]
       ELSE request[i]]
  /\ Save(queue \cup {created + 1}, entry)
  /\ UNCHANGED <<thread, cooling, coolDisk, auth, audit, runs, recent, seen>>

(* A caller whose role may decide approvals; checked before the lock.      *)
Open(w, k, i, verb) ==
  /\ thread[w] = Idle
  /\ HasPermission(auth.keys[k].role, "approve_actions")
  /\ thread' = [thread EXCEPT ![w] = [step |-> verb, id |-> i, key |-> k]]
  /\ UNCHANGED <<request, created, queue, entry, disk, cooling, coolDisk,
                 auth, audit, runs, recent, seen>>

(* Mutants: a decided entry may be decided again; a key may decide its own. *)
DecidableAgain(i, k) == i \in queue /\ request[i].requester # k
DecidableOwn(i, k) == i \in queue /\ entry[i].status = "pending"

(* The checks common to approve and reject: known, pending, someone else's. *)
Decidable(i, k) ==
  /\ i \in queue /\ entry[i].status = "pending" /\ request[i].requester # k

(* 404, 400 "Already ..." or 403 "your own request".                       *)
Refuse(w) ==
  /\ thread[w].step \in {"approve", "reject"} /\ LockFree
  /\ ~Decidable(thread[w].id, thread[w].key)
  /\ Return(w)
  /\ UNCHANGED <<request, created, queue, entry, disk, cooling, coolDisk,
                 auth, audit, runs, recent, seen>>

(* The re-check of the requester, still under the lock: the ROLE is the one *)
(* stored in the entry when it was queued, the scope is the key's as the   *)
(* file says now; each of the three reads the file again.                  *)
CheckRole(w) ==
  LET i == thread[w].id IN
  /\ thread[w].step = "approve" /\ LockFree /\ Decidable(i, thread[w].key)
  /\ HasPermission(request[i].role, "execute_actions")
  /\ Goto(w, "action") /\ seen' = {auth}
  /\ UNCHANGED <<request, created, queue, entry, disk, cooling, coolDisk,
                 auth, audit, runs, recent>>

CheckAction(w) ==
  LET i == thread[w].id IN
  /\ thread[w].step = "action"
  /\ ActionAllowed(request[i].requester, request[i].target)
  /\ Goto(w, "controller")
  /\ UNCHANGED <<request, created, queue, entry, disk, cooling, coolDisk,
                 auth, audit, runs, recent, seen>>

(* Mutant: the list of actions is looked at again instead.                 *)
CheckControllerAsAction(w) ==
  LET i == thread[w].id IN
  /\ thread[w].step = "controller"
  /\ ActionAllowed(request[i].requester, request[i].target)
  /\ Goto(w, "claim")
  /\ UNCHANGED <<request, created, queue, entry, disk, cooling, coolDisk,
                 auth, audit, runs, recent, seen>>

CheckController(w) ==
  LET i == thread[w].id IN
  /\ thread[w].step = "controller"
  /\ ControllerAllowed(request[i].requester, request[i].target)
  /\ Goto(w, "claim")
  /\ UNCHANGED <<request, created, queue, entry, disk, cooling, coolDisk,
                 auth, audit, runs, recent, seen>>

(* The requester lost the right to this action: rejected by the server.    *)
Revoke(w) ==
  LET i == thread[w].id IN
  /\ \/ /\ thread[w].step = "approve" /\ LockFree /\ Decidable(i, thread[w].key)
        /\ ~HasPermission(request[i].role, "execute_actions")
     \/ /\ thread[w].step = "action"
        /\ ~ActionAllowed(request[i].requester, request[i].target)
     \/ /\ thread[w].step = "controller"
        /\ ~ControllerAllowed(request[i].requester, request[i].target)
  /\ Decide(i, [entry[i] EXCEPT !.status = "rejected", !.result = "error"])
  /\ Return(w) /\ seen' = {}
  /\ UNCHANGED <<request, created, cooling, coolDisk, auth, audit, runs, recent>>

(* The action is gone from config/actions.yaml (get_action_config returns   *)
(* None), or a file cannot be parsed: the handler raises inside the lock,  *)
(* which is let go; a 500, and the entry stays pending.                    *)
CheckRaises(w) ==
  /\ "raise" \in Faults
  /\ \/ /\ thread[w].step = "approve" /\ LockFree
        /\ Decidable(thread[w].id, thread[w].key)
     \/ thread[w].step \in LockSteps
  /\ Return(w) /\ seen' = {}
  /\ UNCHANGED <<request, created, queue, entry, disk, cooling, coolDisk,
                 auth, audit, runs, recent>>

(* The target is cooling down: audited, and the entry stays pending.       *)
Block(w) ==
  LET i == thread[w].id IN
  /\ thread[w].step = "claim"
  /\ Guarded(i) /\ request[i].target \in cooling
  /\ \/ audit' = audit \cup {<<"blocked", i>>}
     \/ "audit" \in Faults /\ audit' = audit
  /\ Return(w) /\ seen' = {}
  /\ UNCHANGED <<request, created, queue, entry, disk, cooling, coolDisk,
                 auth, runs, recent>>

(* Mutant: the claim is not saved before the action is executed.           *)
ClaimUnsaved(w) ==
  LET i == thread[w].id IN
  /\ thread[w].step = "claim"
  /\ ~(Guarded(i) /\ request[i].target \in cooling)
  /\ entry' = [entry EXCEPT ![i].status = "approved", ![i].by = thread[w].key]
  /\ Goto(w, "execute") /\ seen' = {}
  /\ UNCHANGED <<request, created, queue, disk, cooling, coolDisk, auth,
                 audit, runs, recent>>

(* Claim the entry while still holding the lock.                           *)
Claim(w) ==
  LET i == thread[w].id IN
  /\ thread[w].step = "claim"
  /\ ~(Guarded(i) /\ request[i].target \in cooling)
  /\ Decide(i, [entry[i] EXCEPT !.status = "approved", !.by = thread[w].key])
  /\ Goto(w, "execute") /\ seen' = {}
  /\ UNCHANGED <<request, created, cooling, coolDisk, auth, audit, runs, recent>>

(* execute_action, outside the lock.  A result, success or failure, only   *)
(* decides what the entry will say; the attempt itself is what counts.     *)
Execute(w) ==
  LET i == thread[w].id IN
  /\ thread[w].step = "execute" /\ request[i].target \notin Inert
  /\ runs[i] < MaxRuns
  /\ runs' = [runs EXCEPT ![i] = @ + 1]
  /\ recent' = IF Guarded(i) THEN recent \cup {i} ELSE recent
  /\ Goto(w, IF Guarded(i) THEN "record" ELSE "save")
  /\ UNCHANGED <<request, created, queue, entry, disk, cooling, coolDisk,
                 auth, audit, seen>>

(* execute_action raises before it touches anything, as it does when the    *)
(* controller is gone from config/controllers.yaml: a 500.                 *)
ExecuteRaises(w) ==
  /\ "raise" \in Faults
  /\ thread[w].step = "execute"
  /\ Return(w)
  /\ UNCHANGED <<request, created, queue, entry, disk, cooling, coolDisk,
                 auth, audit, runs, recent, seen>>

(* Mutant: the approval goes back to pending instead of being withdrawn.   *)
NoExecutableReopens(w) ==
  LET i == thread[w].id IN
  /\ thread[w].step = "execute" /\ request[i].target \in Inert /\ LockFree
  /\ Decide(i, Blank)
  /\ Return(w)
  /\ UNCHANGED <<request, created, cooling, coolDisk, auth, audit, runs, recent, seen>>

(* execute_action returns None: nothing ran, the approval is withdrawn.    *)
NoExecutable(w) ==
  LET i == thread[w].id IN
  /\ thread[w].step = "execute" /\ request[i].target \in Inert /\ LockFree
  /\ Decide(i, [entry[i] EXCEPT !.status = "rejected", !.result = "error"])
  /\ Return(w)
  /\ UNCHANGED <<request, created, cooling, coolDisk, auth, audit, runs, recent, seen>>

(* Mutant: the execution does not start the target's cooldown.             *)
RecordNothing(w) ==
  /\ thread[w].step = "record"
  /\ Goto(w, "save")
  /\ UNCHANGED <<request, created, queue, entry, disk, cooling, coolDisk,
                 auth, audit, runs, recent, seen>>

(* cooldown_tracker.record.  If its file cannot be written the record left  *)
(* there, if any, is an older one, which may lapse before this one.        *)
Record(w) ==
  LET t == request[thread[w].id].target IN
  /\ thread[w].step = "record"
  /\ cooling' = cooling \cup {t}
  /\ \/ coolDisk' = cooling'
     \/ "disk" \in Faults /\ coolDisk' \in {coolDisk, coolDisk \ {t}}
  /\ Goto(w, "save")
  /\ UNCHANGED <<request, created, queue, entry, disk, auth, audit, runs, recent, seen>>

(* Mutants: the result is set but not saved; it is saved but never set;    *)
(* the handler ends without writing the audit entry.                       *)
SaveResultUnsaved(w) ==
  /\ thread[w].step = "save" /\ LockFree
  /\ entry' = [entry EXCEPT ![thread[w].id].result = "outcome"]
  /\ Goto(w, "audit")
  /\ UNCHANGED <<request, created, queue, disk, cooling, coolDisk, auth,
                 audit, runs, recent, seen>>
SaveResultUnset(w) ==
  /\ thread[w].step = "save" /\ LockFree
  /\ Save(queue, entry)
  /\ Goto(w, "audit")
  /\ UNCHANGED <<request, created, cooling, coolDisk, auth, audit, runs, recent, seen>>
SaveResultAndReturn(w) ==
  /\ thread[w].step = "save" /\ LockFree
  /\ Decide(thread[w].id, [entry[thread[w].id] EXCEPT !.result = "outcome"])
  /\ Return(w)
  /\ UNCHANGED <<request, created, cooling, coolDisk, auth, audit, runs, recent, seen>>

(* The result goes into the entry, pruned from the queue meanwhile or not. *)
SaveResult(w) ==
  LET i == thread[w].id IN
  /\ thread[w].step = "save" /\ LockFree
  /\ Decide(i, [entry[i] EXCEPT !.result = "outcome"])
  /\ Goto(w, "audit")
  /\ UNCHANGED <<request, created, cooling, coolDisk, auth, audit, runs, recent, seen>>

(* write_audit_log and the end of the handler; an OSError of the append    *)
(* ends it just the same ("audit").                                        *)
Audit(w) ==
  LET kind == IF thread[w].step = "audit" THEN "approved" ELSE "rejected" IN
  /\ thread[w].step \in {"audit", "auditReject"}
  /\ \/ audit' = audit \cup {<<kind, thread[w].id>>}
     \/ "audit" \in Faults /\ audit' = audit
  /\ Return(w)
  /\ UNCHANGED <<request, created, queue, entry, disk, cooling, coolDisk,
                 auth, runs, recent, seen>>

(* Mutant: approved_by gets the approver's role.                           *)
RejectSwapped(w) ==
  LET k == thread[w].key IN
  /\ thread[w].step = "reject" /\ LockFree /\ Decidable(thread[w].id, k)
  /\ Decide(thread[w].id,
       [status |-> "rejected", result |-> "error", by |-> auth.keys[k].role])
  /\ Goto(w, "auditReject")
  /\ UNCHANGED <<request, created, cooling, coolDisk, auth, audit, runs, recent, seen>>

(* The approver turns the request down; its audit entry follows.           *)
Reject(w) ==
  LET i == thread[w].id IN
  /\ thread[w].step = "reject" /\ LockFree /\ Decidable(i, thread[w].key)
  /\ Decide(i, [status |-> "rejected", result |-> "error", by |-> thread[w].key])
  /\ Goto(w, "auditReject")
  /\ UNCHANGED <<request, created, cooling, coolDisk, auth, audit, runs, recent, seen>>

-----------------------------------------------------------------------------
(* cooldown_seconds have passed since the target's last record.            *)
Elapse(t) ==
  /\ t \in cooling
  /\ cooling' = cooling \ {t} /\ coolDisk' = coolDisk \ {t}
  /\ recent' = {i \in recent : request[i].target # t}
  /\ UNCHANGED <<request, created, queue, entry, disk, thread, auth, audit, runs, seen>>

(* An operator edits config/auth.yaml: its keys or what its roles may do.   *)
Reconfigure(conf) ==
  /\ auth' = conf /\ conf # auth
  /\ seen' = IF LockFree THEN {} ELSE seen \cup {conf}
  /\ UNCHANGED <<request, created, queue, entry, disk, thread, cooling,
                 coolDisk, audit, runs, recent>>

(* The process dies, losing memory and threads, and starts again from disk. *)
Restart ==
  /\ "crash" \in Faults
  /\ queue' = disk.ids /\ entry' = disk.entry
  /\ thread' = [w \in Threads |-> Idle]
  /\ cooling' = coolDisk /\ seen' = {}
  /\ UNCHANGED <<request, created, disk, coolDisk, auth, audit, runs, recent>>

Handle(w) ==
  \/ Refuse(w) \/ CheckRole(w) \/ CheckAction(w) \/ CheckController(w)
  \/ Revoke(w) \/ CheckRaises(w) \/ Block(w) \/ Claim(w) \/ Execute(w)
  \/ ExecuteRaises(w) \/ NoExecutable(w) \/ Record(w) \/ SaveResult(w)
  \/ Audit(w) \/ Reject(w)

Next ==
  \/ \E k \in Keys, t \in Targets, dry \in BOOLEAN : Submit(k, t, dry)
  \/ \E w \in Threads, k \in Keys, i \in 1 .. created, v \in {"approve", "reject"} :
        Open(w, k, i, v)
  \/ \E w \in Threads : Handle(w)
  \/ \E t \in Targets : Elapse(t)
  \/ \E conf \in Configs : Reconfigure(conf)
  \/ Restart

Spec == Init /\ [][Next]_vars

(* A handler that has been called runs to its end: the pool schedules its   *)
(* thread, and executor calls return: subprocess and ssh carry timeout=600 *)
(* (a kube_action's API call has none, so for it this is an assumption).   *)
(* Fairness is strong because threading.Lock serves waiters in no order:   *)
(* it is assumed that a thread does not lose the race for it for ever.     *)
FairSpec == Spec /\ \A w \in Threads : SF_vars(Handle(w))
-----------------------------------------------------------------------------
Call == [step: Steps, id: 0 .. MaxIds, key: Keys \cup {NoKey}]
AuditRecords == {"approved", "rejected", "blocked"} \X Ids

(* Every variable has its type; a thread in a handler has an id that was    *)
(* handed out and a caller (main.py:190-211 and the handlers' locals).     *)
TypeOK ==
  /\ created \in 0 .. MaxIds
  /\ request \in [1 .. created -> Requests]
  /\ queue \subseteq 1 .. created
  /\ entry \in [Ids -> Decisions]
  /\ disk \in Snapshots /\ disk.ids \subseteq 1 .. created
  /\ thread \in [Threads -> Call]
  /\ \A w \in Threads : thread[w].step # "idle" =>
       thread[w].id \in 1 .. created /\ thread[w].key \in Keys
  /\ cooling \subseteq Targets /\ coolDisk \subseteq Targets
  /\ auth \in Configs /\ seen \subseteq Configs
  /\ audit \subseteq AuditRecords
  /\ runs \in [Ids -> 0 .. MaxRuns]
  /\ recent \subseteq 1 .. created

Working(w) == thread[w].step \in {"execute", "record", "save", "audit"}

(* Two handlers never carry out the same approval, whatever fails: the      *)
(* claim under the lock is what keeps a concurrent approve out             *)
(* (main.py:824-830).                                                      *)
SoleClaimant ==
  \A w, v \in Threads :
    Working(w) /\ Working(v) /\ thread[w].id = thread[v].id => w = v

(* An approval is executed at most once, over any number of crashes, as     *)
(* long as the queue's file can be written: the claim is on disk before    *)
(* execute_action is called (main.py:827-834).                             *)
AtMostOnce == \A i \in Ids : runs[i] <= 1

(* What was executed is on record, after any restart, as approved by a key  *)
(* other than the requester's, until it leaves the history                 *)
(* (main.py:771-775, 827-829).                                             *)
ExecutedWasApproved ==
  \A i \in queue : runs[i] > 0 =>
    /\ entry[i].status = "approved"
    /\ entry[i].by \notin {NoKey, request[i].requester}

(* Every handler that changes the queue saves it before it lets go of the   *)
(* lock, so a restart loads exactly what was in memory (main.py:187-189).  *)
DiskIsCurrent == disk = Snapshot(queue, entry)

(* An approval leaves the queue only after it was decided: neither pruning  *)
(* nor a restart drops a pending one (main.py:187-189, 194-197).           *)
PendingKept ==
  [][\A i \in queue : entry[i].status = "pending" =>
       i \in queue' \/ entry'[i].status # "pending"]_vars

(* A decision is final: nothing returns to pending, a rejection never       *)
(* changes and a decision keeps the key that took it (main.py:767-770).    *)
DecisionStands ==
  [][\A i \in queue \cap queue' : entry[i].status # "pending" =>
       /\ entry'[i].status # "pending"
       /\ entry[i].status = "rejected" => entry'[i] = entry[i]
       /\ entry[i].by # NoKey => entry'[i].by = entry[i].by]_vars

(* The processed part of the queue stays within its cap (main.py:231-243). *)
HistoryBounded == Cardinality(Processed(queue, entry)) <= MaxProcessed

(* The audit log never says both that an approval was rejected and that it  *)
(* ran, nor that it ran when it did not (main.py:850-865, 916-931).        *)
AuditTruthful ==
  \A i \in Ids :
    /\ <<"approved", i>> \in audit => runs[i] > 0
    /\ <<"rejected", i>> \in audit => runs[i] = 0

(* What was executed is in the audit log, or a handler is still on its way  *)
(* to write it there (README.md:33, main.py:834-865).                      *)
AccountedFor ==
  \A i \in Ids : runs[i] > 0 =>
    \/ <<"approved", i>> \in audit
    \/ \E w \in Threads : Working(w) /\ thread[w].id = i

(* A target is not remediated again before its cooldown has passed          *)
(* (cooldown.py:20-30).                                                    *)
OncePerWindow ==
  \A i, j \in recent : request[i].target = request[j].target => i = j

(* What the code keeps of it: approvals claimed before the first of them    *)
(* is recorded all run, and none after that, so without crashes a target   *)
(* is remediated in one window once per handler thread at most, and once   *)
(* if approvals are handled one at a time (main.py:805-823, 844-845).      *)
BurstBounded ==
  \A t \in Targets :
    Cardinality({i \in recent : request[i].target = t}) <= Cardinality(Threads)

Claims(i) == entry[i].status = "pending" /\ entry'[i].status = "approved"

(* An approval goes through only if the requester's key has, in a version   *)
(* of config/auth.yaml in force since the handler took the lock, a role    *)
(* that may execute actions (main.py:784-788).                             *)
RequesterStillPermitted ==
  [][\A i \in queue : Claims(i) =>
       \E c \in seen :
         "execute_actions" \in c.grants[c.keys[request[i].requester].role]]_vars

(* The half of it the code keeps: an edit of the requester's scope, or of   *)
(* what its stored role may do, is obeyed if it was saved before the       *)
(* approve handler took the lock, however long the entry was pending; one  *)
(* saved during the handler's three reads may be missed by some of them.   *)
(* A key that is gone has no scope to obey (main.py:789-794, auth.py:93).  *)
ReCheckIsCurrent ==
  [][\A i \in queue : Claims(i) =>
       LET k == request[i].requester  t == request[i].target IN
       /\ \E c \in seen : "execute_actions" \in c.grants[request[i].role]
       /\ \E c \in seen : t \in c.keys[k].actions
       /\ \E c \in seen : t \in c.keys[k].controllers]_vars

(* With no fault a claimed approval gets its result, or leaves the history  *)
(* meanwhile (main.py:834-848).                                            *)
ResultDelivered ==
  \A i \in Ids :
    (i \in queue /\ entry[i].status = "approved")
      ~> (i \notin queue \/ entry[i].result # "none")

(* With no fault every execution reaches the audit log (README.md:33).     *)
EventuallyAudited ==
  \A i \in Ids : (runs[i] > 0) ~> (<<"approved", i>> \in audit)

-----------------------------------------------------------------------------
(* What the queue promises: see ApprovalWorkflow.                          *)
Stage == [i \in Ids |-> IF i > created THEN "new"
                        ELSE IF i \in queue THEN entry[i].status
                        ELSE "forgotten"]
Ticket == {thread[w].id : w \in {v \in Threads : thread[v].step = "execute"}}

Workflow == INSTANCE ApprovalWorkflow WITH stage <- Stage, ticket <- Ticket

(* The queue implements the workflow of one ticket per approval, over       *)
(* crashes, as long as its file can be written (main.py:752-932).          *)
ImplementsWorkflow == Workflow!Spec
=============================================================================
