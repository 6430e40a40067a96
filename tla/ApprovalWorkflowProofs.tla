------------------------ MODULE ApprovalWorkflowProofs ------------------------
(* The history of the approval queue and its audit trail for every number   *)
(* of threads, keys and approvals; and the queue implements                *)
(* ApprovalWorkflow.                                                       *)
EXTENDS ApprovalsProofs, FiniteSetTheorems, WellFoundedInduction

LEMMA LeastElement ==
  ASSUME NEW S \in SUBSET Nat, S # {}
  PROVE  \E m \in S : \A n \in S : m <= n
<1>1. PICK m \in S : \A n \in S : <<n, m>> \notin OpToRel(<, Nat)
  BY NatLessThanWellFounded, WFMin
<1>2. \A n \in S : ~(n < m)
  BY <1>1 DEF OpToRel
<1> QED BY <1>2

LEMMA IdsAreFinite ==
  ASSUME NEW S \in SUBSET Ids
  PROVE  IsFiniteSet(S) /\ Cardinality(S) \in Nat
<1>1. IsFiniteSet(Ids)
  BY BoundsAssumption, FS_Interval DEF Ids
<1> QED BY <1>1, FS_Subset, FS_CardinalityType

-----------------------------------------------------------------------------
(* Which entries are too many depends on the statuses in the queue only.    *)
LEMMA ExcessByStatus ==
  ASSUME NEW q, NEW e, NEW f,
         \A i \in q : e[i].status # "pending" <=> f[i].status # "pending"
  PROVE  Excess(q, e) = Excess(q, f)
<1>1. Processed(q, e) = Processed(q, f)
  BY DEF Processed
<1> QED BY <1>1 DEF Excess

(* Once the excess is dropped, none is left.                                *)
LEMMA DroppingSuffices ==
  ASSUME NEW STATE q, q \subseteq Ids, NEW STATE e
  PROVE  Excess(q \ Excess(q, e), e) = {}
<1> DEFINE kept == q \ Excess(q, e)
<1> SUFFICES ASSUME NEW i \in Processed(kept, e),
                    Cardinality({j \in Processed(kept, e) : j > i}) >= MaxProcessed
             PROVE  FALSE
  BY DEF Excess
<1>1. i \in Processed(q, e) /\ i \notin Excess(q, e)
  BY DEF Processed
<1>2. {j \in Processed(kept, e) : j > i} \subseteq {j \in Processed(q, e) : j > i}
  BY DEF Processed
<1>3. {j \in Processed(q, e) : j > i} \subseteq Ids
  BY DEF Processed
<1>4. Cardinality({j \in Processed(kept, e) : j > i})
        <= Cardinality({j \in Processed(q, e) : j > i})
  BY <1>2, <1>3, IdsAreFinite, FS_Subset
<1>5. ~(Cardinality({j \in Processed(q, e) : j > i}) >= MaxProcessed)
  BY <1>1 DEF Excess
<1>6. /\ Cardinality({j \in Processed(kept, e) : j > i}) \in Nat
      /\ Cardinality({j \in Processed(q, e) : j > i}) \in Nat
  BY <1>2, <1>3, IdsAreFinite
<1> QED BY <1>4, <1>5, <1>6, BoundsAssumption

(* A queue without excess holds at most MaxProcessed processed entries:     *)
(* all of them but the oldest are newer than it.                           *)
LEMMA NoExcessBounds ==
  ASSUME NEW STATE q, q \subseteq Ids, NEW STATE e, Excess(q, e) = {}
  PROVE  Cardinality(Processed(q, e)) <= MaxProcessed
<1> DEFINE P == Processed(q, e)
<1>1. P \subseteq Ids /\ P \subseteq Nat
  BY DEF Processed, Ids
<1>2. CASE P = {}
  BY <1>2, FS_EmptySet, BoundsAssumption
<1>3. CASE P # {}
  <2>1. PICK m \in P : \A n \in P : m <= n
    BY <1>1, <1>3, LeastElement
  <2>2. {j \in P : j > m} = P \ {m}
    BY <1>1, <2>1
  <2>3. IsFiniteSet(P) /\ Cardinality(P) \in Nat
    BY <1>1, IdsAreFinite
  <2>4. Cardinality(P \ {m}) = Cardinality(P) - 1
    BY <2>1, <2>3, FS_RemoveElement
  <2>5. ~(Cardinality(P \ {m}) >= MaxProcessed)
    BY <2>1, <2>2 DEF Excess
  <2> QED BY <2>3, <2>4, <2>5, BoundsAssumption
<1> QED BY <1>2, <1>3

(* Neither the queue in memory nor the one on disk has an excess: what a    *)
(* restart loads is as short as what it lost.                              *)
Trimmed == Excess(queue, entry) = {} /\ Excess(disk.ids, disk.entry) = {}

LEMMA SaveTrims ==
  ASSUME NEW STATE q, NEW STATE e, q \subseteq Ids, Trimmed, Save(q, e)
  PROVE  Trimmed'
<1>1. queue' = q \ Excess(q, e) /\ entry' = e
      /\ (disk' = Snapshot(queue', e) \/ disk' = disk)
  BY DEF Save
<1>2. Excess(queue', entry') = {}
  BY <1>1, DroppingSuffices
<1>3. CASE disk' = Snapshot(queue', e)
  <2>1. disk'.ids = queue' /\ queue' \subseteq Ids
    BY <1>1, <1>3 DEF Snapshot
  <2>2. \A i \in queue' : disk'.entry[i] = e[i]
    BY <1>3, <2>1 DEF Snapshot
  <2>3. Processed(disk'.ids, disk'.entry) = Processed(queue', e)
    BY <2>1, <2>2 DEF Processed
  <2>4. Excess(disk'.ids, disk'.entry) = Excess(queue', e)
    BY <2>3 DEF Excess
  <2> QED BY <1>1, <1>2, <2>4 DEF Trimmed
<1>4. CASE disk' = disk
  BY <1>2, <1>4 DEF Trimmed
<1> QED BY <1>1, <1>3, <1>4

LEMMA StepTrimmed == TypeOK /\ Trimmed /\ [Next]_vars => Trimmed'
<1> SUFFICES ASSUME TypeOK, Trimmed, [Next]_vars PROVE Trimmed'
  OBVIOUS
<1>0. queue \subseteq Ids
  BY CreatedIds DEF TypeOK
<1>1. ASSUME NEW STATE i, NEW STATE d, Decide(i, d) PROVE Trimmed'
  BY <1>0, <1>1, SaveTrims DEF Decide
<1>2. CASE UNCHANGED <<queue, entry, disk>>
  BY <1>2 DEF Trimmed
<1>3. ASSUME NEW k \in Keys, NEW t \in Targets, NEW dry \in BOOLEAN, Submit(k, t, dry)
      PROVE  Trimmed'
  <2>1. created + 1 \in Ids
    BY <1>3, BoundsAssumption DEF Submit, TypeOK, Ids
  <2> QED BY <1>0, <1>3, <2>1, SaveTrims DEF Submit
<1>4. ASSUME NEW w \in Threads, Handle(w) PROVE Trimmed'
  <2>1. CASE Refuse(w) \/ Block(w) \/ Execute(w) \/ ExecuteRaises(w) \/ Record(w) \/ Audit(w)
    BY <1>2, <2>1 DEF Refuse, Block, Execute, ExecuteRaises, Record, Audit
  <2>2. CASE Revoke(w) \/ Claim(w) \/ NoExecutable(w) \/ SaveResult(w) \/ Reject(w)
    BY <1>1, <2>2 DEF Revoke, Claim, NoExecutable, SaveResult, Reject
  <2>3. CASE Checking(w)
    BY <1>2, <2>3, CheckingDoes
  <2> QED BY <1>4, <2>1, <2>2, <2>3 DEF Handle, Checking
<1>5. CASE Restart
  BY <1>5 DEF Restart, Trimmed
<1> QED BY <1>2, <1>3, <1>4, <1>5 DEF Next, Open, Elapse, Reconfigure, vars

LEMMA TrimmedInvariant == Spec => []Trimmed
<1>1. Init => Trimmed
  BY DEF Init, Trimmed, Excess, Processed
<1> QED BY <1>1, StepTrimmed, TypeCorrect, PTL DEF Spec

(* The processed part of the queue never outgrows its cap, under every      *)
(* fault (main.py:231-243).                                                *)
THEOREM HistoryStaysBounded == Spec => []HistoryBounded
<1>1. TypeOK /\ Trimmed => HistoryBounded
  BY CreatedIds, NoExcessBounds DEF TypeOK, Trimmed, HistoryBounded
<1> QED BY <1>1, TypeCorrect, TrimmedInvariant, PTL

-----------------------------------------------------------------------------
(* The life of a queued entry: it stays as it is; it is decided; or it was  *)
(* approved, and its outcome is filled in, which leaves the approver's     *)
(* name alone.                                                             *)
Transition(i) ==
  \/ entry'[i] = entry[i]
  \/ /\ entry[i].status = "pending" /\ entry'[i].status # "pending"
  \/ /\ entry[i].status = "approved" /\ entry'[i].status # "pending"
     /\ entry'[i].by = entry[i].by

(* What a step may do to the queue's entries.                               *)
QueueMoves ==
  /\ \A i \in queue : Transition(i)
  /\ \A i \in queue \ queue' : entry'[i].status # "pending"

LEMMA DecideMoves ==
  ASSUME TypeOK, NEW STATE i, NEW STATE d, i \in Ids, Decide(i, d),
         entry'[i] = d => Transition(i)
  PROVE  QueueMoves
<1>1. entry' = [entry EXCEPT ![i] = d] /\ \A j \in queue \ queue' : entry'[j].status # "pending"
  BY SaveFacts DEF Decide
<1>2. entry'[i] = d /\ \A j \in Ids \ {i} : entry'[j] = entry[j]
  BY <1>1 DEF TypeOK
<1>3. queue \subseteq Ids
  BY CreatedIds DEF TypeOK
<1> QED BY <1>1, <1>2, <1>3 DEF QueueMoves, Transition

LEMMA StepMoves ==
  ASSUME "disk" \notin Faults, RunInv, [Next]_vars
  PROVE  QueueMoves
<1>0. TypeOK /\ DiskIsCurrent /\ Claimed /\ LockInv
  BY DEF RunInv, ClaimInv
<1>1. ASSUME entry' = entry, \A i \in queue \ queue' : entry[i].status # "pending"
      PROVE  QueueMoves
  BY <1>1 DEF QueueMoves, Transition
<1>2. ASSUME NEW k \in Keys, NEW t \in Targets, NEW dry \in BOOLEAN, Submit(k, t, dry)
      PROVE  QueueMoves
  BY <1>1, <1>2, SaveFacts DEF Submit
<1>3. ASSUME NEW w \in Threads, Handle(w) PROVE QueueMoves
  <2> DEFINE i == thread[w].id
  <2>0. thread[w].step # "idle"
    BY <1>3, HandlerBusy
  <2>a. i \in Ids /\ entry[i] \in Decisions
    BY <1>0, <2>0, CallType
  <2>1. CASE Refuse(w) \/ Block(w) \/ Execute(w) \/ ExecuteRaises(w) \/ Record(w) \/ Audit(w)
    BY <1>1, <2>1 DEF Refuse, Block, Execute, ExecuteRaises, Record, Audit
  <2>2. CASE Revoke(w)
    <3> DEFINE d == [entry[i] EXCEPT !.status = "rejected", !.result = "error"]
    <3>1. d.status = "rejected" /\ entry[i].status = "pending" /\ Decide(i, d)
      BY <1>0, <2>a, <2>2, Rechecked DEF Revoke, Decidable, Decisions
    <3>2. entry'[i] = d => Transition(i)
      BY <3>1 DEF Transition
    <3> QED BY <1>0, <2>a, <3>1, <3>2, DecideMoves
  <2>3. CASE Claim(w)
    <3> DEFINE d == [entry[i] EXCEPT !.status = "approved", !.by = thread[w].key]
    <3>1. d.status = "approved" /\ entry[i].status = "pending" /\ Decide(i, d)
      BY <1>0, <2>a, <2>3, Rechecked DEF Claim, Decidable, Decisions
    <3>2. entry'[i] = d => Transition(i)
      BY <3>1 DEF Transition
    <3> QED BY <1>0, <2>a, <3>1, <3>2, DecideMoves
  <2>4. CASE NoExecutable(w)
    <3> DEFINE d == [entry[i] EXCEPT !.status = "rejected", !.result = "error"]
    <3>1. d.status = "rejected" /\ d.by = entry[i].by /\ Decide(i, d)
      BY <2>a, <2>4 DEF NoExecutable, Decisions
    <3>2. entry[i].status = "approved"
      BY <1>0, <2>4 DEF NoExecutable, Claimed, Working
    <3>3. entry'[i] = d => Transition(i)
      BY <3>1, <3>2 DEF Transition
    <3> QED BY <1>0, <2>a, <3>1, <3>3, DecideMoves
  <2>5. CASE SaveResult(w)
    <3> DEFINE d == [entry[i] EXCEPT !.result = "outcome"]
    <3>1. entry[i].status = "approved"
      BY <1>0, <2>5 DEF SaveResult, Claimed, Working
    <3>2. d.status = "approved" /\ d.by = entry[i].by /\ Decide(i, d)
      BY <2>a, <2>5, <3>1 DEF SaveResult, Decisions
    <3>3. entry'[i] = d => Transition(i)
      BY <3>1, <3>2 DEF Transition
    <3> QED BY <1>0, <2>a, <3>2, <3>3, DecideMoves
  <2>6. CASE Reject(w)
    <3> DEFINE d == [status |-> "rejected", result |-> "error", by |-> thread[w].key]
    <3>1. d.status = "rejected" /\ entry[i].status = "pending" /\ Decide(i, d)
      BY <2>6 DEF Reject, Decidable
    <3>2. entry'[i] = d => Transition(i)
      BY <3>1 DEF Transition
    <3> QED BY <1>0, <2>a, <3>1, <3>2, DecideMoves
  <2>7. CASE Checking(w)
    BY <1>1, <2>7, CheckingDoes
  <2> QED BY <1>3, <2>1, <2>2, <2>3, <2>4, <2>5, <2>6, <2>7 DEF Handle, Checking
<1>4. CASE Restart
  <2>1. queue' = queue /\ \A i \in queue : entry'[i] = entry[i]
    <3>1. queue \subseteq Ids
      BY <1>0, CreatedIds DEF TypeOK
    <3> QED BY <1>0, <1>4, <3>1 DEF Restart, DiskIsCurrent, Snapshot
  <2> QED BY <2>1 DEF QueueMoves, Transition
<1> QED BY <1>1, <1>2, <1>3, <1>4 DEF Next, Open, Elapse, Reconfigure, vars

(* A decision is final, over any number of crashes, if every write of the   *)
(* queue's file succeeds (main.py:767-770).                                *)
THEOREM DecisionsStand == ASSUME "disk" \notin Faults PROVE Spec => DecisionStands
<1> DEFINE Final == \A i \in queue \cap queue' : entry[i].status # "pending" =>
                      /\ entry'[i].status # "pending"
                      /\ entry[i].status = "rejected" => entry'[i] = entry[i]
                      /\ entry[i].by # NoKey => entry'[i].by = entry[i].by
<1>1. RunInv /\ [Next]_vars => [Final]_vars
  BY StepMoves DEF QueueMoves, Transition
<1> QED BY <1>1, RunInvariant, PTL DEF Spec, DecisionStands

(* Neither pruning nor a restart drops a pending request, on the same       *)
(* condition (main.py:187-189, 194-197).                                   *)
THEOREM PendingIsKept == ASSUME "disk" \notin Faults PROVE Spec => PendingKept
<1> DEFINE Stays == \A i \in queue : entry[i].status = "pending" =>
                      i \in queue' \/ entry'[i].status # "pending"
<1>1. RunInv /\ [Next]_vars => [Stays]_vars
  BY StepMoves DEF QueueMoves
<1> QED BY <1>1, RunInvariant, PTL DEF Spec, PendingKept

(* What is on disk is never ahead of memory: an entry decided there was     *)
(* decided.  So a restart decides nothing.                                 *)
DiskBehind == \A i \in Ids : disk.entry[i].status # "pending" => entry[i].status # "pending"

(* Whatever fails, only the claim of a handler approves a request, and no   *)
(* decision turns pending.                                                 *)
LEMMA OnlyClaimsApprove ==
  ASSUME ClaimInv, DiskBehind, [Next]_vars
  PROVE  /\ DiskBehind'
         /\ \A i \in queue : Claims(i) => \E w \in Threads : Claim(w) /\ thread[w].id = i
<1> DEFINE Approved == \A i \in queue : Claims(i) => \E w \in Threads : Claim(w) /\ thread[w].id = i
<1>0. TypeOK /\ Claimed /\ LockInv /\ queue \subseteq Ids
  BY CreatedIds DEF ClaimInv, TypeOK
<1>1. ASSUME UNCHANGED <<entry, disk>> PROVE DiskBehind' /\ Approved
  BY <1>1 DEF DiskBehind, Claims
<1>2. ASSUME NEW STATE q, NEW STATE e, q \subseteq Ids, Save(q, e),
             \A i \in Ids : entry[i].status # "pending" => e[i].status # "pending"
      PROVE  DiskBehind'
  <2>1. queue' \subseteq Ids /\ entry' = e
        /\ (disk' = Snapshot(queue', e) \/ disk' = disk)
    BY <1>2, SaveFacts
  <2>2. CASE disk' = Snapshot(queue', e)
    BY <1>2, <2>1, <2>2 DEF DiskBehind, Snapshot, Blank
  <2>3. CASE disk' = disk
    BY <1>0, <1>2, <2>1, <2>3 DEF DiskBehind
  <2> QED BY <2>1, <2>2, <2>3
<1>3. ASSUME NEW k \in Keys, NEW t \in Targets, NEW dry \in BOOLEAN, Submit(k, t, dry)
      PROVE  DiskBehind' /\ Approved
  <2>1. created + 1 \in Ids
    BY <1>0, <1>3, BoundsAssumption DEF Submit, TypeOK, Ids
  <2>2. Save(queue \cup {created + 1}, entry) /\ entry' = entry
    BY <1>3 DEF Submit, Save
  <2> QED BY <1>0, <1>2, <2>1, <2>2 DEF Claims
<1>4. ASSUME NEW w \in Threads, Handle(w) PROVE DiskBehind' /\ Approved
  <2> DEFINE i == thread[w].id
  <2>0. i \in Ids /\ entry[i] \in Decisions
    BY <1>0, <1>4, HandlerBusy, CallType
  <2>1. ASSUME NEW STATE d, Decide(i, d), d.status # "pending",
               d.status = "approved" => Claim(w) \/ entry[i].status = "approved"
        PROVE  DiskBehind' /\ Approved
    <3>1. entry' = [entry EXCEPT ![i] = d] /\ Save(queue, [entry EXCEPT ![i] = d])
      BY <2>1, SaveFacts DEF Decide
    <3>2. \A j \in Ids : entry'[j] = IF j = i THEN d ELSE entry[j]
      BY <1>0, <3>1 DEF TypeOK
    <3>a. \A j \in Ids : entry[j].status # "pending" =>
            [entry EXCEPT ![i] = d][j].status # "pending"
      BY <2>1, <3>1, <3>2
    <3>3. DiskBehind'
      BY <1>0, <1>2, <3>1, <3>a
    <3> QED BY <1>0, <2>1, <3>2, <3>3 DEF Claims
  <2>2. CASE Revoke(w) \/ NoExecutable(w)
    <3> DEFINE d == [entry[i] EXCEPT !.status = "rejected", !.result = "error"]
    <3>1. Decide(i, d) /\ d.status = "rejected"
      BY <2>0, <2>2 DEF Revoke, NoExecutable, Decisions
    <3> QED BY <2>1, <3>1
  <2>3. CASE Reject(w)
    <3> DEFINE d == [status |-> "rejected", result |-> "error", by |-> thread[w].key]
    <3>1. Decide(i, d) /\ d.status = "rejected"
      BY <2>3 DEF Reject
    <3> QED BY <2>1, <3>1
  <2>4. CASE Claim(w)
    <3> DEFINE d == [entry[i] EXCEPT !.status = "approved", !.by = thread[w].key]
    <3>1. Decide(i, d) /\ d.status = "approved"
      BY <2>0, <2>4 DEF Claim, Decisions
    <3> QED BY <2>1, <2>4, <3>1
  <2>5. CASE SaveResult(w)
    <3> DEFINE d == [entry[i] EXCEPT !.result = "outcome"]
    <3>1. Decide(i, d) /\ d.status = "approved" /\ entry[i].status = "approved"
      BY <1>0, <2>0, <2>5 DEF SaveResult, Decisions, Claimed, Working
    <3> QED BY <2>1, <3>1
  <2>6. CASE Refuse(w) \/ Block(w) \/ Execute(w) \/ ExecuteRaises(w) \/ Record(w) \/ Audit(w)
    BY <1>1, <2>6 DEF Refuse, Block, Execute, ExecuteRaises, Record, Audit
  <2>7. CASE Checking(w)
    BY <1>1, <2>7, CheckingDoes
  <2> QED BY <1>4, <2>2, <2>3, <2>4, <2>5, <2>6, <2>7 DEF Handle, Checking
<1>5. CASE Restart
  <2>1. disk \in Snapshots /\ entry' = disk.entry /\ disk' = disk
    BY <1>0, <1>5 DEF Restart, TypeOK
  <2>2. DiskBehind'
    BY <2>1 DEF DiskBehind
  <2> QED BY <1>0, <2>1, <2>2 DEF Claims, DiskBehind
<1> QED BY <1>1, <1>3, <1>4, <1>5 DEF Next, Open, Elapse, Reconfigure, vars

(* What the thread that holds the lock has read, and from which versions of *)
(* the file: each check it passed was passed in one it has seen.           *)
Gates(w) ==
  LET i == thread[w].id  k == request[i].requester  t == request[i].target IN
  /\ auth \in seen
  /\ \E c \in seen : "execute_actions" \in c.grants[request[i].role]
  /\ thread[w].step \in {"controller", "claim"} => \E c \in seen : t \in c.keys[k].actions
  /\ thread[w].step = "claim" => \E c \in seen : t \in c.keys[k].controllers
GatesPassed == \A w \in Threads : Locked(w) => Gates(w)

LEMMA StepGates == ClaimInv /\ GatesPassed /\ [Next]_vars => GatesPassed'
<1> SUFFICES ASSUME ClaimInv, GatesPassed, [Next]_vars PROVE GatesPassed'
  OBVIOUS
<1>0. TypeOK /\ LockInv
  BY DEF ClaimInv
<1>1. ASSUME UNCHANGED <<request, auth, seen>>,
             \A v \in Threads : Locked(v)' => thread'[v] = thread[v]
      PROVE  GatesPassed'
  BY <1>1 DEF GatesPassed, Gates, Locked
<1>2. ASSUME NEW w \in Threads, LockFree \/ Locked(w), ~Locked(w)',
             \A v \in Threads \ {w} : thread'[v] = thread[v]
      PROVE  GatesPassed'
  BY <1>0, <1>2 DEF GatesPassed, LockInv, LockFree, Locked
<1>3. ASSUME NEW k \in Keys, NEW t \in Targets, NEW dry \in BOOLEAN, Submit(k, t, dry)
      PROVE  GatesPassed'
  BY <1>3 DEF Submit, LockFree, GatesPassed, Locked
<1>4. ASSUME NEW w \in Threads, NEW k \in Keys, NEW i \in 1 .. created,
             NEW v \in {"approve", "reject"}, Open(w, k, i, v)
      PROVE  GatesPassed'
  <2>1. \A u \in Threads : Locked(u)' => thread'[u] = thread[u]
    BY <1>4, <1>0 DEF Open, TypeOK, Locked, LockSteps
  <2> QED BY <1>1, <1>4, <2>1 DEF Open
<1>5. ASSUME NEW w \in Threads, Handle(w) PROVE GatesPassed'
  <2> DEFINE i == thread[w].id
  <2>b. Return(w) => /\ \A v \in Threads \ {w} : thread'[v] = thread[v]
                     /\ ~Locked(w)'
    BY <1>0, OneThreadMoves DEF Locked, LockSteps, Idle
  <2>c. \A s \in Steps : Goto(w, s) =>
          /\ \A v \in Threads \ {w} : thread'[v] = thread[v]
          /\ thread'[w].step = s /\ thread'[w].id = i
    BY <1>0, OneThreadMoves
  <2>d. \A s \in {"execute", "record", "save", "audit", "auditReject"} :
          s \in Steps /\ s \notin LockSteps
    BY DEF Steps, LockSteps
  <2>1. CASE Refuse(w) \/ ExecuteRaises(w) \/ Audit(w) \/ NoExecutable(w)
             \/ Execute(w) \/ Record(w) \/ SaveResult(w) \/ Reject(w)
    <3>1. UNCHANGED <<request, auth, seen>>
      BY <2>1 DEF Refuse, ExecuteRaises, Audit, NoExecutable, Execute, Record, SaveResult, Reject
    <3>2. Return(w) \/ \E s \in {"record", "save", "audit", "auditReject"} : Goto(w, s)
      BY <2>1 DEF Refuse, ExecuteRaises, Audit, NoExecutable, Execute, Record, SaveResult, Reject
    <3>3. ~Locked(w)' /\ \A v \in Threads \ {w} : thread'[v] = thread[v]
      BY <2>b, <2>c, <2>d, <3>2 DEF Locked
    <3> QED BY <1>1, <3>1, <3>3
  <2>2. CASE Revoke(w) \/ Block(w) \/ Claim(w) \/ CheckRaises(w)
    <3>1. LockFree \/ Locked(w)
      BY <2>2 DEF Revoke, Block, Claim, CheckRaises, Locked, LockSteps
    <3>2. Return(w) \/ Goto(w, "execute")
      BY <2>2 DEF Revoke, Block, Claim, CheckRaises
    <3>3. ~Locked(w)' /\ \A v \in Threads \ {w} : thread'[v] = thread[v]
      BY <2>b, <2>c, <2>d, <3>2 DEF Locked
    <3> QED BY <1>2, <3>1, <3>3
  <2>3. ASSUME ~Locked(w) => LockFree,
               \E s \in LockSteps : Goto(w, s)
        PROVE  \A v \in Threads : Locked(v)' => v = w
    <3>1. \A v \in Threads \ {w} : thread'[v] = thread[v] /\ ~Locked(v)
      BY <1>0, <2>3, <2>c DEF Steps, LockInv, LockFree, Locked
    <3> QED BY <3>1 DEF Locked
  <2>4. ASSUME Gates(w)', \A v \in Threads : Locked(v)' => v = w PROVE GatesPassed'
    BY <2>4 DEF GatesPassed
  <2>5. CASE CheckRole(w)
    <3>1. thread'[w].step = "action" /\ thread'[w].id = i
      BY <2>5, <2>c DEF CheckRole, Steps, LockSteps
    <3>2. seen' = {auth} /\ UNCHANGED <<auth, request>>
          /\ "execute_actions" \in auth.grants[request[i].role]
      BY <2>5 DEF CheckRole, HasPermission
    <3>3. Gates(w)'
      BY <3>1, <3>2 DEF Gates
    <3> QED BY <2>3, <2>4, <2>5, <3>3 DEF CheckRole, LockSteps
  <2>6. CASE CheckAction(w) \/ CheckController(w)
    <3>1. Locked(w) /\ Gates(w) /\ \E s \in LockSteps : Goto(w, s)
      BY <2>6 DEF CheckAction, CheckController, GatesPassed, Locked, LockSteps
    <3>2. UNCHANGED <<auth, request, seen>> /\ thread'[w].id = i
      BY <2>6, <2>c, <3>1 DEF CheckAction, CheckController, Steps
    <3>3. CASE CheckAction(w)
      <4>1. thread'[w].step = "controller"
            /\ request[i].target \in auth.keys[request[i].requester].actions
        BY <2>c, <3>3 DEF CheckAction, ActionAllowed, Steps, LockSteps
      <4>2. Gates(w)'
        BY <3>1, <3>2, <4>1 DEF Gates
      <4> QED BY <2>3, <2>4, <3>1, <4>2
    <3>4. CASE CheckController(w)
      <4>1. thread[w].step = "controller" /\ thread'[w].step = "claim"
            /\ request[i].target \in auth.keys[request[i].requester].controllers
        BY <2>c, <3>4 DEF CheckController, ControllerAllowed, Steps, LockSteps
      <4>2. Gates(w)'
        BY <3>1, <3>2, <4>1 DEF Gates
      <4> QED BY <2>3, <2>4, <3>1, <4>2
    <3> QED BY <2>6, <3>3, <3>4
  <2> QED BY <1>5, <2>1, <2>2, <2>5, <2>6 DEF Handle
<1>6. ASSUME NEW conf \in Configs, Reconfigure(conf) PROVE GatesPassed'
  <2>1. CASE LockFree
    BY <1>6, <2>1 DEF Reconfigure, LockFree, GatesPassed, Locked
  <2>2. CASE ~LockFree
    <3>1. /\ UNCHANGED <<thread, request>> /\ seen \subseteq seen' /\ auth' \in seen'
      BY <1>6, <2>2 DEF Reconfigure
    <3> QED BY <3>1 DEF GatesPassed, Gates, Locked
  <2> QED BY <2>1, <2>2
<1>7. CASE Restart
  BY <1>7 DEF Restart, GatesPassed, Locked, LockSteps, Idle
<1>8. ASSUME NEW t \in Targets, Elapse(t) PROVE GatesPassed'
  BY <1>1, <1>8 DEF Elapse
<1>9. CASE UNCHANGED vars
  BY <1>1, <1>9 DEF vars
<1> QED BY <1>3, <1>4, <1>5, <1>6, <1>7, <1>8, <1>9 DEF Next

LEMMA RecheckInvariant == Spec => [](DiskBehind /\ GatesPassed)
<1>1. Init => DiskBehind /\ GatesPassed
  BY DEF Init, DiskBehind, Blank, GatesPassed, Locked, LockSteps, Idle
<1>2. ClaimInv /\ DiskBehind /\ GatesPassed /\ [Next]_vars => DiskBehind' /\ GatesPassed'
  BY OnlyClaimsApprove, StepGates
<1> QED BY <1>1, <1>2, ClaimInvariant, PTL DEF Spec

(* What is approved passed each of the three checks in a version of         *)
(* config/auth.yaml that was in force after the handler took the lock,     *)
(* under every fault and any edits of the file (main.py:789-794).          *)
THEOREM ReCheckObeysEdits == Spec => ReCheckIsCurrent
<1> DEFINE Covered == \A i \in queue : Claims(i) =>
              LET k == request[i].requester  t == request[i].target IN
              /\ \E c \in seen : "execute_actions" \in c.grants[request[i].role]
              /\ \E c \in seen : t \in c.keys[k].actions
              /\ \E c \in seen : t \in c.keys[k].controllers
<1>1. ClaimInv /\ DiskBehind /\ GatesPassed /\ [Next]_vars => Covered
  <2> SUFFICES ASSUME ClaimInv, DiskBehind, GatesPassed, [Next]_vars,
                      NEW i \in queue, Claims(i)
               PROVE  LET k == request[i].requester  t == request[i].target IN
                      /\ \E c \in seen : "execute_actions" \in c.grants[request[i].role]
                      /\ \E c \in seen : t \in c.keys[k].actions
                      /\ \E c \in seen : t \in c.keys[k].controllers
    OBVIOUS
  <2>1. PICK w \in Threads : Claim(w) /\ thread[w].id = i
    BY OnlyClaimsApprove
  <2>2. Gates(w) /\ thread[w].step = "claim"
    BY <2>1 DEF Claim, GatesPassed, Locked, LockSteps
  <2> QED BY <2>1, <2>2 DEF Gates
<1>2. ClaimInv /\ DiskBehind /\ GatesPassed /\ [Next]_vars => [Covered]_vars
  BY <1>1
<1> QED BY <1>2, ClaimInvariant, RecheckInvariant, PTL DEF Spec, ReCheckIsCurrent

-----------------------------------------------------------------------------
(* Where a step leaves a thread: where it was, at the start of a handler,   *)
(* one step further on with the same id, or free.                          *)
Enter(w) == thread[w] = Idle /\ thread'[w].step \in {"approve", "reject"}
Leave(w) ==
  /\ thread'[w] = Idle
  /\ \/ Restart \/ Refuse(w) \/ Revoke(w) \/ Block(w) \/ ExecuteRaises(w)
     \/ NoExecutable(w) \/ Audit(w) \/ Checking(w)
Advance(w) ==
  /\ thread'[w].id = thread[w].id
  /\ \/ Checking(w) /\ Locked(w)'
     \/ Claim(w) /\ thread'[w].step = "execute"
     \/ Execute(w) /\ thread'[w].step = IF Guarded(thread[w].id) THEN "record" ELSE "save"
     \/ Record(w) /\ thread'[w].step = "save"
     \/ SaveResult(w) /\ thread'[w].step = "audit"
     \/ Reject(w) /\ thread'[w].step = "auditReject"

LEMMA ThreadMoves ==
  ASSUME TypeOK, [Next]_vars, NEW w \in Threads
  PROVE  thread'[w] = thread[w] \/ Enter(w) \/ Advance(w) \/ Leave(w)
<1>1. ASSUME NEW v \in Threads, NEW k \in Keys, NEW i \in 1 .. created,
             NEW verb \in {"approve", "reject"}, Open(v, k, i, verb)
      PROVE  thread'[w] = thread[w] \/ Enter(w)
  BY <1>1 DEF Open, TypeOK, Enter
<1>2. ASSUME NEW v \in Threads, Handle(v)
      PROVE  thread'[w] = thread[w] \/ Advance(w) \/ Leave(w)
  <2>a. Return(v) => thread'[v] = Idle /\ \A u \in Threads \ {v} : thread'[u] = thread[u]
    BY OneThreadMoves
  <2>b. \A s \in Steps : Goto(v, s) =>
          /\ \A u \in Threads \ {v} : thread'[u] = thread[u]
          /\ thread'[v].step = s /\ thread'[v].id = thread[v].id
    BY OneThreadMoves
  <2>c. \A s \in {"execute", "record", "save", "audit", "auditReject"} : s \in Steps
    BY DEF Steps, LockSteps
  <2>1. CASE Refuse(v) \/ Revoke(v) \/ Block(v) \/ ExecuteRaises(v) \/ NoExecutable(v) \/ Audit(v)
    <3>1. Return(v)
      BY <2>1 DEF Refuse, Revoke, Block, ExecuteRaises, NoExecutable, Audit
    <3> QED BY <2>1, <2>a, <3>1 DEF Leave
  <2>2. CASE Claim(v)
    <3>1. Goto(v, "execute")
      BY <2>2 DEF Claim
    <3> QED BY <2>2, <2>b, <2>c, <3>1 DEF Advance
  <2>3. CASE Execute(v)
    <3>1. Goto(v, IF Guarded(thread[v].id) THEN "record" ELSE "save")
      BY <2>3 DEF Execute
    <3> QED BY <2>3, <2>b, <2>c, <3>1 DEF Advance
  <2>4. CASE Record(v)
    <3>1. Goto(v, "save")
      BY <2>4 DEF Record
    <3> QED BY <2>4, <2>b, <2>c, <3>1 DEF Advance
  <2>5. CASE SaveResult(v)
    <3>1. Goto(v, "audit")
      BY <2>5 DEF SaveResult
    <3> QED BY <2>5, <2>b, <2>c, <3>1 DEF Advance
  <2>6. CASE Reject(v)
    <3>1. Goto(v, "auditReject")
      BY <2>6 DEF Reject
    <3> QED BY <2>6, <2>b, <2>c, <3>1 DEF Advance
  <2>7. CASE Checking(v)
    <3>1. LockSteps \subseteq Steps
      BY DEF Steps
    <3> QED BY <2>7, <2>a, <2>b, <3>1, CheckingDoes DEF Advance, Leave, Locked
  <2> QED BY <1>2, <2>1, <2>2, <2>3, <2>4, <2>5, <2>6, <2>7 DEF Handle, Checking
<1>3. CASE Restart
  BY <1>3 DEF Restart, Leave
<1> QED BY <1>1, <1>2, <1>3 DEF Next, Submit, Elapse, Reconfigure, vars

(* Only an execution counts, and counts for one.                            *)
LEMMA RunsMove ==
  ASSUME TypeOK, [Next]_vars, NEW i \in Ids
  PROVE  \/ runs'[i] = runs[i]
         \/ /\ runs'[i] = runs[i] + 1
            /\ \E w \in Threads : Execute(w) /\ thread[w].id = i
<1>1. ASSUME NEW w \in Threads, Handle(w), ~Execute(w) PROVE runs' = runs
  BY <1>1, CheckingDoes DEF Checking, Handle, Refuse, Revoke, Block, Claim, ExecuteRaises, NoExecutable,
              Record, SaveResult, Audit, Reject
<1>2. ASSUME NEW w \in Threads, Execute(w)
      PROVE  runs'[i] = IF i = thread[w].id THEN runs[i] + 1 ELSE runs[i]
  BY <1>2 DEF Execute, TypeOK
<1> QED BY <1>1, <1>2 DEF Next, Submit, Open, Elapse, Reconfigure, Restart, vars

(* The queue only grows by what is requested.                               *)
LEMMA QueueGrows ==
  ASSUME RunInv, [Next]_vars
  PROVE  /\ created \in Nat /\ created' \in Nat /\ created <= created'
         /\ \A i \in queue' \ queue : i > created
<1>0. TypeOK /\ DiskIsCurrent /\ created \in Nat
  BY BoundsAssumption DEF RunInv, ClaimInv, TypeOK
<1>1. ASSUME NEW k \in Keys, NEW t \in Targets, NEW dry \in BOOLEAN, Submit(k, t, dry)
      PROVE  created' = created + 1 /\ queue' \subseteq queue \cup {created + 1}
  BY <1>1, SaveFacts DEF Submit
<1>2. ASSUME NEW w \in Threads, Handle(w)
      PROVE  created' = created /\ queue' \subseteq queue
  BY <1>2, SaveFacts, CheckingDoes
     DEF Checking, Handle, Decide, Refuse, Revoke, Block, Claim, Execute, ExecuteRaises, NoExecutable,
         Record, SaveResult, Audit, Reject
<1>3. CASE Restart
  BY <1>0, <1>3 DEF Restart, DiskIsCurrent, Snapshot
<1>4. CASE UNCHANGED <<created, queue>>
  BY <1>0, <1>4
<1> QED BY <1>0, <1>1, <1>2, <1>3, <1>4 DEF Next, Open, Elapse, Reconfigure, vars

-----------------------------------------------------------------------------
(* An approval that was turned down, has not run, and can never run: nobody *)
(* works on it and nobody can claim it.                                    *)
Closed(i) ==
  /\ i \in 1 .. created /\ runs[i] = 0
  /\ i \in queue => entry[i].status = "rejected"
  /\ \A w \in Threads : Working(w) => thread[w].id # i

(* The audit log, and what threads are about to write to it, is true.       *)
ApprovedRan ==
  /\ \A i \in Ids : <<"approved", i>> \in audit => runs[i] > 0
  /\ \A w \in Threads : thread[w].step \in {"record", "save", "audit"} =>
       runs[thread[w].id] > 0
TurnedDown(i) ==
  \/ <<"rejected", i>> \in audit
  \/ \E w \in Threads : thread[w].step = "auditReject" /\ thread[w].id = i
RejectedClosed == \A i \in Ids : TurnedDown(i) => Closed(i)

LEMMA ClosedStays ==
  ASSUME "disk" \notin Faults, RunInv, TypeOK', [Next]_vars, NEW i \in Ids, Closed(i)
  PROVE  Closed(i)'
<1>0. TypeOK /\ LockInv
  BY DEF RunInv, ClaimInv
<1>1. i \in 1 .. created' /\ (i \in queue' => i \in queue)
  BY QueueGrows DEF Closed
<1>2. runs'[i] = 0
  <2>1. ~\E w \in Threads : Execute(w) /\ thread[w].id = i
    BY DEF Closed, Execute, Working
  <2> QED BY <1>0, <2>1, RunsMove DEF Closed
<1>3. i \in queue' => entry'[i].status = "rejected"
  BY <1>1, StepMoves DEF QueueMoves, Transition, Closed
<1>4. ASSUME NEW w \in Threads, Working(w)' PROVE thread'[w].id # i
  <2>1. CASE thread'[w] = thread[w]
    BY <1>4, <2>1 DEF Closed, Working
  <2>2. CASE Advance(w)
    <3>1. Working(w) \/ Decidable(thread[w].id, thread[w].key)
      BY <1>0, <1>4, <2>2, Rechecked DEF Advance, Execute, Record, SaveResult, Working, Locked, LockSteps
    <3> QED BY <2>2, <3>1 DEF Advance, Decidable, Closed
  <2> QED BY <1>0, <1>4, <2>1, <2>2, ThreadMoves DEF Working, Enter, Leave, Idle
<1> QED BY <1>1, <1>2, <1>3, <1>4 DEF Closed

(* What may be written to the audit log about a decision, and by whom.      *)
LEMMA AuditMoves ==
  ASSUME TypeOK, [Next]_vars, NEW i \in Ids
  PROVE  /\ <<"approved", i>> \in audit' =>
              \/ <<"approved", i>> \in audit
              \/ \E w \in Threads : thread[w].step = "audit" /\ thread[w].id = i
         /\ <<"rejected", i>> \in audit' =>
              \/ <<"rejected", i>> \in audit
              \/ \E w \in Threads : thread[w].step = "auditReject" /\ thread[w].id = i
<1>1. ASSUME NEW w \in Threads, Handle(w), ~Audit(w), ~Block(w) PROVE audit' = audit
  BY <1>1, CheckingDoes DEF Checking, Handle, Refuse, Revoke, Claim, Execute, ExecuteRaises, NoExecutable,
              Record, SaveResult, Reject
<1>2. ASSUME NEW w \in Threads, Audit(w)
      PROVE  audit' \subseteq audit \cup {<<IF thread[w].step = "audit" THEN "approved"
                                           ELSE "rejected", thread[w].id>>}
             /\ thread[w].step \in {"audit", "auditReject"}
  BY <1>2 DEF Audit
<1>3. ASSUME NEW w \in Threads, Block(w)
      PROVE  audit' \subseteq audit \cup {<<"blocked", thread[w].id>>}
  BY <1>3 DEF Block
<1>4. ASSUME NEW w \in Threads, Handle(w)
      PROVE  /\ <<"approved", i>> \in audit' =>
                  \/ <<"approved", i>> \in audit
                  \/ thread[w].step = "audit" /\ thread[w].id = i
             /\ <<"rejected", i>> \in audit' =>
                  \/ <<"rejected", i>> \in audit
                  \/ thread[w].step = "auditReject" /\ thread[w].id = i
  BY <1>1, <1>2, <1>3, <1>4
<1> QED BY <1>4 DEF Next, Submit, Open, Elapse, Reconfigure, Restart, vars

LEMMA StepApprovedRan ==
  ASSUME RunInv, ApprovedRan, TypeOK', [Next]_vars
  PROVE  ApprovedRan'
<1>0. TypeOK /\ \A i \in Ids : runs[i] \in Nat
  BY BoundsAssumption DEF RunInv, ClaimInv, TypeOK
<1>1. \A i \in Ids : runs[i] > 0 => runs'[i] > 0
  BY <1>0, RunsMove
<1>2. ASSUME NEW i \in Ids, <<"approved", i>> \in audit' PROVE runs'[i] > 0
  BY <1>0, <1>1, <1>2, AuditMoves DEF ApprovedRan
<1>3. ASSUME NEW w \in Threads, thread'[w].step \in {"record", "save", "audit"}
      PROVE  runs'[thread'[w].id] > 0
  <2>1. CASE thread'[w] = thread[w]
    BY <1>0, <1>1, <1>3, <2>1, CallType DEF ApprovedRan
  <2>2. CASE Execute(w) /\ thread'[w].id = thread[w].id
    <3>1. thread[w].id \in Ids
      BY <1>0, <2>2, CallType DEF Execute
    <3>2. runs'[thread[w].id] = runs[thread[w].id] + 1
      BY <1>0, <2>2, <3>1 DEF Execute, TypeOK
    <3> QED BY <1>0, <2>2, <3>1, <3>2
  <2>3. CASE (Record(w) \/ SaveResult(w)) /\ thread'[w].id = thread[w].id
    <3>1. thread[w].step \in {"record", "save"}
      BY <2>3 DEF Record, SaveResult
    <3> QED BY <1>0, <1>1, <2>3, <3>1, CallType DEF ApprovedRan
  <2> QED BY <1>0, <1>3, <2>1, <2>2, <2>3, ThreadMoves DEF Advance, Enter, Leave, Idle, Locked, LockSteps
<1> QED BY <1>2, <1>3 DEF ApprovedRan

LEMMA StepRejectedClosed ==
  ASSUME "disk" \notin Faults, RunInv, RejectedClosed, TypeOK', [Next]_vars
  PROVE  RejectedClosed'
<1>0. TypeOK
  BY DEF RunInv, ClaimInv
<1> SUFFICES ASSUME NEW i \in Ids, TurnedDown(i)' PROVE Closed(i)'
  BY DEF RejectedClosed
<1>1. CASE TurnedDown(i)
  BY <1>1, ClosedStays DEF RejectedClosed
<1>2. ASSUME NEW w \in Threads, Reject(w), thread[w].id = i PROVE Closed(i)'
  <2>1. i \in 1 .. created /\ i \in queue /\ entry[i].status = "pending"
    BY <1>0, <1>2, CallType DEF Reject, Decidable
  <2>2. entry'[i].status = "rejected" /\ runs' = runs /\ created' = created
    BY <1>0, <1>2, SaveFacts DEF Reject, Decide, TypeOK
  <2>3. runs[i] = 0
    <3>1. runs[i] \in Nat
      BY <1>0, BoundsAssumption DEF TypeOK
    <3> QED BY <2>1, <3>1 DEF RunInv, Spent, ExecutedWasApproved
  <2>4. ASSUME NEW v \in Threads, Working(v)' PROVE thread'[v].id # i
    <3>1. entry'[thread'[v].id].status = "approved"
      BY <2>4, StepClaims DEF RunInv, Claimed
    <3> QED BY <2>2, <3>1
  <2> QED BY <2>1, <2>2, <2>3, <2>4 DEF Closed
<1>3. CASE ~TurnedDown(i)
  <2>1. <<"rejected", i>> \notin audit'
    BY <1>0, <1>3, AuditMoves DEF TurnedDown
  <2>2. PICK w \in Threads : thread'[w].step = "auditReject" /\ thread'[w].id = i
    BY <2>1 DEF TurnedDown
  <2>3. thread'[w] # thread[w]
    BY <1>3, <2>2 DEF TurnedDown
  <2>4. Reject(w) /\ thread[w].id = i
    BY <1>0, <2>2, <2>3, ThreadMoves DEF Advance, Enter, Leave, Idle, Locked, LockSteps
  <2> QED BY <1>2, <2>4
<1> QED BY <1>1, <1>3

LEMMA AuditInvariant ==
  ASSUME "disk" \notin Faults PROVE Spec => [](ApprovedRan /\ RejectedClosed)
<1>1. Init => ApprovedRan /\ RejectedClosed
  BY DEF Init, ApprovedRan, RejectedClosed, TurnedDown, Idle
<1>2. RunInv /\ ApprovedRan /\ RejectedClosed /\ TypeOK' /\ [Next]_vars
        => ApprovedRan' /\ RejectedClosed'
  BY StepApprovedRan, StepRejectedClosed
<1> QED BY <1>1, <1>2, RunInvariant, TypeCorrect, PTL DEF Spec

(* The audit log never says of an approval that it ran when it did not, nor *)
(* that it was turned down when it ran, over any number of crashes, if     *)
(* every write of the queue's file succeeds (main.py:850-865, 916-931).    *)
THEOREM AuditIsTruthful == ASSUME "disk" \notin Faults PROVE Spec => []AuditTruthful
<1>1. ApprovedRan /\ RejectedClosed => AuditTruthful
  BY DEF ApprovedRan, RejectedClosed, TurnedDown, Closed, AuditTruthful
<1> QED BY <1>1, AuditInvariant, PTL

-----------------------------------------------------------------------------
(* An execution stays in the hands of its thread until the log has it.      *)
LEMMA StepAccounted ==
  ASSUME Faults \cap {"crash", "disk", "audit"} = {}, RunInv, AccountedFor, TypeOK', [Next]_vars
  PROVE  AccountedFor'
<1>0. TypeOK /\ \A i \in Ids : runs[i] \in Nat
  BY BoundsAssumption DEF RunInv, ClaimInv, TypeOK
<1> SUFFICES ASSUME NEW i \in Ids, runs'[i] > 0,  <<"approved", i>> \notin audit'
             PROVE  \E w \in Threads : Working(w)' /\ thread'[w].id = i
  BY DEF AccountedFor
<1>1. CASE \E w \in Threads : Execute(w) /\ thread[w].id = i
  <2>1. PICK w \in Threads : Execute(w) /\ thread[w].id = i
    BY <1>1
  <2>2. Goto(w, IF Guarded(i) THEN "record" ELSE "save") /\ {"record", "save"} \subseteq Steps
    BY <2>1 DEF Execute, Steps, LockSteps
  <2>3. thread'[w].step \in {"record", "save"} /\ thread'[w].id = i
    BY <1>0, <2>1, <2>2, OneThreadMoves
  <2> QED BY <2>3 DEF Working
<1>2. CASE ~\E w \in Threads : Execute(w) /\ thread[w].id = i
  <2>1. runs[i] > 0
    BY <1>0, <1>2, RunsMove
  <2>2. audit \subseteq audit'
    BY CheckingDoes
       DEF Next, Submit, Open, Elapse, Reconfigure, Restart, vars, Handle, Checking, Refuse, Revoke,
           Block, Claim, Execute, ExecuteRaises, NoExecutable, Record, SaveResult, Audit, Reject
  <2>3. PICK w \in Threads : Working(w) /\ thread[w].id = i
    BY <2>1, <2>2 DEF AccountedFor
  <2>4. thread[w].step \in {"record", "save", "audit"}
    BY <2>1, <2>3 DEF RunInv, Ready, Working
  <2>5. CASE thread'[w] = thread[w]
    BY <2>3, <2>5 DEF Working
  <2>6. CASE Advance(w)
    BY <2>3, <2>4, <2>6, CheckingDoes DEF Working, Advance, Claim, Reject, LockSteps
  <2>7. ~Leave(w)
    BY <2>3, <2>4, CheckingDoes DEF Leave, Restart, Refuse, Revoke, Block, ExecuteRaises, NoExecutable, Audit, LockSteps
  <2> QED BY <1>0, <2>4, <2>5, <2>6, <2>7, ThreadMoves DEF Enter, Idle
<1> QED BY <1>1, <1>2

(* What was executed is in the log or on its way there, if no crash, no     *)
(* failing append and no failing write interferes (README.md:33,           *)
(* main.py:834-865).                                                       *)
THEOREM ExecutionsAreAccounted ==
  ASSUME Faults \cap {"crash", "disk", "audit"} = {} PROVE Spec => []AccountedFor
<1>1. Init => AccountedFor
  BY DEF Init, AccountedFor
<1>2. "disk" \notin Faults
  OBVIOUS
<1>3. Spec => []RunInv
  BY <1>2, RunInvariant
<1> QED BY <1>1, <1>3, StepAccounted, TypeCorrect, PTL DEF Spec

-----------------------------------------------------------------------------
(* Executions since a target's cooldown last lapsed, and threads about to   *)
(* add one.                                                                *)
Burst(t) == {i \in recent : request[i].target = t}
Coming(t) ==
  {i \in 1 .. created : /\ Guarded(i) /\ request[i].target = t
                        /\ \E w \in Threads : thread[w].step = "execute" /\ thread[w].id = i}
Engaged(t) == Burst(t) \cup Coming(t)

(* As long as the cooldown has not begun, what was executed is still in its *)
(* thread's hands; so the engaged approvals are at most one per thread, and *)
(* once it has begun, no other joins them.                                 *)
BurstHeld ==
  \A t \in Targets \ cooling : \A i \in Burst(t) :
    \E w \in Threads : thread[w].step = "record" /\ thread[w].id = i
BurstInv ==
  /\ BurstHeld
  /\ \A i \in recent : Guarded(i)
  /\ \A t \in Targets : Cardinality(Engaged(t)) <= Cardinality(Threads)

(* Approvals in the hands of threads are no more than the threads.          *)
LEMMA OnePerThread ==
  ASSUME IsFiniteSet(Threads), NEW at, NEW S, \A i \in S : \E w \in Threads : at[w].id = i
  PROVE  Cardinality(S) <= Cardinality(Threads)
<1> DEFINE I == {at[w].id : w \in Threads}
           f == [w \in Threads |-> at[w].id]
<1>1. f \in Surjection(Threads, I) /\ S \in SUBSET I
  BY DEF Surjection
<1> HIDE DEF f, I
<1>2. IsFiniteSet(I) /\ Cardinality(I) <= Cardinality(Threads)
  BY <1>1, FS_Surjection
<1>3. IsFiniteSet(S) /\ Cardinality(S) <= Cardinality(I)
  BY <1>1, <1>2, FS_Subset
<1>4. Cardinality(S) \in Nat /\ Cardinality(I) \in Nat /\ Cardinality(Threads) \in Nat
  BY <1>2, <1>3, FS_CardinalityType
<1> QED BY <1>2, <1>3, <1>4

LEMMA RequestsStay ==
  ASSUME TypeOK, [Next]_vars, NEW i \in 1 .. created
  PROVE  request'[i] = request[i] /\ Guarded(i)' = Guarded(i) /\ i \in 1 .. created'
<1>1. ASSUME NEW k \in Keys, NEW t \in Targets, NEW dry \in BOOLEAN, Submit(k, t, dry)
      PROVE  request'[i] = request[i] /\ i \in 1 .. created'
  BY <1>1, BoundsAssumption DEF Submit, TypeOK
<1>2. ASSUME NEW w \in Threads, Handle(w) PROVE UNCHANGED <<request, created>>
  BY <1>2, CheckingDoes
     DEF Checking, Handle, Refuse, Revoke, Block, Claim, Execute, ExecuteRaises, NoExecutable,
         Record, SaveResult, Audit, Reject
<1>3. request'[i] = request[i] /\ i \in 1 .. created'
  BY <1>1, <1>2 DEF Next, Open, Elapse, Reconfigure, Restart, vars
<1> QED BY <1>3 DEF Guarded

(* Only an execution of a guarded approval joins the burst, and a target    *)
(* whose cooldown lapses starts afresh.                                    *)
LEMMA RecentMoves ==
  ASSUME "crash" \notin Faults, TypeOK, [Next]_vars
  PROVE  /\ \A i \in recent' \ recent : \E w \in Threads : Execute(w) /\ thread[w].id = i /\ Guarded(i)
         /\ \A t \in cooling \ cooling' : \A i \in recent' : request[i].target # t
<1>1. ASSUME NEW w \in Threads, Execute(w)
      PROVE  /\ cooling' = cooling
             /\ recent' \subseteq recent \cup {thread[w].id}
             /\ ~Guarded(thread[w].id) => recent' = recent
  BY <1>1 DEF Execute
<1>2. ASSUME NEW w \in Threads, Handle(w), ~Execute(w)
      PROVE  recent' = recent /\ cooling \subseteq cooling'
  BY <1>2, CheckingDoes DEF Checking, Handle, Refuse, Revoke, Block, Claim, ExecuteRaises, NoExecutable,
              Record, SaveResult, Audit, Reject
<1>3. ASSUME NEW t \in Targets, Elapse(t)
      PROVE  recent' \subseteq recent /\ cooling \ cooling' \subseteq {t}
             /\ \A i \in recent' : request[i].target # t
  BY <1>3 DEF Elapse
<1>4. CASE UNCHANGED <<recent, cooling>>
  BY <1>4
<1> QED BY <1>1, <1>2, <1>3, <1>4 DEF Next, Submit, Open, Reconfigure, Restart, vars

LEMMA StepBurst ==
  ASSUME IsFiniteSet(Threads), "crash" \notin Faults, TypeOK, TypeOK', BurstInv, [Next]_vars
  PROVE  BurstInv'
<1>0. recent \subseteq 1 .. created
  BY DEF TypeOK
<1>1. ASSUME NEW i \in recent' PROVE Guarded(i)' /\ i \in 1 .. created
  <2>1. i \in 1 .. created /\ Guarded(i)
    <3>1. CASE i \in recent
      BY <1>0, <3>1 DEF BurstInv
    <3>2. CASE i \notin recent
      BY <3>2, RecentMoves, CallType DEF Execute
    <3> QED BY <3>1, <3>2
  <2> QED BY <2>1, RequestsStay
<1>2. ASSUME NEW t \in Targets \ cooling', NEW i \in Burst(t)'
      PROVE  \E w \in Threads : thread'[w].step = "record" /\ thread'[w].id = i
  <2>1. i \in recent' /\ request[i].target = t
    BY <1>1, RequestsStay DEF Burst
  <2>2. CASE i \notin recent
    <3>1. PICK w \in Threads : Execute(w) /\ thread[w].id = i /\ Guarded(i)
      BY <2>1, <2>2, RecentMoves
    <3>2. Goto(w, "record") /\ "record" \in Steps
      BY <3>1 DEF Execute, Steps, LockSteps
    <3> QED BY <3>1, <3>2, OneThreadMoves
  <2>3. CASE i \in recent
    <3>1. t \notin cooling
      BY <2>1, RecentMoves
    <3>2. PICK w \in Threads : thread[w].step = "record" /\ thread[w].id = i
      BY <2>1, <2>3, <3>1 DEF BurstInv, BurstHeld, Burst
    <3>3. ~Record(w)
      BY <2>1, <3>2 DEF Record
    <3>4. ~Leave(w)
      BY <3>2, CheckingDoes DEF Leave, Restart, Refuse, Revoke, Block, ExecuteRaises, NoExecutable, Audit, LockSteps
    <3>5. ~Advance(w) /\ ~Enter(w)
      BY <3>2, <3>3, CheckingDoes DEF Advance, Claim, Execute, SaveResult, Reject, Enter, Idle, LockSteps
    <3> QED BY <3>2, <3>4, <3>5, ThreadMoves
  <2> QED BY <2>2, <2>3
<1>3. ASSUME NEW t \in Targets, t \in cooling' PROVE Engaged(t)' \subseteq Engaged(t)
  <2>1. ASSUME NEW i \in Burst(t)' PROVE i \in Engaged(t)
    <3>1. i \in recent' /\ request[i].target = t /\ i \in 1 .. created
      BY <1>1, RequestsStay DEF Burst
    <3>2. i \notin recent => \E w \in Threads : thread[w].step = "execute" /\ thread[w].id = i
                                             /\ Guarded(i)
      BY <3>1, RecentMoves DEF Execute
    <3> QED BY <3>1, <3>2 DEF Engaged, Burst, Coming
  <2>2. ASSUME NEW i \in Coming(t)' PROVE i \in Engaged(t)
    <3>1. PICK w \in Threads : thread'[w].step = "execute" /\ thread'[w].id = i
      BY <2>2 DEF Coming
    <3>2. thread'[w] = thread[w] \/ (Claim(w) /\ thread[w].id = i)
      BY <3>1, ThreadMoves DEF Enter, Advance, Leave, Idle, Locked, LockSteps
    <3>3. i \in 1 .. created
      BY <3>1, <3>2, CallType DEF Claim
    <3>4. Guarded(i) /\ request[i].target = t
      BY <2>2, <3>3, RequestsStay DEF Coming
    <3>5. ~(Claim(w) /\ thread[w].id = i)
      BY <1>3, <3>4 DEF Claim
    <3> QED BY <3>1, <3>2, <3>3, <3>4, <3>5 DEF Engaged, Coming
  <2> QED BY <2>1, <2>2 DEF Engaged
<1>4. ASSUME NEW t \in Targets PROVE Cardinality(Engaged(t)') <= Cardinality(Threads)
  <2>1. CASE t \notin cooling'
    <3>1. \A i \in Engaged(t)' : \E w \in Threads : thread'[w].id = i
      BY <1>2, <2>1 DEF Engaged, Coming
    <3> QED BY <3>1, OnePerThread
  <2>2. CASE t \in cooling'
    <3>1. Engaged(t) \in SUBSET Ids
      BY <1>0, CreatedIds DEF Engaged, Burst, Coming
    <3>2. Engaged(t)' \in SUBSET Engaged(t)
      BY <1>3, <2>2
    <3>3. IsFiniteSet(Engaged(t)) /\ Cardinality(Engaged(t)) \in Nat
      BY <3>1, IdsAreFinite
    <3>4. Cardinality(Engaged(t)') <= Cardinality(Engaged(t)) /\ IsFiniteSet(Engaged(t)')
      BY <3>2, <3>3, FS_Subset
    <3>5. Cardinality(Engaged(t)') \in Nat /\ Cardinality(Threads) \in Nat
      BY <3>4, FS_CardinalityType
    <3> QED BY <3>3, <3>4, <3>5 DEF BurstInv
  <2> QED BY <2>1, <2>2
<1>5. BurstHeld'
  BY <1>2 DEF BurstHeld
<1> QED BY <1>1, <1>4, <1>5 DEF BurstInv

(* Between two lapses of its cooldown a target is remediated at most once   *)
(* per handler thread, if the process does not crash, for any finite pool  *)
(* (main.py:805-823, 844-845).                                             *)
THEOREM BurstsAreBounded ==
  ASSUME IsFiniteSet(Threads), "crash" \notin Faults PROVE Spec => []BurstBounded
<1>1. Init => BurstInv
  <2> SUFFICES ASSUME Init PROVE BurstInv
    OBVIOUS
  <2>1. \A t \in Targets : Engaged(t) = {}
    BY DEF Init, Engaged, Burst, Coming, Idle
  <2>2. Cardinality({}) = 0 /\ Cardinality(Threads) \in Nat
    BY FS_EmptySet, FS_CardinalityType
  <2>3. \A t \in Targets : Cardinality(Engaged(t)) <= Cardinality(Threads)
    BY <2>1, <2>2
  <2>4. recent = {}
    BY DEF Init
  <2>5. BurstHeld
    BY <2>4 DEF BurstHeld, Burst
  <2> QED BY <2>3, <2>4, <2>5 DEF BurstInv
<1>2. TypeOK /\ TypeOK' /\ BurstInv /\ [Next]_vars => BurstInv'
  BY StepBurst
<1>3. TypeOK /\ BurstInv => BurstBounded
  <2> SUFFICES ASSUME TypeOK, BurstInv, NEW t \in Targets
               PROVE  Cardinality(Burst(t)) <= Cardinality(Threads)
    BY DEF BurstBounded, Burst
  <2>1. Engaged(t) \in SUBSET Ids /\ Burst(t) \in SUBSET Engaged(t)
    BY CreatedIds DEF TypeOK, Engaged, Burst, Coming
  <2>2. /\ Cardinality(Burst(t)) <= Cardinality(Engaged(t))
        /\ Cardinality(Burst(t)) \in Nat /\ Cardinality(Engaged(t)) \in Nat
    BY <2>1, IdsAreFinite, FS_Subset
  <2>3. Cardinality(Threads) \in Nat
    BY FS_CardinalityType
  <2> QED BY <2>2, <2>3 DEF BurstInv
<1> QED BY <1>1, <1>2, <1>3, TypeCorrect, PTL DEF Spec

-----------------------------------------------------------------------------
(* The queue implements ApprovalWorkflow.  An id that was not handed out    *)
(* yet has a blank entry, so a new request starts as pending.              *)
Fresh == \A i \in Ids : i > created => entry[i].status = "pending"
WorkInv == RunInv /\ Trimmed /\ Fresh

LEMMA StepFresh == ASSUME RunInv, Fresh, TypeOK', [Next]_vars PROVE Fresh'
<1>0. TypeOK /\ DiskIsCurrent /\ created \in Nat
  BY DEF RunInv, ClaimInv, TypeOK
<1>1. CASE entry' = entry /\ created <= created'
  <2>1. created' \in Nat /\ Ids \subseteq Nat
    BY DEF TypeOK, Ids
  <2>2. \A i \in Ids : i > created' => i > created
    BY <1>0, <1>1, <2>1
  <2> QED BY <1>1, <2>2 DEF Fresh
<1>2. ASSUME NEW k \in Keys, NEW t \in Targets, NEW dry \in BOOLEAN, Submit(k, t, dry)
      PROVE  Fresh'
  <2>1. entry' = entry
    BY <1>2 DEF Submit, Save
  <2> QED BY <1>0, <1>1, <1>2, <2>1 DEF Submit
<1>3. ASSUME NEW w \in Threads, Handle(w) PROVE Fresh'
  <2>1. CASE Refuse(w) \/ Block(w) \/ Execute(w) \/ ExecuteRaises(w) \/ Record(w) \/ Audit(w)
    BY <1>0, <1>1, <2>1 DEF Refuse, Block, Execute, ExecuteRaises, Record, Audit
  <2>2. CASE Revoke(w) \/ Claim(w) \/ NoExecutable(w) \/ SaveResult(w) \/ Reject(w)
    <3>1. created' = created /\ thread[w].step # "idle" /\ \E d : Decide(thread[w].id, d)
      BY <1>3, <2>2, HandlerBusy DEF Revoke, Claim, NoExecutable, SaveResult, Reject
    <3>2. thread[w].id \in 1 .. created
      BY <1>0, <3>1, CallType
    <3>3. \E d : entry' = [entry EXCEPT ![thread[w].id] = d]
      BY <3>1 DEF Decide, Save
    <3> QED BY <1>0, <3>1, <3>2, <3>3 DEF Fresh, TypeOK
  <2>3. CASE Checking(w)
    BY <1>0, <1>1, <2>3, CheckingDoes
  <2> QED BY <1>3, <2>1, <2>2, <2>3 DEF Handle, Checking
<1>4. CASE Restart
  <2>1. \A i \in Ids : i > created => entry'[i] = Blank
    BY <1>0, <1>4 DEF Restart, DiskIsCurrent, Snapshot, TypeOK
  <2> QED BY <1>4, <2>1 DEF Fresh, Blank, Restart
<1> QED BY <1>0, <1>1, <1>2, <1>3, <1>4 DEF Next, Open, Elapse, Reconfigure, vars

LEMMA WorkInvariant == ASSUME "disk" \notin Faults PROVE Spec => []WorkInv
<1>1. Init => Fresh
  BY DEF Init, Fresh, Blank
<1>2. RunInv /\ Fresh /\ TypeOK' /\ [Next]_vars => Fresh'
  BY StepFresh
<1>3. Spec => []RunInv
  BY RunInvariant
<1> QED BY <1>1, <1>2, <1>3, TypeCorrect, TrimmedInvariant, PTL DEF Spec, WorkInv

(* The refinement mapping, point by point.                                  *)
StageOf(i) == IF i > created THEN "new"
              ELSE IF i \in queue THEN entry[i].status ELSE "forgotten"

LEMMA StagePoints ==
  /\ Stage = [i \in Ids |-> StageOf(i)]
  /\ Stage' = [i \in Ids |-> StageOf(i)']
BY DEF Stage, StageOf

(* A step that puts entry d in place of entry i of the queue, and saves,    *)
(* moves request i and forgets what was pruned.                            *)
LEMMA DecisionIsMove ==
  ASSUME TypeOK, NEW i \in Ids, NEW d \in Decisions, d.status # "pending",
         i \in queue, Decide(i, d), created' = created
  PROVE  Workflow!Move(i, d.status)
<1> DEFINE moved == [Stage EXCEPT ![i] = d.status]
           gone == queue \ queue'
<1>0. queue \subseteq 1 .. created /\ queue \subseteq Ids /\ created \in Nat /\ Ids \subseteq Nat
  BY CreatedIds DEF TypeOK, Ids
<1>1. /\ queue' \subseteq queue
      /\ entry' = [entry EXCEPT ![i] = d]
      /\ \A j \in gone : entry'[j].status # "pending"
  BY SaveFacts DEF Decide
<1>2. \A j \in Ids : entry'[j] = IF j = i THEN d ELSE entry[j]
  BY <1>1 DEF TypeOK
<1>3. \A j \in Ids : moved[j] = IF j = i THEN d.status ELSE StageOf(j)
  BY StagePoints
<1>4. \A j \in gone : moved[j] = entry'[j].status
  BY <1>0, <1>2, <1>3 DEF StageOf
<1>5. \A j \in Ids : entry'[j].status \in Statuses
  BY <1>2 DEF TypeOK, Decisions
<1>6. gone \in SUBSET {j \in Ids : moved[j] \in Workflow!Decided}
  BY <1>0, <1>1, <1>4, <1>5 DEF Statuses, Workflow!Decided
<1>7. \A j \in Ids : StageOf(j)' = IF j \in gone THEN "forgotten" ELSE moved[j]
  BY <1>0, <1>1, <1>2, <1>3 DEF StageOf
<1>8. Stage' = [j \in Ids |-> IF j \in gone THEN "forgotten" ELSE moved[j]]
  BY <1>7, StagePoints
<1> QED BY <1>6, <1>8 DEF Workflow!Move

(* An entry whose status a step leaves alone leaves nothing to prune.       *)
LEMMA StageStays ==
  ASSUME TypeOK, Trimmed, NEW i \in Ids, NEW d \in Decisions, Decide(i, d), created' = created,
         i \in queue => d.status = entry[i].status
  PROVE  Stage' = Stage
<1>0. queue \subseteq Ids
  BY CreatedIds DEF TypeOK
<1>1. entry' = [entry EXCEPT ![i] = d] /\ queue' = queue \ Excess(queue, entry')
  BY DEF Decide, Save
<1>2. \A j \in queue : entry'[j].status = entry[j].status
  BY <1>0, <1>1 DEF TypeOK
<1>3. Excess(queue, entry') = Excess(queue, entry)
  BY <1>2, ExcessByStatus
<1>4. queue' = queue
  BY <1>1, <1>3 DEF Trimmed
<1> QED BY <1>2, <1>4 DEF Stage

(* The tickets change with the thread that gets or gives one up.            *)
LEMMA TicketsStay ==
  ASSUME \A w \in Threads : (thread'[w].step = "execute") <=> (thread[w].step = "execute"),
         \A w \in Threads : thread[w].step = "execute" => thread'[w].id = thread[w].id
  PROVE  Ticket' = Ticket
BY DEF Ticket

LEMMA TicketIssued ==
  ASSUME NEW w \in Threads, \A v \in Threads \ {w} : thread'[v] = thread[v],
         thread[w].step # "execute", thread'[w].step = "execute", thread'[w].id = thread[w].id
  PROVE  Ticket' = Ticket \cup {thread[w].id}
BY DEF Ticket

LEMMA TicketSpent ==
  ASSUME SoleClaimant, NEW w \in Threads, \A v \in Threads \ {w} : thread'[v] = thread[v],
         thread[w].step = "execute", thread'[w].step # "execute"
  PROVE  thread[w].id \in Ticket /\ Ticket' = Ticket \ {thread[w].id}
BY DEF Ticket, SoleClaimant, Working

LEMMA StepWorks ==
  ASSUME "disk" \notin Faults, WorkInv, TypeOK', [Next]_vars
  PROVE  [Workflow!Next]_(Workflow!vars)
<1>0. TypeOK /\ SoleClaimant /\ Claimed /\ LockInv /\ DiskIsCurrent /\ Trimmed /\ Fresh
  BY DEF WorkInv, RunInv, ClaimInv
<1>a. /\ queue \subseteq 1 .. created /\ queue \subseteq Ids /\ 1 .. created \subseteq Ids
      /\ created \in Nat /\ Ids \subseteq Nat
  BY <1>0, CreatedIds DEF TypeOK, Ids
<1>b. ASSUME UNCHANGED <<queue, entry, created>> PROVE Stage' = Stage
  BY <1>b DEF Stage
<1>c. ASSUME UNCHANGED <<Stage, Ticket, runs>> PROVE [Workflow!Next]_(Workflow!vars)
  BY <1>c DEF Workflow!vars
<1>1. ASSUME NEW k \in Keys, NEW t \in Targets, NEW dry \in BOOLEAN, Submit(k, t, dry)
      PROVE  Workflow!Next
  <2> DEFINE i == created + 1
             gone == queue \ queue'
             moved == [Stage EXCEPT ![i] = "pending"]
  <2>1. /\ i \in Ids /\ created' = i /\ entry' = entry /\ UNCHANGED <<thread, runs>>
        /\ queue' = (queue \cup {i}) \ Excess(queue \cup {i}, entry)
    BY <1>1, <1>a, BoundsAssumption DEF Submit, Save, Ids
  <2>2. entry[i].status = "pending"
    BY <1>0, <1>a, <2>1 DEF Fresh
  <2>3. i \in queue' /\ queue' \subseteq queue \cup {i}
        /\ \A j \in gone : entry[j].status # "pending"
    BY <2>1, <2>2 DEF Excess, Processed
  <2>4. \A j \in Ids : moved[j] = IF j = i THEN "pending" ELSE StageOf(j)
    BY StagePoints
  <2>5. ASSUME NEW j \in gone PROVE moved[j] = entry[j].status /\ entry[j].status \in Statuses
    <3>1. j \in Ids /\ j \in 1 .. created /\ j # i /\ j \in queue
      BY <1>a
    <3>2. moved[j] = entry[j].status
      BY <1>a, <2>4, <3>1 DEF StageOf
    <3>3. entry[j] \in Decisions
      BY <1>0, <3>1 DEF TypeOK
    <3> QED BY <3>2, <3>3 DEF Decisions
  <2>6. gone \in SUBSET {j \in Ids : moved[j] \in Workflow!Decided}
    BY <1>a, <2>3, <2>5 DEF Statuses, Workflow!Decided
  <2>7. \A j \in Ids : StageOf(j)' = IF j \in gone THEN "forgotten" ELSE moved[j]
    BY <1>a, <2>1, <2>2, <2>3, <2>4 DEF StageOf
  <2>8. Stage' = [j \in Ids |-> IF j \in gone THEN "forgotten" ELSE moved[j]]
    BY <2>7, StagePoints
  <2>9. Workflow!Move(i, "pending")
    BY <2>6, <2>8 DEF Workflow!Move
  <2>10. Stage[i] = "new"
    BY <1>a, <2>1, StagePoints DEF StageOf
  <2>11. Workflow!Submit(i)
    BY <2>1, <2>9, <2>10 DEF Workflow!Submit, Ticket
  <2> QED BY <2>1, <2>11 DEF Workflow!Next
<1>2. ASSUME NEW w \in Threads, NEW k \in Keys, NEW i \in 1 .. created,
             NEW verb \in {"approve", "reject"}, Open(w, k, i, verb)
      PROVE  UNCHANGED <<Stage, Ticket, runs>>
  <2>1. thread[w] = Idle /\ thread' = [thread EXCEPT ![w] = [step |-> verb, id |-> i, key |-> k]]
    BY <1>2 DEF Open
  <2>2. thread'[w].step # "execute" /\ thread[w].step # "execute"
        /\ \A v \in Threads \ {w} : thread'[v] = thread[v]
    BY <1>0, <2>1 DEF TypeOK, Idle
  <2>3. Ticket' = Ticket
    BY <2>2, TicketsStay
  <2>4. UNCHANGED <<queue, entry, created, runs>>
    BY <1>2 DEF Open
  <2> QED BY <1>b, <2>3, <2>4
<1>3. ASSUME NEW w \in Threads, Handle(w) PROVE [Workflow!Next]_(Workflow!vars)
  <2> DEFINE i == thread[w].id
  <2>0. thread[w].step # "idle"
    BY <1>3, HandlerBusy
  <2>a. i \in Ids /\ i \in 1 .. created /\ entry[i] \in Decisions /\ thread[w].key \in Keys
    BY <1>0, <2>0, CallType
  <2>b. Stage[i] = IF i \in queue THEN entry[i].status ELSE "forgotten"
    BY <1>a, <2>a, StagePoints DEF StageOf
  <2>c. Return(w) => thread'[w] = Idle /\ \A v \in Threads \ {w} : thread'[v] = thread[v]
    BY <1>0, OneThreadMoves
  <2>d. \A s \in Steps : Goto(w, s) =>
          /\ \A v \in Threads \ {w} : thread'[v] = thread[v]
          /\ thread'[w].step = s /\ thread'[w].id = i
    BY <1>0, OneThreadMoves
  <2>e. {"execute", "record", "save", "audit", "auditReject"} \subseteq Steps
    BY DEF Steps, LockSteps
  <2>1. CASE Refuse(w) \/ Block(w) \/ Audit(w)
    <3>1. Return(w) /\ thread[w].step # "execute" /\ UNCHANGED <<queue, entry, created, runs>>
      BY <2>1 DEF Refuse, Block, Audit
    <3>2. Ticket' = Ticket
      BY <2>c, <3>1, TicketsStay DEF Idle
    <3> QED BY <1>b, <1>c, <3>1, <3>2
  <2>10. CASE Checking(w)
    <3>1. LockSteps \subseteq Steps /\ "execute" \notin LockSteps
      BY DEF Steps, LockSteps
    <3>2. thread[w].step # "execute" /\ UNCHANGED <<queue, entry, created, runs>>
      BY <2>10, <3>1, CheckingDoes
    <3>3. thread'[w].step # "execute" /\ \A v \in Threads \ {w} : thread'[v] = thread[v]
      BY <2>10, <2>c, <2>d, <3>1, CheckingDoes DEF Idle
    <3>4. Ticket' = Ticket
      BY <3>2, <3>3, TicketsStay
    <3> QED BY <1>b, <1>c, <3>2, <3>4
  <2>2. CASE Record(w)
    <3>1. Goto(w, "save") /\ thread[w].step = "record" /\ UNCHANGED <<queue, entry, created, runs>>
      BY <2>2 DEF Record
    <3>2. Ticket' = Ticket
      BY <2>d, <2>e, <3>1, TicketsStay
    <3> QED BY <1>b, <1>c, <3>1, <3>2
  <2>3. CASE Revoke(w)
    <3> DEFINE d == [entry[i] EXCEPT !.status = "rejected", !.result = "error"]
    <3>1. /\ d \in Decisions /\ d.status = "rejected"
          /\ entry[i].status = "pending" /\ i \in queue /\ thread[w].step # "execute"
          /\ Decide(i, d) /\ created' = created /\ runs' = runs /\ Return(w)
      BY <1>0, <2>a, <2>3, Rechecked DEF Revoke, Decidable, Decisions, Statuses, Working
    <3>2. Workflow!Move(i, "rejected")
      BY <1>0, <2>a, <3>1, DecisionIsMove
    <3>3. Ticket' = Ticket
      BY <2>c, <3>1, TicketsStay DEF Idle
    <3>4. Workflow!Reject(i)
      BY <2>b, <3>1, <3>2, <3>3 DEF Workflow!Reject
    <3> QED BY <2>a, <3>4 DEF Workflow!Next
  <2>4. CASE Reject(w)
    <3> DEFINE d == [status |-> "rejected", result |-> "error", by |-> thread[w].key]
    <3>1. /\ d \in Decisions /\ d.status = "rejected"
          /\ entry[i].status = "pending" /\ i \in queue /\ thread[w].step = "reject"
          /\ Decide(i, d) /\ created' = created /\ runs' = runs /\ Goto(w, "auditReject")
      BY <2>a, <2>4 DEF Reject, Decidable, Decisions, Statuses
    <3>2. Workflow!Move(i, "rejected")
      BY <1>0, <2>a, <3>1, DecisionIsMove
    <3>3. Ticket' = Ticket
      BY <2>d, <2>e, <3>1, TicketsStay
    <3>4. Workflow!Reject(i)
      BY <2>b, <3>1, <3>2, <3>3 DEF Workflow!Reject
    <3> QED BY <2>a, <3>4 DEF Workflow!Next
  <2>5. CASE Claim(w)
    <3> DEFINE d == [entry[i] EXCEPT !.status = "approved", !.by = thread[w].key]
    <3>1. /\ d \in Decisions /\ d.status = "approved"
          /\ entry[i].status = "pending" /\ i \in queue /\ thread[w].step # "execute"
          /\ Decide(i, d) /\ created' = created /\ runs' = runs /\ Goto(w, "execute")
      BY <1>0, <2>a, <2>5, Rechecked DEF Claim, Decidable, Decisions, Statuses, Working
    <3>2. Workflow!Move(i, "approved")
      BY <1>0, <2>a, <3>1, DecisionIsMove
    <3>3. Ticket' = Ticket \cup {i}
      BY <2>d, <2>e, <3>1, TicketIssued
    <3>4. Workflow!Approve(i)
      BY <2>b, <3>1, <3>2, <3>3 DEF Workflow!Approve
    <3> QED BY <2>a, <3>4 DEF Workflow!Next
  <2>6. CASE Execute(w)
    <3>1. /\ thread[w].step = "execute" /\ runs' = [runs EXCEPT ![i] = @ + 1]
          /\ Goto(w, IF Guarded(i) THEN "record" ELSE "save")
          /\ UNCHANGED <<queue, entry, created>>
      BY <2>6 DEF Execute
    <3>2. i \in Ticket /\ Ticket' = Ticket \ {i}
      BY <1>0, <2>d, <2>e, <3>1, TicketSpent
    <3>3. Stage' = Stage
      BY <1>b, <3>1
    <3>4. Workflow!Run(i)
      BY <3>1, <3>2, <3>3 DEF Workflow!Run
    <3> QED BY <2>a, <3>4 DEF Workflow!Next
  <2>7. CASE ExecuteRaises(w)
    <3>1. /\ thread[w].step = "execute" /\ Return(w)
          /\ UNCHANGED <<queue, entry, created, runs>>
      BY <2>7 DEF ExecuteRaises
    <3>2. i \in Ticket /\ Ticket' = Ticket \ {i}
      BY <1>0, <2>c, <3>1, TicketSpent DEF Idle
    <3>3. Workflow!LoseTickets
      BY <1>b, <3>1, <3>2 DEF Workflow!LoseTickets
    <3> QED BY <3>3 DEF Workflow!Next
  <2>8. CASE NoExecutable(w)
    <3> DEFINE d == [entry[i] EXCEPT !.status = "rejected", !.result = "error"]
    <3>1. /\ d \in Decisions /\ d.status = "rejected" /\ thread[w].step = "execute"
          /\ Decide(i, d) /\ created' = created /\ runs' = runs /\ Return(w)
      BY <2>a, <2>8 DEF NoExecutable, Decisions, Statuses
    <3>2. entry[i].status = "approved"
      BY <1>0, <3>1 DEF Claimed, Working
    <3>3. i \in Ticket /\ Ticket' = Ticket \ {i}
      BY <1>0, <2>c, <3>1, TicketSpent DEF Idle
    <3>4. CASE i \in queue
      <4>1. Workflow!Move(i, "rejected")
        BY <1>0, <2>a, <3>1, <3>4, DecisionIsMove
      <4> QED BY <2>a, <2>b, <3>1, <3>2, <3>3, <3>4, <4>1 DEF Workflow!Withdraw, Workflow!Next
    <3>5. CASE i \notin queue
      <4>1. Stage' = Stage
        BY <1>0, <2>a, <3>1, <3>5, StageStays
      <4> QED BY <2>a, <2>b, <3>1, <3>3, <3>5, <4>1 DEF Workflow!Withdraw, Workflow!Next
    <3> QED BY <3>4, <3>5
  <2>9. CASE SaveResult(w)
    <3> DEFINE d == [entry[i] EXCEPT !.result = "outcome"]
    <3>1. /\ d \in Decisions /\ d.status = entry[i].status /\ thread[w].step = "save"
          /\ Decide(i, d) /\ created' = created /\ runs' = runs /\ Goto(w, "audit")
      BY <2>a, <2>9 DEF SaveResult, Decisions
    <3>2. Stage' = Stage
      BY <1>0, <2>a, <3>1, StageStays
    <3>3. Ticket' = Ticket
      BY <2>d, <2>e, <3>1, TicketsStay
    <3> QED BY <1>c, <3>1, <3>2, <3>3
  <2> QED BY <1>3, <2>1, <2>2, <2>3, <2>4, <2>5, <2>6, <2>7, <2>8, <2>9, <2>10
          DEF Handle, Checking
<1>4. CASE Restart
  <2>1. queue' = queue /\ \A j \in queue : entry'[j] = entry[j]
    BY <1>0, <1>4, <1>a DEF Restart, DiskIsCurrent, Snapshot
  <2>2. \A j \in Ids : StageOf(j)' = StageOf(j)
    BY <1>4, <2>1 DEF StageOf, Restart
  <2>3. Stage' = Stage
    BY <2>2, StagePoints
  <2>4. Ticket' = {} /\ runs' = runs
    BY <1>4 DEF Restart, Ticket, Idle
  <2>5. CASE Ticket = {}
    BY <1>c, <2>3, <2>4, <2>5
  <2>6. CASE Ticket # {}
    BY <2>3, <2>4, <2>6 DEF Workflow!LoseTickets, Workflow!Next
  <2> QED BY <2>5, <2>6
<1>5. CASE UNCHANGED <<queue, entry, created, thread, runs>>
  BY <1>b, <1>c, <1>5 DEF Ticket
<1> QED BY <1>1, <1>2, <1>3, <1>4, <1>5, <1>c DEF Next, Elapse, Reconfigure, vars

(* The queue, crashes and all, is a workflow with one ticket per approval,  *)
(* if every write of its file succeeds (main.py:752-932).                  *)
THEOREM QueueImplementsWorkflow ==
  ASSUME "disk" \notin Faults PROVE Spec => ImplementsWorkflow
<1>1. Init => Workflow!Init
  <2> SUFFICES ASSUME Init PROVE Workflow!Init
    OBVIOUS
  <2>1. Stage = [i \in Ids |-> "new"]
    BY BoundsAssumption DEF Init, Stage, Ids
  <2>2. Ticket = {}
    BY DEF Init, Ticket, Idle
  <2> QED BY <2>1, <2>2 DEF Init, Workflow!Init
<1>2. WorkInv /\ TypeOK' /\ [Next]_vars => [Workflow!Next]_(Workflow!vars)
  BY StepWorks
<1> QED BY <1>1, <1>2, WorkInvariant, TypeCorrect, PTL
        DEF Spec, ImplementsWorkflow, Workflow!Spec

(* So it keeps the workflow's promise: an approval is executed once at      *)
(* most, and only if it was approved (main.py:767-775, 824-834).           *)
THEOREM QueueKeepsPromise ==
  ASSUME "disk" \notin Faults PROVE Spec => []Workflow!Promise
<1>1. WorkInv => Workflow!Promise
  <2> SUFFICES ASSUME WorkInv, NEW i \in Ids
               PROVE  /\ runs[i] <= 1
                      /\ runs[i] = 1 => Stage[i] \in {"approved", "forgotten"}
    BY DEF Workflow!Promise
  <2>1. TypeOK /\ Spent
    BY DEF WorkInv, RunInv, ClaimInv
  <2>2. i \in Nat /\ created \in Nat
    BY <2>1 DEF TypeOK, Ids
  <2>3. runs[i] <= 1 /\ (runs[i] = 1 => i <= created)
    BY <2>1, <2>2 DEF Spent, AtMostOnce
  <2>4. runs[i] = 1 /\ i \in queue => entry[i].status = "approved"
    BY <2>1 DEF Spent, ExecutedWasApproved
  <2> QED BY <2>2, <2>3, <2>4, StagePoints DEF StageOf
<1> QED BY <1>1, WorkInvariant, PTL
=============================================================================
