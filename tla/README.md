# A verification development for auto-heal

auto-heal is a FastAPI service.  An alert calls `POST /webhook`; the service
runs a remediation action (playbook, script, shell or ssh command, Kubernetes
operation) on a controller, at once or after a second person approved it, and
leaves an audit trail.  This directory holds TLA+ modules translated from
`src/src/`, TLC configurations that check them on small instances, and theorems
about them proved with TLAPS.  Line references are to files under `src/src/`
unless they say otherwise.

## Inventory

| Part | State it keeps | Operations | What makes it correct |
|---|---|---|---|
| Approval queue (`main.py:187-259, 501-521, 739-932`) | `approval_queue` in memory, `logs/approvals.json`, `approval_lock` | queue (webhook), list, approve, reject, prune, load at start | one claimant and one execution per approval, decided by another key; decisions final; nothing pending lost; file and memory agree |
| Webhook, direct path (`main.py:415-582`) | none of its own | limit, authorize, cooldown, execute, record, audit, notify | as for approvals; runs synchronously on the event loop |
| Cooldown tracker (`cooldown.py`) | last attempt per key, `logs/cooldowns.json` | check, record, prune, load | a key is blocked for its cooldown, no shorter and no longer |
| Rate limiter (`ratelimit.py`) | times of recent calls per key, memory only | check | no window holds more calls than the limit; nobody refused without cause |
| Audit chain (`audit.py:54-393`) | `logs/audit.log`, rotated archives | append, rotate, sweep, verify | every completed entry readable, in order, verifiable; tampering shows; rotations on record |
| Audit shipper (`audit.py:396-579`) | a syslog socket | ship | best effort, never blocks |
| Vault client (`vault.py`) | secret cache, login token, two locks | get_secret, login, invalidate | bounded staleness, valid tokens, no needless logins, fails closed |
| Authentication (`auth.py`) | none: `config/auth.yaml` is read on every check | role, permission, action and controller scope | an edit takes effect with the next check |
| Actions, controllers (`actions.py`) | actions merged at start | lookups, discovery | |
| Notifications (`notifications.py`) | dedup times, memory only | notify | severity, dedup, routing |
| Executor (`executor.py`) | temporary secret files | playbook, script, command, ssh, kube_action | secrets removed on every path; a drain that succeeds leaves nothing behind |
| Deployment (`k8s/`, `helm/`) | one volume per pod | two replicas | none of the state above is shared between replicas |

How they meet: `/webhook` is an `async def` handler, so everything in it after the
body is parsed runs on the event loop in one piece, the execution of the action
included; the middleware of every request runs on that loop, too.
`/approvals/{id}/approve` and `/reject` are plain `def` handlers, each on a thread
of the server's pool; they share the queue (under `approval_lock`), the cooldown
tracker and the audit chain (each with a lock of its own) with the event loop.
Executions, audit appends and cooldown records happen outside `approval_lock`.
The queue and the cooldowns are files replaced atomically after each change; the
audit log is appended to; the process may die between any two of these writes.
Operators edit `config/auth.yaml` and `config/controllers.yaml` under the running
process.

What is hard, and therefore what the properties aim at, is listed with its
lines under `hazards` in `PROJECT.json`: races between approvers, crashes
between claim, execution, record, result and audit entry, stale permissions,
writes that fail or stop halfway, pruning at a limit, window boundaries, slow
answers from Vault.

## Modules

| Module | Models | Extends / uses |
|---|---|---|
| `Approvals` | the approval queue with its threads, lock, files, crashes and faults | instantiates `ApprovalWorkflow` |
| `ApprovalWorkflow` | abstract: what the queue promises for each request | |
| `Cooldown` | the cooldown tracker with a clock, pruning, restarts, changed configuration | |
| `RateLimiter` | the sliding window and the two checks of `/webhook` | |
| `Admission` | the middleware and the checks of `/webhook`, in their order, under a configuration that changes | extends `RateLimiter` |
| `Executor` | what an execution does, step by step: secrets, commands, ssh, cluster API, clean-up | |
| `Notifications` | severity, dedup window, routing, a template that raises | |
| `Remediation` | a call from arrival to answer, on the event loop or on a thread | instantiates `Cooldown`, `Executor`, `Notifications` |
| `AuditChain` | append, rotation, retention, interrupted writes, `verify_chain` | |
| `VaultClient` | cache, login token and locks of the Vault client, several threads | |
| `MC...` | instances for TLC | the module of that name |
| `ApprovalsProofs`, `ApprovalWorkflowProofs` | theorems about `Approvals`; the second extends the first, up to the refinement of `ApprovalWorkflow` | TLAPS |
| `RateLimiterProofs`, `AdmissionProofs` | theorems about the limiter; the second extends the first and carries them over to the handlers | TLAPS |
| `CooldownProofs`, `RemediationProofs`, `AuditChainProofs`, `VaultClientProofs` | theorems about the module of that name | TLAPS |

Some modules define, next to an operator, a variant marked *Mutant*: the
operator with a plausible bug (a dropped guard, an off-by-one, a missing save).
`PROJECT.json` pairs every checked property with one that breaks it.  The
variants belong to no specification.

### Approvals: state and actions

`queue` and `entry` are `approval_queue` (its ids, and the entry objects, which
outlive their removal from the list in the thread that holds them); `disk` is
`logs/approvals.json`; `thread[w]` is where a handler thread is, for which id
and which caller; `cooling` and `coolDisk` are the targets
`seconds_remaining` would block, by memory and by file; `auth` is
`config/auth.yaml`, its keys and what its roles are granted; `audit` the entries
in the log about approvals.  `runs`, `recent` and `seen` are history: executions
per approval, those since the target's cooldown last lapsed, and the versions of
`config/auth.yaml` since a handler that is re-checking a requester took the lock.

Ids come from `uuid4` and are never used twice; the model hands out 1, 2, ... in
order of creation, so the list, which is only appended to, is the set of its
ids.  A block under `approval_lock` is one action, with the save that ends it.
The block of approve is the exception: it parses `config/auth.yaml` three times,
and an operator may save the file in between, so it is cut there.  A thread at
`action`, `controller` or `claim` holds the lock, and whatever else needs it waits
for `LockFree`:

| Action | Code |
|---|---|
| `Submit` | `/webhook` with `approval_required` (463-521) |
| `Open` | a handler is entered by a role that may decide (752-760, 886-892) |
| `Refuse` | 404, "Already ...", own request (761-775) |
| `CheckRole`, `CheckAction`, `CheckController` | the requester still may: stored role, action, controller (790-794) |
| `Revoke` | one of the three says no: rejected by the server (795-802) |
| `CheckRaises` | the action is gone from the configuration, or a file is unreadable: 500, still pending (776-794) |
| `Block` | the target cools down: audited, stays pending (806-823) |
| `Claim` | status approved, approved_by, saved, still under the lock (824-830) |
| `Execute`, `ExecuteRaises`, `NoExecutable` | `execute_action` returns a result, raises, returns None (832-843) |
| `Record` | `cooldown_tracker.record` (844-845) |
| `SaveResult` | the result goes into the entry, saved (846-848) |
| `Audit` | `write_audit_log`, end of the handler (849-883, 916-931) |
| `Reject` | rejected by the approver, saved (896-914) |
| `Elapse`, `Reconfigure` | time passes; an operator edits the configuration |
| `Restart` | the process dies and `_load_approval_queue` runs (215-228) |

Saving drops the oldest decided entries beyond `MAX_PROCESSED_APPROVALS` first
(231-243).  `Faults` names what may go wrong: `"crash"`, `"disk"` (an OSError
while a file is written, which the code logs and ignores), `"audit"` (the append
raises), `"raise"`.  Two abstractions: an execution is one step, whatever it
does to its target; and cooldown time is the set `cooling`, whose exact clock is
`Cooldown`'s business.

`ApprovalWorkflow` says what all this amounts to: a request waits, is decided
once, an approval issues one *ticket*, an execution consumes it, a crash can
only lose tickets, and only decided requests are forgotten.  `Approvals` maps to
it by `stage` (the entry's status, "forgotten" once pruned) and `ticket`
(threads about to execute).

### The other components

`Cooldown`: `Record` is `record` with `_prune_locked` and the save, `Remaining`
is `seconds_remaining`, `Restart` loads the file and may find other
`cooldown_seconds`.  `ran` is history, and `Left` what the cooldown should be by
it.

`RateLimiter`: one call of `/webhook` is one action, by how far it gets:
refused for its caller, unknown action, refused for the action, admitted.  The
limit of a caller is that of the role its key has when the call is handled
(`Limit`), so it changes when the role does.  `hits` are the deques of `_hits`;
`admitted` (the calls let through) and `allowed` (the limit the last of them was
checked against) are history.  Several calls may fall on one tick.  `RetryAfter`
is what `check` returns, with its least wait of 0.1 s (`Floor`); `Header` and `Body`
are what the answer makes of it: the next whole second, and the nearest tenth.

`Admission`: a call is in one of the steps arrived (before the middleware),
entered (before its handler), role, action, override, lookup, controller,
admitted; each check reads `config` again, which is `config/auth.yaml`, the key
map in Vault, or `config/controllers.yaml`, and `Reconfigure` may replace it
between any two.  A key map that cannot be read from Vault is empty.
`CheckRates` is the part that reads only the role and the limiter, and is one of
the four actions of `RateLimiter`, with the role it has just read.  From
`CheckRates` on the handler has the event loop to itself (`LoopFree`).

`Remediation`: `call[i]` is where the handler of a call is.

| Action | Code |
|---|---|
| `Arrive` | a request is at the socket; calls are numbered as they arrive |
| `Enter` | the loop is free and takes it; an approved call needs a thread (`main.py:752`) |
| `Refuse` | cooldown: audited, 409 (524-534, 806-823) |
| `Begin`, `NoExecutable` | `execute_action` dispatches, or returns None (363-412, 536-543, 834-843) |
| `Execute` | steps of `Executor` the program takes by itself, or after a timeout |
| `CommandEnds`, `ClusterAnswers` | the command ends; the cluster's API answers, or fails |
| `Collect` | it returned, or raised (537) |
| `Record` | `cooldown_tracker.record` (544-548, 844-845) |
| `Audit` | `write_audit_log`, which may raise (562, 864) |
| `Report`, `Dispatch` | `notify` (566-573, 874-882), then the answer |
| `Restart` | the process dies; calls in hand are cut off |

What an approval does to the queue in the meantime (its claim, its saved result)
is `Approvals`' business and not repeated here.

`Executor`: `job[w]` is what `run_*` is doing for a call: secrets (being written
to temporary files, `files`), waiting (for a process), cordon, list, evict, patch
(calls of the cluster's API), cleanup (the `finally` block), done.  `running` are
the commands that run, on this host or on a controller: killing ssh does not kill
what it started.  `pods` and `schedulable` are a node, modelled from how the code
uses it: nothing is placed on a cordoned node but a DaemonSet's pods; an eviction
may be refused, or done without an answer; an accepted one only starts the pod's
termination (`leaving`), and the pod is gone when `PodLeaves` comes, which nobody
waits for.  Refused evictions cover a pod that is gone and a disruption budget.
Calls of the API carry no timeout, so what answers them is set apart (`Answers`,
`AwaitsAnswer`) from what goes on by itself (`Proceed`).  `held` and `stuck` are
history.

`Notifications`: `Notify` computes key and severity and reads the clock,
`Suppress` and `Pass` are `_is_duplicate` under its lock, `Send` tries the
channels in the order of `notify` (`Place`).  A channel that cannot be reached
changes nothing, so it is no state; one whose template `str.format` refuses
(`Malformed`) raises out of `notify`, and only the channels before it (`Reached`)
are told.

`AuditChain`: a line is a record with the number of the write that made it, which
stands for its `entry_hash` (SHA-256 is taken to tell entries apart), its
sequence, the hash it continues from, whether the stored hash is that of the
content, and whether its newline was written.  A line that was edited and hashed
anew has a number no write has (`Forged`).  `WriteLine` is `_write_locked`: it
completes, or, with `"io"`, leaves nothing, half a line, or a line without its
newline; text appended after such a line becomes part of it.  `Rotate`, `Sweep`,
`Mark`, `AppendAfterRotation` are the steps of an append that rotates, between
which the process may die.  `VerifyOK` and `Boundaries` are `verify_chain`.
Somebody with access to the file may `Edit` a line (keeping the old hash, with a
new one, as the first line of a segment, or without its chain fields), `Delete`
it, or `Swap` two; `endings` counts what nothing in the file can show: the last
line deleted, or edited without leaving its old hash.  A complete line is assumed
to reach the file in one write, which holds for lines shorter than the buffer (8
KiB).

`VaultClient`: `get_secret` for one path with `auth_method` "kubernetes".  A call
is in one of the steps auth, login, granted, read, served; the auth lock is held
from `Login` to `LoggedIn` or `LoginFails`.  `Grant`, `Serve` and `Update` are
Vault, modelled from how the code uses it: it grants tokens that end with their
lease, and serves the version it has at some moment between request and answer.
`RequestTime` is an assumption about the network: a request is answered, or fails,
within it.  The code's `timeout_seconds` bounds the connect and each wait for bytes,
not their sum (`vault.py:139, 228`); for an answer that comes in one piece the two
together are at most twice `timeout_seconds`.

## Checks

| Run | Shows | Instance |
|---|---|---|
| `approvals_crash` | `SoleClaimant`, `AtMostOnce`, `ExecutedWasApproved`, `DiskIsCurrent`, `AuditTruthful`, `HistoryBounded`, `DecisionStands`, `PendingKept`, `ReCheckIsCurrent`, `ImplementsWorkflow` | 2 threads, 2 keys, 2 approvals, a history of 1, a target with and one without a cooldown (and nothing to execute), a requester's actions or controllers taken away and given back at any step, faults crash, audit, raise; symmetric threads |
| `approvals_live` | `BurstBounded`, `AccountedFor`, `ResultDelivered`, `EventuallyAudited` | no fault, 2 threads, 3 approvals of one target by one requester, a history of 2 |
| `cooldown_window` | `ExactWindow` | 2 keys, cooldowns 0, 2 and the retention 3, time to 8, restarts |
| `rate_limits` | `LimitHolds`, `RefusedOnlyWhenFull`, `RetryAfterHonest`, `AdmittedWasAllowed` | window 3, least wait 2, a second of 4 ticks; three loads: 2 callers whose roles are limited to 1 and 2, an action limited to 2 over both and one unlimited, time to twice the window; one caller whose role, so limit, changes 3 times in that time; and, with the clock still, 2 calls at once under 4 configurations and 2 changes |
| `remediation` | `DirectOncePerWindow`, `SecretFilesScoped`, `DrainLeavesNoPodRunning`, `AnnouncedOncePerWindow`, `FailurePaged`, `EveryCallAnswered` | 10 workloads of 2 or 3 calls on 7 targets, 2 threads, time to 3, one crash, a malformed template behind the pager's, every fault |
| `audit_log` | `UntouchedVerifies`, `NoBoundaryInside`, `TamperEvident`, `InterruptionCostsOne`, `InOrder`, `RotationRecorded` | 5 writes, 0 or 1 legacy line, 1 tampering, rotation, every interruption |
| `vault_calls` | `StalenessBounded`, `TokenStillValid`, `NoNeedlessLogin` | 2 threads, TTL 2, request time 1, buffer 2, leases 3, 5 and endless, 3 versions, time to 7 |

Each of these runs also checks its module's `TypeOK`, except `approvals_live`, and
deadlock, except `rate_limits` and `remediation`, in which the clock stops and no
further request need come.  Where a bound ends a behaviour (`MaxWrites`, `MaxTime` of
`VaultClient`) the model has a step `Rest` for it, so that a handler that hangs would
still be found.  Five further runs each refute one statement of the documentation; they
are listed below.

Why the bounds are enough: two threads and two approvals are what every race of
the queue needs (an approver against another approver or a rejecter of the same
entry, two entries of one target, an entry that pushes another out of the
history), and three approvals make the burst of two threads visible.  The rate
limiter's time covers two windows, the cooldown's more than twice the retention,
and the least wait lies inside the window with room on both sides.  Five writes
hold a rotation with its entry, appends before and after, and a second rotation; a
break of the chain shows at the next line.  A log is tampered with or interrupted
there, not both (`OneTrouble`), as no property speaks of both.  The Vault
instance's time covers a lease, its renewal and three TTLs.  `MaxRuns` = 2 only
caps a counter `AtMostOnce` bounds by 1.  `Admission` has three loads, since the
limits need time and many calls, a changed limit needs both before and after it,
and the races need changes under few calls.  The workloads of `Remediation` each
pose a question: two direct calls of the cooled target until its cooldown has
passed, with an approved one beside them, two reports of one outcome while the
dedup window opens and closes, three calls for two threads, a drain beside an
uncordon, a cordon and a second drain, secrets of several kinds.  Pods come and go
only in workloads with a drain; no other call looks at them.

Fairness: `approvals_live` assumes strong fairness of each handler thread.  A
handler that was called is scheduled by the pool; `approval_lock` is held only
for short blocks, never over an execution; playbooks, scripts, commands and ssh
return within `timeout=600`.  It is strong because `threading.Lock` serves its
waiters in no order: it is assumed that a thread does not lose the race for it for
ever.  A `kube_action` call has no timeout, so for it the
assumption is about the API server.  Nothing is assumed of callers: requests
need not come, and pending entries may wait for ever.

`remediation` assumes weak fairness per call, of two things: the event loop, when
free, takes what waits (asyncio's queue is first in, first out), and a handler that
can go on does.  That a command ends by itself is not assumed: it is `timeout=600`
that frees the loop, and without it `EveryCallAnswered` fails.  Nor is it assumed
that the cluster's API ever answers (`ClusterAnswers` has no fairness), since the
code gives those calls no timeout.  `EveryCallAnswered` therefore says what they can
keep waiting: the call that made the request (`AwaitsAnswer`), everything that waits
for the event loop while a direct call waits so, and approvals while all threads do
(`Behind`); nothing else.  Secrets, channels and the ssh connection have timeouts in
the code, for HTTP per connect and per wait for bytes: a server that sends its answer
byte by byte is taken to end some time.

### Where code and documentation disagree

| Run | Property | What happens |
|---|---|---|
| `cooldown_race` | `OncePerWindow` | two approvals of one target are claimed before either execution is recorded; both run (`main.py:809, 845`). `BurstBounded` is what remains |
| `stale_role` | `RequesterStillPermitted` | the requester's stored role is re-checked, not the current one, and a removed key is unrestricted (`main.py:790`, `auth.py:93`). `ReCheckIsCurrent` is what remains |
| `scope_lost` | `ScopeEnforced` | a key that is removed, or whose map can no longer be read from Vault, after its role was read has no scope when the scope is looked up; the call is admitted outside it (`auth.py:88-93`). `AdmittedWasAllowed` claims the scope only of keys that are there all the time |
| `audit_tail` | `EveryTamperingShows` | the last line of the log can lose its chain fields, be edited and hashed anew, or be deleted, and the log verifies, as nothing is chained to it yet (`audit.py:345-347, 371`). `TamperEvident` is what remains |
| `page_lost` | `EveryPagerTold` | a template `str.format` refuses raises out of `notify` after the dedup window was opened: the channels behind it hear nothing, and the next reports are suppressed (`notifications.py:164`). `FailurePaged` speaks of the pagers before such a template |

More statements of the documentation do not hold as they stand.  No run is spent on
them; the properties that are checked leave exactly these cases out, and say so:

* A drain reports success once its evictions are accepted (`executor.py:667-689`), so its
  node may still run what it evicted, for as long as the grace periods last, though
  "drained" should mean actually drained (`executor.py:645-647`).
  `DrainLeavesNoPodRunning` says what is true: every pod but a DaemonSet's is gone or
  terminating.
* `retry_after` waits for one hit to leave the window (`ratelimit.py:87`).  A key whose
  role was lowered may hold more than its new limit, and is refused again.  The body of
  the answer rounds to a tenth of a second, so its value may be half a tenth early.
* A claimed entry counts as processed (`main.py:237-239`): when newer ones fill the
  history, the save of its own claim drops it, and until its handler ends neither the
  history nor the audit log knows of it, though `main.py:194-196` says dropped entries
  are in the log.
* An append after one that left half a line joins it and is lost (`audit.py:198`);
  `InterruptionCostsOne` bounds the loss.  What an interrupted rotation deleted may be
  listed nowhere (`audit.py:233-248`); `RotationRecorded` speaks of logs no append of which
  was interrupted.
* A cooldown above 24 hours ends when another key is recorded (`cooldown.py:60-65`).
* A process that dies during an execution leaves no record of it, so its target is not
  cooling after the restart, though `cooldown.py:25-29` wants a restart not to reset the
  protection; `DirectOncePerWindow` counts executions known to have been attempted.
* When the audit log cannot be written the handler raises before it notifies
  (`main.py:562`), so `FailurePaged` speaks of calls that were answered with their outcome.

The modules show more behaviour of this kind when their constants are changed:
with `"crash"` an execution may be neither recorded nor audited (`AccountedFor`
and `BurstBounded` hold only without it), with `"disk"` a restart loses pending
approvals and may execute one again (`PendingKept`, `AtMostOnce`), a torn line
makes `verify_chain` report the file as broken, and a cached secret may be older
than its TTL by the time of one request (`StalenessBounded`).

## Proofs

TLC checks the instances above; these hold for all values of the constants
that satisfy the modules' assumptions.  Every invariant and every action property
of the passing runs is a theorem.

| Theorem | States | Besides the modules' assumptions |
|---|---|---|
| `ApprovalsProofs!TypeCorrect` | `[]TypeOK` of `Approvals` | |
| `ClaimsAreExclusive` | `[]SoleClaimant` | |
| `RestartLosesNothing` | `[]DiskIsCurrent` | disk |
| `RunsAtMostOnce` | `[]AtMostOnce`, over any number of crashes | disk |
| `ApprovedBySomeoneElse` | `[]ExecutedWasApproved` | disk |
| `HistoryStaysBounded` | `[]HistoryBounded` | |
| `DecisionsStand`, `PendingIsKept` | the action properties `DecisionStands`, `PendingKept` | disk |
| `ReCheckObeysEdits` | the action property `ReCheckIsCurrent`, under every fault | |
| `AuditIsTruthful` | `[]AuditTruthful` | disk |
| `ExecutionsAreAccounted` | `[]AccountedFor` | no crash, no failing append or write |
| `BurstsAreBounded` | `[]BurstBounded` | no crash; finitely many threads |
| `QueueImplementsWorkflow`, `QueueKeepsPromise` | `Spec => Workflow!Spec`, and the abstract `Promise` with it | disk |
| `CooldownProofs!TypeCorrect` | `[]TypeOK` of `Cooldown` | |
| `WindowIsExact` | `[]ExactWindow` | disk; no cooldown above the retention |
| `DequesAreBounded`, `LimitsHold`, `RefusalsAreFree`, `RetryAfterIsHonest` | `[]` of `RateLimiter`'s `TypeOK`, `LimitHolds`, `RefusedOnlyWhenFull`, `RetryAfterHonest`, for roles that change from call to call | |
| `HandlersImplementLimiter`, `HandlersKeepLimits` | `CallSpec => RateLimiter!Spec`, and the limiter's properties with it | |
| `GatesHoldForKnownKeys` | `CallSpec => []AdmittedWasAllowed` | |
| `SecretsAreScoped`, `DrainsAreComplete` | `[]SecretFilesScoped`, `[]DrainLeavesNoPodRunning` | |
| `AnnouncementsAreSpaced` | `[]AnnouncedOncePerWindow` | |
| `FailuresArePaged` | `[]FailurePaged` | the dedup window is not empty |
| `TrackerIsUsedAsSpecified` | `Remediation`'s `Spec => C!Spec`, `Cooldown`'s | |
| `CooldownsAreKept` | `[]DirectOncePerWindow` | disk; no cooldown above the retention |
| `TypesAreKept` | `[]TypeOK` of `Remediation` | |
| `LogIsWellFormed` | `[]TypeOK` of `AuditChain` | |
| `UntouchedLogVerifies`, `FilesAreOneSegment` | `[]UntouchedVerifies`, `[]NoBoundaryInside` | |
| `TamperingShows` | `[]TamperEvident`, for any bound on tamperings | |
| `InterruptionsCostOne`, `EntriesStayInOrder`, `RotationsAreRecorded` | `[]InterruptionCostsOne`, `[]InOrder`, `[]RotationRecorded` | |
| `LockIsHeldByLogin`, `LoginsAreShared`, `StalenessIsBounded` | `[]` of `VaultClient`'s `TypeOK`, `NoNeedlessLogin`, `StalenessBounded` | |
| `TokensOutliveRequests` | `[]TokenStillValid` | `BufferCovers` |

What the last column assumes.  *Disk*, `"disk" \notin Faults`: the file of the
queue, or of the cooldowns, can be written.  The code logs an OSError there and
goes on, and the statements are then false, as said above.  *No crash*: a crash
between an execution and its record or its audit entry leaves neither.  *No
cooldown above the retention*: `actions.yaml` may configure one, and it then ends
early.  *The dedup window*: 300 s by default; with `dedup_window_seconds: 0` an
answered failure was sent, but not less than a window ago, which is what the
property says.  `BufferCovers`: the buffer before a token's end is at least twice
the time a request is assumed to take, and no lease is so short that none of it is
left; the defaults are a buffer of 30 s and, for an answer in one piece, 10 s
(twice `timeout_seconds`), and Vault's leases are minutes or more.  Without it a
slow login or a short lease can spend the buffer. There are no bounds on threads,
keys, calls, writes, crashes or time; the constants that bound the runs
(`MaxWrites`, `MaxTime`, `MaxRestarts`) are arbitrary naturals here.

*Exclusive claims.*  `SoleClaimant` is not inductive: a second thread could claim
an entry a first one is executing if that entry were still pending.  `Claimed`
adds that the entry of every working thread is approved, and `LockInv` that at
most one thread is between taking `approval_lock` and its claim, for an entry that
is still pending.  So nobody works on the entry a `Claim` takes; a decision of
another thread needs a pending one, too, so it never changes the entry of a working thread;
a restart ends all threads.  This needs nothing of the disk.

*At most one execution.*  `RunInv` adds to that invariant that the file is
current, `Ready` (a thread about to execute works for an approval not executed
before, approved by somebody else) and `Spent` (no approval was executed twice,
none before it was requested, and what was executed and is still in the queue is
there as approved by another key).  A restart loads what was in
memory and drops the tickets, so an executed entry comes back approved, which no
handler executes.  `RunStays`, `RunStaysDeciding` and `RunOnce` are the three ways
a step can bear on it: not at all, by deciding an entry, by executing one.

*The queue as a workflow.*  `QueueMoves` says what any step may do to an entry
(`Transition`), which gives the three action properties; `Enter`, `Leave` and
`Advance` what it may do to a thread.  `GatesPassed` follows a handler through the
re-check: what it has passed, it passed in a version in `seen`.  The refinement
follows from the first two, with `Trimmed` (neither queue has an excess to prune,
so nothing pending is dropped) and `Fresh` (an id not handed out has a blank
entry): a stage changes when an entry does, a ticket is issued by `Claim`, used by
`Execute` and lost by a restart.

*The audit log's word.*  `ApprovedRan` follows a thread from `Execute` to `Audit`.
For the rejected, `Closed` is what makes it inductive: not executed, rejected or
gone from the queue, and nobody working on it; neither a claim nor a restart can
then bring it to execution.

*Bursts.*  `Engaged` are the approvals executed since the cooldown lapsed and those
about to be.  While the target is not cooling each is in a thread's hands
(`BurstHeld`), so they are at most as many as the threads; once it is, `Claim`
refuses and nobody joins.

*Exact window.*  The record in memory may be missing where the history has one
only if it is older than the retention, hence than any cooldown; so what the
tracker computes equals what remains.  The file has the same property, which is
what a restart, with whatever new configuration, needs.

*The limiter.*  `Recorded`: the admitted calls inside the window are exactly the
deque without its outdated front, and no deque is longer than the limit its newest
call was checked against (`allowed`), whatever limits came before and after.  The
lemmas on `Since` (a front is popped, the rest is sorted and later; popping twice
is popping once) carry it over a tick and a call.  The handlers of `Admission`
implement this specification because every step that touches the limiter is one of
its actions, for the role just read; `Gate` says which gates a call has passed at
each step, and under which of the configurations it saw.

*Executions.*  `Supplied`: each secret is in its file or still to be fetched.
`Emptied`: while a node stays closed, the pods on it that are not terminating are
on the drain's lists.  They are stated of one job and every value of the others,
so that a step of one execution disturbs no other.

*Notifications.*  `Spaced`: any two windows opened for a key in one life of the
process lie apart, and the time remembered for it is the last of this life.  A
stamp read before the lock may be old when it is compared; it is then smaller
than what is remembered, and suppressed.  `Paged` follows an answered failure to the
window it was told in, and to the channels reached there.

*Cooldowns of the whole system.*  `TrackerIsUsedAsSpecified` makes the tracker's
own invariant available (`Remembered`).  `Alone`: one direct call is at work at a
time, as the loop is blocked; `Charged`: what a finished call owes the tracker is
on its record.  From the two, a call that passes the look-up is a cooldown later
than all recorded before it (`Apart`).

*The chain.*  `Linked` describes an untouched file: lines older than the chain,
then entries that each continue the one before, the first from the genesis hash.
Verification and the absence of boundaries follow.  `Named` says how `swept`,
`recorded` and the first entry hang together within a rotation.  For tampering: in
a linked file whose entries ascend (`InOrder`) an entry in the place of an earlier
one continues no line before that place (`Misplaced`); an edited line that
verifies has another hash than the one the next line was chained to, or none, so
that the next line is an orphan (`Orphaned`, by `Genuine`: only lines of writes
have the numbers of writes); and a line that does not verify never does so again,
as a verdict depends on the lines up to it only (`SameBeginning`).  `Cost` counts
a half line as a loss to come, which makes `InterruptionCostsOne` inductive.

*Vault.*  `InTime` bounds every request by `RequestTime`, `Dated` relates what was
served and what is cached to when it was the newest, `Lasts` says how long a token
is good for at each step of a call.

The strengthened invariants were checked on the runs' instances before they were
proved.

Only model-checked: liveness (`ResultDelivered`, `EventuallyAudited`,
`EveryCallAnswered`), since the proof system does not treat fairness and ENABLED;
and the properties of the five runs that expect a violation, which are false.

## Not modelled

Replicas: see the plan.  The audit shipper and the read-only endpoints keep no
state worth a model; `discover_actions` lists directories at start.  Wording,
formats, quoting and HTTP codes are left out throughout, and payloads
are taken to be valid.  The `ValueError` of a malformed command template is among
the ways an execution may raise; that of a notification template is `Malformed`.
Whether a message arrives is outside: a channel that was called counts as told.
Clocks are monotonic: a wall clock that steps back is not modelled.  Entries of
`config/auth.yaml` are modelled for their effect (role, scope, grants).  Tampering is
with one line of the active file: whoever rewrites several lines, or the whole log
with new hashes, or an archive, is outside (`verify_chain` has no secret and no
anchor elsewhere, so a chain that was rewritten as a whole verifies).  That appends of
several threads exclude each other is taken from the chain's lock, not shown.
The time of a request to Vault is an assumption, as said above.

## Plan

Done: the core (`Approvals`, `Cooldown`, `RateLimiter`, `AuditChain`,
`VaultClient`), the call as a whole (`Admission`, `Executor`,
`Notifications`, `Remediation`), and the proofs of all invariants and action properties
of the passing runs.  Left:

1. The abstract promise of other components as a module of its own, in the way of
   `ApprovalWorkflow` (the log as an append-only sequence with losses, for
   `AuditChain`; a cache of bounded age, for `VaultClient`), with the refinement
   proved from the invariants that are there.
2. `Replicas`: two instances with state of their own behind one service.
3. A wall clock that steps back, under `Cooldown` and `RateLimiter`; tokens
   revoked in Vault before their lease ends.
