----------------------------- MODULE Remediation -----------------------------
(***************************************************************************)
(* An admitted call, from its arrival to its answer: cooldown, execution,  *)
(* record, audit, notification (main.py:522-582, 804-883).  A direct       *)
(* /webhook call does all of it on the event loop, without a single await, *)
(* so one excludes every other and the arrival of anything else; approved  *)
(* calls enter through the loop, too, but run on threads.  Composes        *)
(* Cooldown, Executor and Notifications; who may call is in Admission,     *)
(* what approving does to the queue in Approvals.                          *)
(***************************************************************************)
EXTENDS Integers, Sequences, FiniteSets

CONSTANTS
  Targets,       \* cooldown keys
  Never, Configs, Retention, MaxTime,          \* see Cooldown
  Via, Vaulted, Pods, Daemons,                 \* see Executor
  Topic,         \* action:controller of a target: [Targets -> Topics]
  Severity,      \* severity its action declares: [Topics -> Severities]
  Channels, Place, Malformed, NotifyOn, Routing, NoRouting, Window,
                                                    \* see Notifications
  Pagers,        \* channels meant to get every failure
  Threads,       \* size of the thread pool
  Ids,           \* calls, in the order they arrive
  Workloads,     \* what may be asked: calls, and when the clock stops
  MaxRestarts,   \* bound
  Faults         \* those of Cooldown, of Executor, and "audit"

Topics == {Topic[t] : t \in Targets}

ASSUME WorkloadAssumption ==
  /\ Ids = 1 .. Cardinality(Ids)
  /\ \A l \in Workloads :
       /\ l.until \in 0 .. MaxTime
       /\ DOMAIN l.calls \subseteq Ids
       /\ \A i \in DOMAIN l.calls : l.calls[i].direct \in BOOLEAN
            /\ l.calls[i].target \in Targets /\ l.calls[i].dry \in BOOLEAN
ASSUME TrackerAssumption ==
  /\ Retention \in Nat /\ MaxTime \in Nat /\ Never \notin Int
  /\ Configs \subseteq [Targets -> Nat]

Secrets == UNION {{Vaulted[t][n] : n \in DOMAIN Vaulted[t]} : t \in Targets}

ASSUME ActionAssumption ==
  /\ Vaulted \in [Targets -> Seq(Secrets)] /\ Daemons \subseteq Pods
  /\ Severity \in [Topics -> {"info", "warning", "critical"}]
  /\ Window \in Nat /\ Pagers \subseteq Channels
  /\ Place \in [Channels -> Nat] /\ Malformed \subseteq Channels
ASSUME PagerAssumption ==
  \A c \in Pagers : /\ "failure" \in NotifyOn[c]
                    /\ Routing = NoRouting
                         \/ c \in Routing["warning"] \cap Routing["critical"]

VARIABLES
  now,                                                 \* the clock
  seconds, lastRun, file, ran,                         \* Cooldown
  job, files, stuck, running, schedulable, pods,
  leaving,                                             \* Executor
  seen, note, attempts,                                \* Notifications
  load,                                                \* the workload
  call,                                                \* where each call is
  life                                                 \* starts of the process

tracker == <<seconds, lastRun, file, ran>>
execution == <<job, files, stuck, running, schedulable, pods, leaving>>
reports == <<seen, note, attempts>>
vars == <<now, tracker, execution, reports, load, call, life>>

C == INSTANCE Cooldown WITH Faults <- Faults \cap {"crash", "disk"}
E == INSTANCE Executor WITH Workers <- Ids
N == INSTANCE Notifications WITH Workers <- Ids

(* from: when its execution was started; recorded: when the cooldown was;  *)
(* told: when its outcome was reported; life: the start that received it.  *)
NotYet == [at |-> "new", outcome |-> "none", from |-> Never, recorded |-> Never,
           told |-> Never, life |-> 0]

Init ==
  /\ C!Init /\ E!Init /\ N!Init
  /\ load \in Workloads
  /\ call = [i \in Ids |-> NotYet]
  /\ life = 1

-----------------------------------------------------------------------------
Asked(i) == load.calls[i]
At(i, step) == call[i].at = step
Move(i, step) == call' = [call EXCEPT ![i].at = step]
Answer(i, outcome) == call' = [call EXCEPT ![i].at = "answered", ![i].outcome = outcome]
Over(i) == call[i].at \in {"answered", "cut"}
InHand(i) == call[i].at \notin {"new", "waiting", "answered", "cut"}

(* Cooldowns are for real runs of actions that configure one.              *)
Guarded(i) == ~Asked(i).dry /\ seconds[Asked(i).target] > 0
Blocked(i) == Guarded(i) /\ C!Remaining(Asked(i).target) > 0

(* A request reaches the server's socket.                                  *)
Arrive(i) ==
  /\ i \in DOMAIN load.calls /\ At(i, "new")
  /\ \A j \in Ids : j < i => ~At(j, "new")
  /\ call' = [call EXCEPT ![i].at = "waiting", ![i].life = life]
  /\ UNCHANGED <<now, tracker, execution, reports, load, life>>

(* Mutant: direct calls run on threads, as approved ones do.               *)
LoopAlwaysFree == TRUE

(* The loop is free unless a direct call is at work on it.                 *)
LoopFree == \A i \in DOMAIN load.calls : Asked(i).direct => ~InHand(i)

(* The loop takes a request: the middleware runs, then the handler does, on *)
(* the loop itself or on a thread.                                         *)
Enter(i) ==
  /\ At(i, "waiting") /\ LoopFree
  /\ Asked(i).direct
       \/ Cardinality({j \in DOMAIN load.calls : ~Asked(j).direct /\ InHand(j)}) < Threads
  /\ Move(i, "check")
  /\ UNCHANGED <<now, tracker, execution, reports, load, life>>

(* The cooldown blocks the call: audited, answered with 409.               *)
Refuse(i) ==
  /\ At(i, "check") /\ Blocked(i)
  /\ \/ Answer(i, "blocked")
     \/ "audit" \in Faults /\ Answer(i, "raised")
  /\ UNCHANGED <<now, tracker, execution, reports, load, life>>

(* execute_action is called; there may be nothing to execute.              *)
Begin(i) ==
  /\ At(i, "check") /\ ~Blocked(i) /\ Via[Asked(i).target] # "none"
  /\ E!Start(i, i, Asked(i).target, Asked(i).dry)
  /\ call' = [call EXCEPT ![i].at = "execute", ![i].from = now]
  /\ UNCHANGED <<now, tracker, reports, load, life>>

NoExecutable(i) ==
  /\ At(i, "check") /\ ~Blocked(i) /\ Via[Asked(i).target] = "none"
  /\ Answer(i, "none")
  /\ UNCHANGED <<now, tracker, execution, reports, load, life>>

Execute(i) == E!Proceed(i) /\ UNCHANGED <<now, tracker, reports, load, call, life>>
CommandEnds(i) == E!Ends(i) /\ UNCHANGED <<now, tracker, reports, load, call, life>>
ClusterAnswers(i) == E!Answers(i) /\ UNCHANGED <<now, tracker, reports, load, call, life>>

(* The result is there.  What raised is answered with 500 and leaves no     *)
(* record of any kind.                                                     *)
Collect(i) ==
  /\ At(i, "execute") /\ E!At(i, "done")
  /\ E!Release(i)
  /\ call' = [call EXCEPT ![i].outcome = job[i].outcome,
       ![i].at = IF job[i].outcome = "raised" THEN "answered"
                 ELSE IF Guarded(i) THEN "record" ELSE "audit"]
  /\ UNCHANGED <<now, tracker, reports, load, life>>

(* cooldown_tracker.record: success or failure.                            *)
Record(i) ==
  /\ At(i, "record")
  /\ C!Record(Asked(i).target)
  /\ call' = [call EXCEPT ![i].at = "audit", ![i].recorded = now]
  /\ UNCHANGED <<execution, reports, load, life>>

(* The log is written; if that raises, nobody is notified.                 *)
Audit(i) ==
  /\ At(i, "audit")
  /\ \/ Move(i, "notify")
     \/ "audit" \in Faults /\ Answer(i, "raised")
  /\ UNCHANGED <<now, tracker, execution, reports, load, life>>

Report(i) ==
  LET topic == Topic[Asked(i).target] IN
  /\ At(i, "notify")
  /\ N!Notify(i, i, topic, call[i].outcome, Severity[topic])
  /\ call' = [call EXCEPT ![i].at = "sending", ![i].told = now]
  /\ UNCHANGED <<tracker, execution, load, life>>

(* notify goes on; when it returns the call is answered, and when it raises *)
(* it is, too, by an error.                                                *)
Dispatch(i) ==
  /\ At(i, "sending")
  /\ N!Proceed(i)
  /\ call' = [call EXCEPT ![i].at = IF note'[i].step = "idle" THEN "answered" ELSE @]
  /\ UNCHANGED <<tracker, execution, load, life>>

(* What the program does of its own accord.                                *)
Serve(i) ==
  \/ Refuse(i) \/ Begin(i) \/ NoExecutable(i) \/ Execute(i) \/ Collect(i)
  \/ Record(i) \/ Audit(i) \/ Report(i) \/ Dispatch(i)

-----------------------------------------------------------------------------
(* The process dies and starts again, with the calls cut off.              *)
Restart ==
  /\ life <= MaxRestarts
  /\ life' = life + 1
  /\ C!Restart /\ E!Die /\ N!Forget
  /\ call' = [i \in Ids |-> IF At(i, "new") \/ Over(i) THEN call[i]
                            ELSE [call[i] EXCEPT !.at = "cut"]]
  /\ UNCHANGED load

Tick ==
  /\ now < load.until
  /\ C!Tick
  /\ UNCHANGED <<execution, reports, load, call, life>>

(* Commands left behind end; the cluster moves, as far as calls look at it. *)
World ==
  /\ \/ \E i \in Ids : E!AbandonedEnds(i)
     \/ (\E i \in DOMAIN load.calls : Via[Asked(i).target] = "drain") /\ E!PodsMove
  /\ UNCHANGED <<now, tracker, reports, load, call, life>>

Next ==
  \/ \E i \in Ids : Arrive(i) \/ Enter(i) \/ Serve(i) \/ CommandEnds(i) \/ ClusterAnswers(i)
  \/ Restart \/ Tick \/ World

Spec == Init /\ [][Next]_vars

(* The loop takes what waits, and code that can go on does: what it waits   *)
(* for has a timeout in the program (commands, ssh, Vault, channels).  The *)
(* calls of the cluster's API have none, and nothing is assumed of them.   *)
Fairness == \A i \in Ids : WF_vars(Enter(i)) /\ WF_vars(Serve(i))
FairSpec == Spec /\ Fairness

-----------------------------------------------------------------------------
(* Types of the three components and of the calls; a call in hand is of     *)
(* this life, and works on what its step says (main.py:522-582).           *)
TypeOK ==
  /\ C!TypeOK /\ E!TypeOK /\ N!TypeOK
  /\ \A i \in Ids :
       /\ InHand(i) => call[i].life = life
       /\ At(i, "execute") = ~E!At(i, "idle")
       /\ At(i, "sending") = (note[i].step # "idle")

(* An execution known to have been attempted: not one cut off by a crash,   *)
(* nor one that raised before anything was run.                            *)
Attempted(i) ==
  /\ call[i].from # Never
  /\ \/ call[i].recorded # Never
     \/ call[i].life = life /\ call[i].outcome # "raised"

(* Direct calls keep to the cooldown: of two executions of a target one     *)
(* starts only when cooldown_seconds have passed since the other ended,    *)
(* however many callers ask at once and over restarts, though look-up and  *)
(* record are two calls of the tracker (main.py:522-548).                  *)
DirectOncePerWindow ==
  \A i, j \in DOMAIN load.calls :
    /\ i # j /\ Asked(i) = Asked(j) /\ Asked(i).direct /\ Guarded(i)
    /\ Attempted(i) /\ Attempted(j) /\ call[j].life = life
    => LET After(a, b) == call[a].recorded # Never
             /\ call[b].from - call[a].recorded >= seconds[Asked(i).target]
       IN After(i, j) \/ After(j, i)

(* See Executor (executor.py:195-224, 345-350, 374-428, 543-548).          *)
SecretFilesScoped == E!SecretFilesScoped

(* See Executor (executor.py:649-689).                                     *)
DrainLeavesNoPodRunning == E!DrainLeavesNoPodRunning

(* Within one life, the same outcome of the same topic is not sent twice    *)
(* within the dedup window, however many report at once and in whatever    *)
(* order they reach the lock (notifications.py:142-151, 185-189).          *)
AnnouncedOncePerWindow ==
  \A a, b \in attempts :
    a.id # b.id /\ a.key = b.key /\ call[a.id].life = call[b.id].life
      => a.stamp - b.stamp >= Window \/ b.stamp - a.stamp >= Window

(* A failure of call i's topic, told less than a window before it or later, *)
(* was sent to the channels cs, or is about to be.                         *)
Told(i, cs) ==
  LET key == <<Topic[Asked(i).target], "failure">>
      Fresh(stamp) == call[i].told - stamp < Window
  IN \/ \E a \in attempts : a.key = key /\ cs \subseteq a.channels
          /\ call[a.id].life = life /\ Fresh(a.stamp)
     \/ \E j \in Ids : note[j].step = "send" /\ note[j].key = key /\ Fresh(note[j].stamp)

AnsweredFailure(i) == At(i, "answered") /\ call[i].outcome = "failure" /\ call[i].life = life

(* No failure goes unheard: once a failed call is answered, it was sent to  *)
(* the pagers, or suppressed by one of its topic that was or is about to   *)
(* be, as far as no malformed template comes before them                   *)
(* (notifications.py:129-156, 185-209).                                    *)
FailurePaged == \A i \in DOMAIN load.calls : AnsweredFailure(i) => Told(i, Pagers \cap N!Reached)

(* ... and notify, which calls every channel routed to, never raises        *)
(* (notifications.py:178-183; violated by a malformed template: what is    *)
(* behind it hears nothing, though the window is open).                    *)
EveryPagerTold == \A i \in DOMAIN load.calls : AnsweredFailure(i) => Told(i, Pagers)

(* Call i waits for calls of the cluster's API: that of a direct call on    *)
(* the loop, or those that hold every thread.                              *)
Behind(i) ==
  /\ At(i, "waiting")
  /\ \/ \E j \in DOMAIN load.calls : Asked(j).direct /\ E!AwaitsAnswer(j)
     \/ /\ ~Asked(i).direct
        /\ Cardinality({j \in DOMAIN load.calls : ~Asked(j).direct /\ E!AwaitsAnswer(j)}) = Threads

(* Every request is answered, also behind commands that hang on the event   *)
(* loop, unless the process dies; only calls of the cluster's API can keep *)
(* one waiting: its own, that of a direct call on the loop, or those that  *)
(* hold every thread (main.py:537, executor.py:90, 317, 651-670).          *)
EveryCallAnswered ==
  <>[](\A i \in Ids : At(i, "new") \/ Over(i) \/ E!AwaitsAnswer(i) \/ Behind(i))
=============================================================================
