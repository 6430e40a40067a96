------------------------------ MODULE Executor ------------------------------
(***************************************************************************)
(* src/executor.py: what a call of ActionExecutor does between its start   *)
(* and its result, step by step, for several workers at once: a command on *)
(* this host (playbook, script, command), the same on a controller over    *)
(* ssh, or calls of a cluster's API: the several ones of drain_node, or    *)
(* the single one of any other kube_action.                                *)
(*                                                                         *)
(* The controller's shell and the cluster are modelled as far as the code  *)
(* depends on them: a remote command outlives a lost ssh connection, the   *)
(* scheduler puts no pod on a cordoned node, an eviction may be refused or *)
(* its answer lost, and an evicted pod is gone when it has terminated, not *)
(* when its eviction is accepted.                                          *)
(***************************************************************************)
EXTENDS Naturals, Sequences

CONSTANTS
  Workers,    \* threads that execute actions
  Targets,    \* what actions are aimed at
  Via,        \* how a target is reached: [Targets -> Vias]
  Vaulted,    \* secrets of its controller kept in Vault: [Targets -> sequence]
  Pods,       \* pods that may run on the node
  Daemons,    \* those of them owned by a DaemonSet
  Ids,        \* calls
  Faults      \* what may go wrong

Kube == {"drain", "cordon", "uncordon", "patch"}
Vias == {"local", "ssh", "none"} \cup Kube

VARIABLES
  job,          \* what each worker executes
  files,        \* temporary files: <<call, secret>>
  stuck,        \* history: files a failing unlink or a crash left behind
  running,      \* calls whose command runs, on this host or its controller
  schedulable,  \* the node is not cordoned
  pods,         \* pods on the node
  leaving       \* those of them being terminated: their eviction was accepted

vars == <<job, files, stuck, running, schedulable, pods, leaving>>
cluster == <<schedulable, pods, leaving>>

(* left: secrets still to fetch.  todo, failed: pods of a drain still to be *)
(* evicted, and those that were not.  held: history, nobody has uncordoned *)
(* the node since this drain cordoned it.                                  *)
NoJob == [step |-> "idle", id |-> 0, left |-> <<>>, outcome |-> "none",
          todo |-> {}, failed |-> {}, held |-> FALSE, target |-> "none"]

Init ==
  /\ job = [w \in Workers |-> NoJob]
  /\ files = {} /\ stuck = {} /\ running = {}
  /\ schedulable = TRUE /\ pods = Daemons /\ leaving = {}

-----------------------------------------------------------------------------
At(w, step) == job[w].step = step
Reach(w) == Via[job[w].target]
Goto(w, step) == job' = [job EXCEPT ![w].step = step]
End(w, outcome) == job' = [job EXCEPT ![w].step = "cleanup", ![w].outcome = outcome]
Own(w) == {f \in files : f[1] = job[w].id}

(* Refused at once: a missing parameter, host, ssh_user or verb is a         *)
(* failure, a malformed template (ValueError) raises.                      *)
Rejections == IF "config" \in Faults THEN {"failure", "raised"} ELSE {}

(* run_playbook, run_script, run_command, run_remote or run_kube_action is  *)
(* called.  A dry run only says what it would do.                          *)
Start(w, i, t, dry) ==
  /\ \E outcome \in Rejections \cup {IF dry THEN "success" ELSE "none"} :
       job' = [job EXCEPT ![w] = [NoJob EXCEPT
         !.id = i, !.target = t, !.outcome = outcome,
         !.left = IF outcome = "none" THEN Vaulted[t] ELSE <<>>,
         !.step = IF outcome = "none" THEN "secrets" ELSE "done"]]
  /\ UNCHANGED <<files, stuck, running, cluster>>

(* _resolve_secret_file: the next secret is fetched and written to a file. *)
Fetch(w) ==
  /\ At(w, "secrets") /\ job[w].left # <<>>
  /\ files' = files \cup {<<job[w].id, Head(job[w].left)>>}
  /\ job' = [job EXCEPT ![w].left = Tail(@)]
  /\ UNCHANGED <<stuck, running, cluster>>

(* Mutant: what was fetched before is left where it is.                    *)
FetchFailsKeeping(w) ==
  /\ "vault" \in Faults /\ At(w, "secrets") /\ job[w].left # <<>>
  /\ job' = [job EXCEPT ![w].step = "done", ![w].outcome = "failure"]
  /\ UNCHANGED <<files, stuck, running, cluster>>

(* Vault is unavailable, or the file cannot be written (then it is removed  *)
(* again, and run_remote, which only expects the former, raises).  What was *)
(* fetched before is cleaned up.                                           *)
FetchFails(w) ==
  /\ "vault" \in Faults /\ At(w, "secrets") /\ job[w].left # <<>>
  /\ \/ End(w, "failure")
     \/ Reach(w) = "ssh" /\ End(w, "raised")
  /\ UNCHANGED <<files, stuck, running, cluster>>

(* Every secret is in its file: the command is started ...                 *)
Launch(w) ==
  /\ At(w, "secrets") /\ job[w].left = <<>> /\ Reach(w) \in {"local", "ssh"}
  /\ running' = running \cup {job[w].id}
  /\ Goto(w, "waiting")
  /\ UNCHANGED <<files, stuck, cluster>>

(* ... or the client of the cluster's API is made.                         *)
Connect(w) ==
  /\ At(w, "secrets") /\ job[w].left = <<>> /\ Reach(w) \in Kube
  /\ Goto(w, IF Reach(w) = "drain" THEN "cordon" ELSE "patch")
  /\ UNCHANGED <<files, stuck, running, cluster>>

(* The kubeconfig or the token is unusable.                                *)
ConnectFails(w) ==
  /\ "config" \in Faults
  /\ At(w, "secrets") /\ job[w].left = <<>> /\ Reach(w) \in Kube
  /\ End(w, "failure")
  /\ UNCHANGED <<files, stuck, running, cluster>>

-----------------------------------------------------------------------------
(* The command ends by itself.                                             *)
Ends(w) ==
  /\ At(w, "waiting") /\ job[w].id \in running
  /\ running' = running \ {job[w].id}
  /\ End(w, "success") \/ End(w, "failure")
  /\ UNCHANGED <<files, stuck, cluster>>

(* Exit code 255 of ssh: the connection failed or broke.                   *)
ConnectionLost(w) ==
  /\ "ssh" \in Faults /\ At(w, "waiting") /\ Reach(w) = "ssh"
  /\ running' \in {running, running \ {job[w].id}}
  /\ End(w, "failure")
  /\ UNCHANGED <<files, stuck, cluster>>

(* Mutant: no timeout is given, so a command that hangs is waited for.     *)
NeverTimesOut(w) == FALSE /\ UNCHANGED vars

(* timeout=600: the child is killed, and with ssh the child is not the      *)
(* command.                                                                *)
TimesOut(w) ==
  /\ At(w, "waiting")
  /\ running' = IF Reach(w) = "ssh" THEN running ELSE running \ {job[w].id}
  /\ End(w, "failure")
  /\ UNCHANGED <<files, stuck, cluster>>

-----------------------------------------------------------------------------
(* The first two calls of a drain: the node is cordoned, ...               *)
Cordon(w) ==
  /\ At(w, "cordon")
  /\ schedulable' = FALSE
  /\ job' = [job EXCEPT ![w].step = "list", ![w].held = TRUE]
  /\ UNCHANGED <<files, stuck, running, pods, leaving>>

(* ... then its pods are listed; those of DaemonSets are skipped.          *)
List(w) ==
  /\ At(w, "list")
  /\ job' = [job EXCEPT ![w].step = "evict", ![w].todo = pods \ Daemons]
  /\ UNCHANGED <<files, stuck, running, cluster>>

(* One eviction: accepted, which starts the pod's termination ...          *)
Evict(w, p) ==
  /\ At(w, "evict") /\ p \in job[w].todo /\ p \in pods
  /\ leaving' = leaving \cup {p}
  /\ job' = [job EXCEPT ![w].todo = @ \ {p}]
  /\ UNCHANGED <<files, stuck, running, schedulable, pods>>

(* Mutant: a pod that was refused is left out of the report.               *)
RefuseSilently(w, p) ==
  /\ At(w, "evict") /\ p \in job[w].todo
  /\ "api" \in Faults \/ p \notin pods
  /\ leaving' \in {leaving, leaving \cup ({p} \cap pods)}
  /\ job' = [job EXCEPT ![w].todo = @ \ {p}]
  /\ UNCHANGED <<files, stuck, running, schedulable, pods>>

(* ... or answered by an error: a disruption budget, a pod that is gone     *)
(* (404), or a server that gave up after it had done what was asked.       *)
Refuse(w, p) ==
  /\ At(w, "evict") /\ p \in job[w].todo
  /\ "api" \in Faults \/ p \notin pods
  /\ leaving' \in {leaving, leaving \cup ({p} \cap pods)}
  /\ job' = [job EXCEPT ![w].todo = @ \ {p}, ![w].failed = @ \cup {p}]
  /\ UNCHANGED <<files, stuck, running, schedulable, pods>>

(* Every pod was tried; nobody waits for those accepted to be gone.        *)
Drained(w) ==
  /\ At(w, "evict") /\ job[w].todo = {}
  /\ End(w, IF job[w].failed = {} THEN "success" ELSE "failure")
  /\ UNCHANGED <<files, stuck, running, cluster>>

(* cordon_node and uncordon_node; the latter opens the node other workers   *)
(* are draining.                                                           *)
SetSchedulable(w) ==
  /\ schedulable' = (Reach(w) = "uncordon")
  /\ job' = [v \in Workers |->
       IF v = w THEN [job[w] EXCEPT !.step = "cleanup", !.outcome = "success"]
       ELSE [job[v] EXCEPT !.held = @ /\ ~schedulable']]
  /\ UNCHANGED <<files, stuck, running, pods, leaving>>
PatchNode(w) == At(w, "patch") /\ Reach(w) \in {"cordon", "uncordon"} /\ SetSchedulable(w)

(* rollout_restart, delete_pod, scale, patch_configmap: one call that       *)
(* touches nothing modelled here, unless its resource is not supported.    *)
Patch(w) ==
  /\ At(w, "patch") /\ Reach(w) = "patch"
  /\ \/ End(w, "success")
     \/ "config" \in Faults /\ End(w, "failure")
  /\ UNCHANGED <<files, stuck, running, cluster>>

(* An API error of any call but an eviction, or a broken connection, ends   *)
(* the action where it is.                                                 *)
ApiFails(w) ==
  /\ "api" \in Faults /\ job[w].step \in {"cordon", "list", "evict", "patch"}
  /\ End(w, "failure")
  /\ UNCHANGED <<files, stuck, running, cluster>>

(* The same, after the call was carried out.                               *)
AnswerLost(w) ==
  /\ "api" \in Faults
  /\ \/ At(w, "cordon") /\ schedulable' = FALSE /\ UNCHANGED leaving
     \/ At(w, "evict") /\ UNCHANGED schedulable
          /\ \E p \in job[w].todo \cap pods : leaving' = leaving \cup {p}
     \/ At(w, "patch") /\ Reach(w) \in {"cordon", "uncordon"}
          /\ schedulable' = (Reach(w) = "uncordon") /\ UNCHANGED leaving
  /\ job' = [v \in Workers |->
       IF v = w THEN [job[w] EXCEPT !.step = "cleanup", !.outcome = "failure"]
       ELSE [job[v] EXCEPT !.held = @ /\ ~(Reach(w) = "uncordon")]]
  /\ UNCHANGED <<files, stuck, running, pods>>

-----------------------------------------------------------------------------
(* The finally block: the files are removed, as far as they can be.        *)
Cleanup(w) ==
  /\ At(w, "cleanup")
  /\ \E left \in SUBSET Own(w) :
       /\ "unlink" \in Faults \/ left = {}
       /\ files' = (files \ Own(w)) \cup left
       /\ stuck' = stuck \cup left
  /\ Goto(w, "done")
  /\ UNCHANGED <<running, cluster>>

(* The caller takes the result.                                            *)
Release(w) ==
  /\ At(w, "done")
  /\ job' = [job EXCEPT ![w] = NoJob]
  /\ UNCHANGED <<files, stuck, running, cluster>>

(* The process dies: files stay, and so do commands on other hosts.        *)
Die ==
  /\ job' = [w \in Workers |-> NoJob]
  /\ stuck' = files
  /\ running' = {i \in running : \A w \in Workers :
                   job[w].id = i => Reach(w) = "ssh"}
  /\ UNCHANGED <<files, cluster>>

(* What the program does on its own, or after a time at the latest.        *)
Proceed(w) ==
  \/ Fetch(w) \/ FetchFails(w) \/ Launch(w) \/ Connect(w) \/ ConnectFails(w)
  \/ TimesOut(w) \/ ConnectionLost(w) \/ Drained(w) \/ Cleanup(w)

(* Calls of the cluster's API, which carry no timeout.                     *)
Answers(w) ==
  \/ Cordon(w) \/ List(w) \/ (\E p \in Pods : Evict(w, p) \/ Refuse(w, p))
  \/ PatchNode(w) \/ Patch(w) \/ ApiFails(w) \/ AnswerLost(w)
AwaitsAnswer(w) ==
  job[w].step \in {"cordon", "list", "patch"} \/ (At(w, "evict") /\ job[w].todo # {})

(* A command nobody waits for any more ends.                               *)
AbandonedEnds(i) ==
  /\ i \in running /\ \A w \in Workers : job[w].id # i
  /\ running' = running \ {i}
  /\ UNCHANGED <<job, files, stuck, cluster>>

(* The scheduler places a pod; a pod ends by itself.                       *)
PodLands(p) ==
  /\ p \notin pods /\ (schedulable \/ p \in Daemons)
  /\ pods' = pods \cup {p}
  /\ UNCHANGED <<job, files, stuck, running, schedulable, leaving>>
PodLeaves(p) ==
  /\ p \in pods
  /\ pods' = pods \ {p} /\ leaving' = leaving \ {p}
  /\ UNCHANGED <<job, files, stuck, running, schedulable>>

PodsMove == \E p \in Pods : PodLands(p) \/ PodLeaves(p)
-----------------------------------------------------------------------------
Steps == {"idle", "secrets", "waiting", "cordon", "list", "evict", "patch",
          "cleanup", "done"}
Using == {"waiting", "cordon", "list", "evict", "patch"}

(* Types; a job has an outcome once it is over (executor.py:39-61).        *)
TypeOK ==
  /\ \A w \in Workers : job[w].step \in Steps /\ job[w].id \in Ids \cup {0}
       /\ job[w].todo \subseteq Pods \ Daemons /\ job[w].failed \subseteq Pods \ Daemons
       /\ (job[w].step \in {"cleanup", "done"}) = (job[w].outcome # "none")
  /\ stuck \subseteq files /\ running \subseteq Ids
  /\ leaving \subseteq pods /\ pods \subseteq Pods /\ schedulable \in BOOLEAN

(* A secret's file is there as long as the command or the API client that   *)
(* was given its path is at work, and gone when the result is returned,    *)
(* whichever way the call ended, unless the removal itself failed or the   *)
(* process died (executor.py:195-224, 345-350, 374-428, 543-548).          *)
SecretFilesScoped ==
  /\ \A w \in Workers : job[w].step \in Using =>
       \A n \in DOMAIN Vaulted[job[w].target] :
         <<job[w].id, Vaulted[job[w].target][n]>> \in files
  /\ \A f \in files \ stuck :
       \E w \in Workers : job[w].id = f[1] /\ ~At(w, "done")

DrainSucceeded(w) ==
  /\ At(w, "done") /\ Via[job[w].target] = "drain" /\ job[w].outcome = "success"
  /\ job[w].held

(* When a drain reports success, every pod but a DaemonSet's that is on the *)
(* node is being terminated, also one that was placed while the drain was  *)
(* under way, or whose first eviction was another drain's, unless somebody *)
(* uncordoned the node meanwhile (executor.py:649-689).  It may still be   *)
(* there: nobody waits for evicted pods, whatever executor.py:645-647 says *)
(* of "actually drained".                                                  *)
DrainLeavesNoPodRunning == \A w \in Workers : DrainSucceeded(w) => pods \ leaving \subseteq Daemons
=============================================================================
