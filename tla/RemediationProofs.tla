------------------------- MODULE RemediationProofs -------------------------
(* A remediation from call to answer, for any number of calls, targets,     *)
(* secrets and pods.                                                       *)
EXTENDS Remediation, TLAPS

(***************************************************************************)
(* Executions.                                                             *)
(***************************************************************************)
Outcomes == {"none", "success", "failure", "raised"}
Evictable == SUBSET (Pods \ Daemons)
Jobs == [step: E!Steps, id: Ids \cup {0}, left: Seq(Secrets), outcome: Outcomes,
         todo: Evictable, failed: Evictable, held: BOOLEAN, target: Targets \cup {"none"}]

(* What the job of call i is like, by its step.                             *)
Fits(i, j) ==
  /\ j \in Jobs
  /\ j.step # "idle" => j.id = i /\ j.target \in Targets
  /\ j.step \in {"cleanup", "done"} <=> j.outcome # "none"
  /\ j.step \in {"cordon", "list", "evict"} => Via[j.target] = "drain"
  /\ j.held => j.step \in {"list", "evict", "cleanup", "done"}

(* A secret is in its file, or still to be fetched.                         *)
Supplied(i, j, fs) ==
  /\ j.step = "secrets" => \A n \in DOMAIN Vaulted[j.target] :
       \/ <<i, Vaulted[j.target][n]>> \in fs
       \/ \E m \in DOMAIN j.left : j.left[m] = Vaulted[j.target][n]
  /\ j.step \in E!Using => \A n \in DOMAIN Vaulted[j.target] : <<i, Vaulted[j.target][n]>> \in fs

(* As long as nobody opens the node a drain has cordoned, the pods ps that  *)
(* stay on it are on the drain's lists.                                    *)
Emptied(j, open, ps) ==
  j.held =>
    /\ ~open
    /\ j.step = "evict" => ps \ Daemons \subseteq j.todo \cup j.failed
    /\ j.step \in {"cleanup", "done"} /\ Via[j.target] = "drain" /\ j.outcome = "success"
         => ps \subseteq Daemons

ExecInv ==
  /\ job \in [Ids -> Jobs] /\ running \subseteq Ids
  /\ files \subseteq Ids \X Secrets /\ stuck \subseteq files
  /\ leaving \subseteq pods /\ pods \subseteq Pods /\ schedulable \in BOOLEAN
  /\ \A i \in Ids : Fits(i, job[i]) /\ Supplied(i, job[i], files)
                      /\ Emptied(job[i], schedulable, pods \ leaving)
  /\ \A f \in files \ stuck : job[f[1]].step \notin {"idle", "done"}
  /\ \A f \in stuck : job[f[1]].step \in {"idle", "done"}

(* What remains of a job that no longer holds its node.                     *)
LEMMA LetGo ==
  ASSUME NEW r \in Jobs, NEW q, q = r \/ q = [r EXCEPT !.held = FALSE]
  PROVE  /\ q \in Jobs /\ q.step = r.step /\ q.id = r.id /\ q.left = r.left /\ q.outcome = r.outcome
         /\ q.todo = r.todo /\ q.failed = r.failed /\ q.target = r.target
         /\ q.held \in {r.held, FALSE}
<1>1. CASE q = r
  BY <1>1
<1>2. CASE q = [r EXCEPT !.held = FALSE]
  BY <1>2 DEF Jobs
<1> QED BY <1>1, <1>2

(* One worker's step: its job becomes j, its files may change, the node may *)
(* be cordoned or opened, pods may begin to leave.  Whoever is draining      *)
(* learns when it is opened.                                               *)
LEMMA OneJob ==
  ASSUME ExecInv, NEW i \in Ids, NEW j,
         job' \in [Ids -> Jobs], job'[i] = j,
         \A v \in Ids \ {i} : job'[v] = job[v] \/ job'[v] = [job[v] EXCEPT !.held = FALSE],
         schedulable' \in BOOLEAN, pods' = pods,
         leaving \subseteq leaving', leaving' \subseteq pods, running' \subseteq Ids,
         schedulable' => schedulable \/ \A v \in Ids \ {i} : ~job'[v].held,
         files' \subseteq Ids \X Secrets, stuck' \subseteq files',
         \A f \in files : f[1] # i => f \in files',
         \A f \in files' \ stuck' : f[1] # i => f \in files \ stuck,
         \A f \in files' \ stuck' : f[1] = i => j.step \notin {"idle", "done"},
         \A f \in stuck' : f[1] # i => f \in stuck,
         \A f \in stuck' : f[1] = i => j.step \in {"idle", "done"},
         Fits(i, j), Supplied(i, j, files'), Emptied(j, schedulable', pods' \ leaving')
  PROVE  ExecInv'
<1>1. ASSUME NEW v \in Ids \ {i}
      PROVE  /\ job'[v].step = job[v].step
             /\ Fits(v, job'[v]) /\ Supplied(v, job'[v], files')
             /\ Emptied(job'[v], schedulable', pods' \ leaving')
  <2>1. PICK r \in Jobs : r = job[v]
    BY DEF ExecInv
  <2>2. PICK q : q = job'[v]
    OBVIOUS
  <2>3. Fits(v, r) /\ Supplied(v, r, files) /\ Emptied(r, schedulable, pods \ leaving)
    BY <2>1 DEF ExecInv
  <2>4. /\ q \in Jobs /\ q.step = r.step /\ q.id = r.id /\ q.left = r.left /\ q.outcome = r.outcome
        /\ q.todo = r.todo /\ q.failed = r.failed /\ q.target = r.target
        /\ q.held \in {r.held, FALSE}
    <3>1. q = r \/ q = [r EXCEPT !.held = FALSE]
      BY <2>1, <2>2
    <3> QED BY <3>1, LetGo
  <2>5. schedulable' => schedulable \/ ~q.held
    BY <2>2
  <2>6. Fits(v, q)
    BY <2>3, <2>4 DEF Fits
  <2>7. Supplied(v, q, files')
    BY <2>3, <2>4 DEF Supplied
  <2>8. Emptied(q, schedulable', pods' \ leaving')
    BY <2>3, <2>4, <2>5 DEF Emptied
  <2> QED BY <2>1, <2>2, <2>4, <2>6, <2>7, <2>8
<1>2. ASSUME NEW f \in files' \ stuck' PROVE job'[f[1]].step \notin {"idle", "done"}
  <2>1. CASE f[1] = i
    BY <2>1
  <2>2. CASE f[1] # i
    <3>1. f \in files \ stuck /\ f[1] \in Ids \ {i}
      BY <2>2
    <3>2. job[f[1]].step \notin {"idle", "done"}
      BY <3>1 DEF ExecInv
    <3> QED BY <1>1, <3>1, <3>2
  <2> QED BY <2>1, <2>2
<1>5. ASSUME NEW f \in stuck' PROVE job'[f[1]].step \in {"idle", "done"}
  <2>1. CASE f[1] = i
    BY <2>1
  <2>2. CASE f[1] # i
    <3>1. f \in stuck /\ f[1] \in Ids \ {i}
      BY <2>2
    <3>2. job[f[1]].step \in {"idle", "done"}
      BY <3>1 DEF ExecInv
    <3> QED BY <1>1, <3>1, <3>2
  <2> QED BY <2>1, <2>2
<1>3. leaving' \subseteq pods' /\ pods' \subseteq Pods
  BY DEF ExecInv
<1>4. \A v \in Ids : Fits(v, job'[v]) /\ Supplied(v, job'[v], files') /\ Emptied(job'[v], schedulable', pods' \ leaving')
  BY <1>1
<1> QED BY <1>2, <1>3, <1>4, <1>5 DEF ExecInv

(* The same, when only the job changes.                                     *)
LEMMA JobOnly ==
  ASSUME ExecInv, NEW i \in Ids, NEW j, job' = [job EXCEPT ![i] = j],
         UNCHANGED <<files, stuck, schedulable, pods, leaving>>, running' \subseteq Ids,
         j.step \in {"idle", "done"} => job[i].step \in {"idle", "done"},
         job[i].step \in {"idle", "done"} =>
           j.step \in {"idle", "done"} \/ \A f \in files : f[1] # i,
         Fits(i, j), Supplied(i, j, files), Emptied(j, schedulable, pods \ leaving)
  PROVE  ExecInv'
<1>1. /\ job' \in [Ids -> Jobs] /\ job'[i] = j
      /\ \A v \in Ids \ {i} : job'[v] = job[v]
  BY DEF ExecInv, Fits
<1>2. \A f \in files' \ stuck' : f[1] = i => j.step \notin {"idle", "done"}
  BY DEF ExecInv
<1>4. \A f \in stuck' : f[1] = i => j.step \in {"idle", "done"}
  BY DEF ExecInv
<1>3. /\ files' = files /\ stuck' = stuck /\ schedulable' = schedulable
      /\ pods' = pods /\ leaving' = leaving /\ leaving \subseteq pods
      /\ schedulable' \in BOOLEAN /\ files' \subseteq Ids \X Secrets /\ stuck' \subseteq files'
  BY DEF ExecInv
<1>5. Supplied(i, j, files') /\ Emptied(j, schedulable', pods' \ leaving')
  BY <1>3
<1>6. /\ \A f \in files : f[1] # i => f \in files'
      /\ \A f \in files' \ stuck' : f[1] # i => f \in files \ stuck
      /\ \A f \in stuck' : f[1] # i => f \in stuck
      /\ (schedulable' => schedulable) /\ leaving \subseteq leaving' /\ leaving' \subseteq pods
  BY <1>3
<1> QED BY <1>1, <1>2, <1>3, <1>4, <1>5, <1>6, OneJob

(* A call that ends, with its node as it was, unless it reports a drain.    *)
LEMMA EndKeeps ==
  ASSUME ExecInv, NEW i \in Ids, NEW o \in Outcomes \ {"none"}, E!End(i, o),
         UNCHANGED <<files, stuck, schedulable, pods, leaving>>, running' \subseteq Ids,
         job[i].step \notin {"idle", "cleanup", "done"},
         job[i].held /\ o = "success" /\ Via[job[i].target] = "drain"
           => pods \ leaving \subseteq Daemons
  PROVE  ExecInv'
<1>1. PICK r \in Jobs : r = job[i]
  BY DEF ExecInv
<1>2. PICK j : j = [r EXCEPT !.step = "cleanup", !.outcome = o]
  OBVIOUS
<1>3. /\ j \in Jobs /\ j.step = "cleanup" /\ j.id = r.id /\ j.outcome = o
      /\ j.held = r.held /\ j.target = r.target
  <2>1. o \in Outcomes
    OBVIOUS
  <2> QED BY <1>2, <2>1 DEF Jobs, E!Steps
<1>4. job' = [job EXCEPT ![i] = j]
  BY <1>1, <1>2 DEF E!End, ExecInv
<1>5. Fits(i, r) /\ Emptied(r, schedulable, pods \ leaving) /\ r.step \notin {"idle", "cleanup", "done"}
  BY <1>1 DEF ExecInv
<1>6. Fits(i, j)
  BY <1>3, <1>5 DEF Fits
<1>7. Supplied(i, j, files)
  BY <1>3 DEF Supplied, E!Using
<1>8. Emptied(j, schedulable, pods \ leaving)
  BY <1>1, <1>3, <1>5 DEF Emptied
<1> QED BY <1>3, <1>4, <1>6, <1>7, <1>8, JobOnly

LEMMA NextSecret ==
  ASSUME NEW q \in Seq(Secrets), q # <<>>
  PROVE  /\ Head(q) \in Secrets /\ Tail(q) \in Seq(Secrets)
         /\ \A m \in DOMAIN q : q[m] = Head(q) \/ \E k \in DOMAIN Tail(q) : Tail(q)[k] = q[m]
<1>1. /\ Len(q) \in Nat \ {0} /\ DOMAIN q = 1 .. Len(q) /\ DOMAIN Tail(q) = 1 .. Len(q) - 1
      /\ Tail(q) \in Seq(Secrets) /\ Head(q) = q[1] /\ Head(q) \in Secrets
      /\ \A k \in 1 .. Len(q) - 1 : Tail(q)[k] = q[k + 1]
  OBVIOUS
<1>2. ASSUME NEW m \in DOMAIN q, m # 1
      PROVE  m - 1 \in DOMAIN Tail(q) /\ Tail(q)[m - 1] = q[m]
  BY <1>1, <1>2
<1> QED BY <1>1, <1>2

(* How executions begin.                                                    *)
LEMMA StartKeeps ==
  ASSUME ExecInv, NEW i \in Ids, NEW t \in Targets, NEW dry \in BOOLEAN,
         job[i].step = "idle", \A f \in files : f[1] # i, E!Start(i, i, t, dry)
  PROVE  ExecInv' /\ job'[i].step # "idle" /\ files' = files /\ \A v \in Ids \ {i} : job'[v] = job[v]
<1>1. PICK o \in E!Rejections \cup {IF dry THEN "success" ELSE "none"} :
        job' = [job EXCEPT ![i] = [E!NoJob EXCEPT
         !.id = i, !.target = t, !.outcome = o,
         !.left = IF o = "none" THEN Vaulted[t] ELSE <<>>,
         !.step = IF o = "none" THEN "secrets" ELSE "done"]]
  BY DEF E!Start
<1>2. PICK s : s = IF o = "none" THEN "secrets" ELSE "done"
  OBVIOUS
<1>3. PICK l : l = IF o = "none" THEN Vaulted[t] ELSE <<>>
  OBVIOUS
<1>4. PICK n \in Jobs : /\ n = E!NoJob /\ n.held = FALSE
  <2>1. E!NoJob \in Jobs
    BY DEF E!NoJob, Jobs, E!Steps, Outcomes, Evictable
  <2> QED BY <2>1 DEF E!NoJob
<1>5. PICK j : j = [n EXCEPT !.id = i, !.target = t, !.outcome = o, !.left = l, !.step = s]
  OBVIOUS
<1>a. job' = [job EXCEPT ![i] = j]
  BY <1>1, <1>2, <1>3, <1>4, <1>5
<1>6. /\ j \in Jobs /\ j.step = s /\ j.id = i /\ j.target = t /\ j.outcome = o /\ j.left = l
      /\ j.held = FALSE
  <2>1. o \in Outcomes
    BY DEF E!Rejections, Outcomes
  <2>2. l \in Seq(Secrets)
    BY <1>3, ActionAssumption
  <2>3. s \in E!Steps
    BY <1>2 DEF E!Steps
  <2> QED BY <1>4, <1>5, <2>1, <2>2, <2>3 DEF Jobs
<1>7. Fits(i, j) /\ Emptied(j, schedulable, pods \ leaving)
  BY <1>2, <1>6 DEF Fits, Emptied
<1>8. Supplied(i, j, files)
  BY <1>2, <1>3, <1>6 DEF Supplied, E!Using
<1>9. UNCHANGED <<files, stuck, running, schedulable, pods, leaving>>
  BY DEF E!Start, E!cluster
<1>10. running' \subseteq Ids
  BY <1>9 DEF ExecInv
<1>b. ExecInv'
  BY <1>2, <1>6, <1>7, <1>8, <1>9, <1>10, <1>a, JobOnly
<1> QED BY <1>2, <1>6, <1>9, <1>a, <1>b DEF ExecInv

(* What the program does next in an execution, how commands end, and what   *)
(* the cluster answers.                                                    *)
Works(i) == E!Proceed(i) \/ E!Ends(i) \/ E!Answers(i)

LEMMA WorkKeeps ==
  ASSUME ExecInv, NEW i \in Ids, Works(i)
  PROVE  ExecInv'
<1>0. PICK r \in Jobs : r = job[i]
  BY DEF ExecInv
<1>a. /\ Fits(i, r) /\ Supplied(i, r, files) /\ Emptied(r, schedulable, pods \ leaving)
      /\ job \in [Ids -> Jobs] /\ running \subseteq Ids /\ schedulable \in BOOLEAN
      /\ leaving \subseteq pods /\ files \subseteq Ids \X Secrets /\ stuck \subseteq files
      /\ \A f \in stuck : f[1] = i => r.step \in {"idle", "done"}
  BY <1>0 DEF ExecInv
<1>o. {"success", "failure", "raised"} \subseteq Outcomes \ {"none"}
  BY DEF Outcomes
<1>e. ASSUME NEW o \in {"success", "failure", "raised"}, E!End(i, o),
             UNCHANGED <<files, stuck, schedulable, pods, leaving>>, running' \subseteq Ids,
             r.step \notin {"idle", "cleanup", "done"},
             r.step \in {"secrets", "waiting", "cordon", "patch"} \/ o = "failure"
      PROVE  ExecInv'
  <2>1. o \in Outcomes \ {"none"}
    BY <1>o
  <2>2. ~(job[i].held /\ o = "success" /\ Via[job[i].target] = "drain")
    BY <1>0, <1>a, <1>e DEF Fits
  <2> QED BY <1>0, <1>e, <2>1, <2>2, EndKeeps
<1>1. CASE E!Fetch(i)
  <2>1. PICK j : j = [r EXCEPT !.left = Tail(r.left)]
    OBVIOUS
  <2>2. /\ r.step = "secrets" /\ r.left # <<>> /\ job' = [job EXCEPT ![i] = j]
        /\ files' = files \cup {<<r.id, Head(r.left)>>}
        /\ UNCHANGED <<stuck, running, schedulable, pods, leaving>>
    BY <1>0, <1>1, <1>a, <2>1 DEF E!Fetch, E!At, E!cluster
  <2>3. /\ Head(r.left) \in Secrets /\ Tail(r.left) \in Seq(Secrets) /\ r.id = i
        /\ \A m \in DOMAIN r.left :
             r.left[m] = Head(r.left) \/ \E k \in DOMAIN Tail(r.left) : Tail(r.left)[k] = r.left[m]
    BY <1>a, <2>2, NextSecret DEF Jobs, Fits
  <2>4. /\ j \in Jobs /\ j.step = "secrets" /\ j.id = r.id /\ j.left = Tail(r.left)
        /\ j.outcome = r.outcome /\ j.held = r.held /\ j.target = r.target
    BY <2>1, <2>2, <2>3 DEF Jobs
  <2>5. Fits(i, j)
    BY <1>a, <2>2, <2>4 DEF Fits
  <2>6. Supplied(i, j, files')
    <3> SUFFICES ASSUME NEW n \in DOMAIN Vaulted[r.target]
                 PROVE  \/ <<i, Vaulted[r.target][n]>> \in files'
                        \/ \E m \in DOMAIN j.left : j.left[m] = Vaulted[r.target][n]
      BY <2>4 DEF Supplied, E!Using
    <3>1. CASE <<i, Vaulted[r.target][n]>> \in files
      BY <2>2, <3>1
    <3>2. ASSUME NEW m \in DOMAIN r.left, r.left[m] = Vaulted[r.target][n]
          PROVE  \/ Vaulted[r.target][n] = Head(r.left)
                 \/ \E k \in DOMAIN Tail(r.left) : Tail(r.left)[k] = Vaulted[r.target][n]
      BY <2>3, <3>2
    <3>3. CASE Vaulted[r.target][n] = Head(r.left)
      BY <2>2, <2>3, <3>3
    <3>4. CASE \E k \in DOMAIN Tail(r.left) : Tail(r.left)[k] = Vaulted[r.target][n]
      BY <2>4, <3>4
    <3> QED BY <1>a, <2>2, <3>1, <3>2, <3>3, <3>4 DEF Supplied
  <2>7. Emptied(j, schedulable', pods' \ leaving')
    BY <1>a, <2>2, <2>4 DEF Emptied, Fits
  <2>8. files' \subseteq Ids \X Secrets /\ stuck' \subseteq files'
    BY <1>a, <2>2, <2>3
  <2>9. /\ \A f \in files : f[1] # i => f \in files'
        /\ \A f \in files' \ stuck' : f[1] # i => f \in files \ stuck
        /\ \A f \in stuck' : f[1] # i
    BY <1>a, <2>2, <2>3
  <2>10. job' \in [Ids -> Jobs] /\ job'[i] = j /\ \A v \in Ids \ {i} : job'[v] = job[v]
    BY <1>a, <2>2, <2>4
  <2>11. /\ schedulable' \in BOOLEAN /\ pods' = pods /\ running' \subseteq Ids
         /\ schedulable' = schedulable /\ leaving' = leaving /\ leaving \subseteq pods
    BY <1>a, <2>2
  <2>12. j.step \notin {"idle", "done"}
    BY <2>4
  <2>13. \A f \in stuck' : f \in stuck
    BY <2>2
  <2> QED BY <2>5, <2>6, <2>7, <2>8, <2>9, <2>10, <2>11, <2>12, <2>13, OneJob
<1>2. CASE E!FetchFails(i)
  BY <1>0, <1>2, <1>a, <1>e DEF E!FetchFails, E!At, E!cluster
<1>3. CASE E!Launch(i) \/ E!Connect(i)
  <2>1. PICK s \in {"waiting", "cordon", "patch"} :
          /\ job' = [job EXCEPT ![i].step = s]
          /\ s = "cordon" => Via[r.target] = "drain"
    BY <1>0, <1>3 DEF E!Launch, E!Connect, E!Goto, E!Reach
  <2>2. PICK j : j = [r EXCEPT !.step = s]
    OBVIOUS
  <2>3. /\ r.step = "secrets" /\ r.left = <<>> /\ job' = [job EXCEPT ![i] = j]
        /\ UNCHANGED <<files, stuck, schedulable, pods, leaving>>
    BY <1>0, <1>3, <1>a, <2>1, <2>2 DEF E!Launch, E!Connect, E!At, E!cluster
  <2>4. /\ j \in Jobs /\ j.step = s /\ j.id = r.id /\ j.left = r.left
        /\ j.outcome = r.outcome /\ j.held = r.held /\ j.target = r.target
    BY <2>2 DEF Jobs, E!Steps
  <2>5. Fits(i, j)
    BY <1>a, <2>1, <2>3, <2>4 DEF Fits
  <2>6. Supplied(i, j, files)
    BY <1>a, <2>3, <2>4 DEF Supplied, E!Using
  <2>7. Emptied(j, schedulable, pods \ leaving)
    BY <1>a, <2>3, <2>4 DEF Emptied, Fits
  <2>8. running' \subseteq Ids
    BY <1>0, <1>3, <1>a, <2>3 DEF E!Launch, E!Connect, Fits
  <2> QED BY <1>0, <2>3, <2>4, <2>5, <2>6, <2>7, <2>8, JobOnly
<1>4. CASE E!ConnectFails(i)
  BY <1>0, <1>4, <1>a, <1>e DEF E!ConnectFails, E!At, E!cluster
<1>5. CASE E!Ends(i)
  BY <1>0, <1>5, <1>a, <1>e DEF E!Ends, E!At, E!cluster
<1>6. CASE E!TimesOut(i)
  BY <1>0, <1>6, <1>a, <1>e DEF E!TimesOut, E!At, E!cluster
<1>7. CASE E!ConnectionLost(i)
  BY <1>0, <1>7, <1>a, <1>e DEF E!ConnectionLost, E!At, E!cluster
<1>8. CASE E!ApiFails(i)
  BY <1>0, <1>8, <1>a, <1>e DEF E!ApiFails, E!At, E!cluster
<1>9. CASE E!Patch(i)
  BY <1>0, <1>9, <1>a, <1>e DEF E!Patch, E!At, E!cluster
<1>10. CASE E!Cordon(i)
  <2>1. PICK j : j = [r EXCEPT !.step = "list", !.held = TRUE]
    OBVIOUS
  <2>2. /\ r.step = "cordon" /\ job' = [job EXCEPT ![i] = j] /\ schedulable' = FALSE
        /\ UNCHANGED <<files, stuck, running, pods, leaving>>
    BY <1>0, <1>10, <1>a, <2>1 DEF E!Cordon, E!At
  <2>3. /\ j \in Jobs /\ j.step = "list" /\ j.id = r.id
        /\ j.outcome = r.outcome /\ j.target = r.target
    BY <2>1 DEF Jobs, E!Steps
  <2>4. Fits(i, j)
    BY <1>a, <2>2, <2>3 DEF Fits
  <2>5. Supplied(i, j, files')
    BY <1>a, <2>2, <2>3 DEF Supplied, E!Using
  <2>6. Emptied(j, schedulable', pods' \ leaving')
    BY <2>2, <2>3 DEF Emptied
  <2>7. job' \in [Ids -> Jobs] /\ job'[i] = j /\ \A v \in Ids \ {i} : job'[v] = job[v]
    BY <1>a, <2>2, <2>3
  <2>8. schedulable' \in BOOLEAN /\ (schedulable' => schedulable) /\ j.step \notin {"idle", "done"}
    BY <2>2, <2>3
  <2> QED BY <1>a, <2>2, <2>4, <2>5, <2>6, <2>7, <2>8, OneJob
<1>11. CASE E!List(i)
  <2>1. PICK j : j = [r EXCEPT !.step = "evict", !.todo = pods \ Daemons]
    OBVIOUS
  <2>2. /\ r.step = "list" /\ job' = [job EXCEPT ![i] = j]
        /\ UNCHANGED <<files, stuck, running, schedulable, pods, leaving>>
    BY <1>0, <1>11, <1>a, <2>1 DEF E!List, E!At, E!cluster
  <2>3. pods \ Daemons \in Evictable
    BY DEF ExecInv, Evictable
  <2>4. /\ j \in Jobs /\ j.step = "evict" /\ j.id = r.id /\ j.todo = pods \ Daemons
        /\ j.outcome = r.outcome /\ j.held = r.held /\ j.target = r.target
    BY <2>1, <2>3 DEF Jobs, E!Steps
  <2>5. Fits(i, j)
    BY <1>a, <2>2, <2>4 DEF Fits
  <2>6. Supplied(i, j, files)
    BY <1>a, <2>2, <2>4 DEF Supplied, E!Using
  <2>7. Emptied(j, schedulable, pods \ leaving)
    BY <1>a, <2>4 DEF Emptied
  <2>8. j.step \notin {"idle", "done"} /\ running' \subseteq Ids
    BY <1>a, <2>2, <2>4
  <2> QED BY <1>0, <2>2, <2>5, <2>6, <2>7, <2>8, JobOnly
<1>12. ASSUME NEW p \in Pods, E!Evict(i, p) \/ E!Refuse(i, p) PROVE ExecInv'
  <2>1. PICK more \in {{}, {p}} : /\ p \in pods' \ leaving' => p \in more
                                 /\ job' = [job EXCEPT ![i].todo = @ \ {p}, ![i].failed = @ \cup more]
    <3>1. CASE E!Evict(i, p)
      <4>1. job' = [job EXCEPT ![i] = [r EXCEPT !.todo = r.todo \ {p}]]
        BY <1>0, <1>a, <3>1 DEF E!Evict
      <4>2. [r EXCEPT !.todo = r.todo \ {p}] = [r EXCEPT !.todo = r.todo \ {p}, !.failed = r.failed \cup {}]
        BY DEF Jobs
      <4>3. p \in leaving'
        BY <3>1 DEF E!Evict
      <4> QED BY <1>0, <1>a, <4>1, <4>2, <4>3
    <3>2. CASE E!Refuse(i, p)
      BY <3>2 DEF E!Refuse
    <3> QED BY <1>12, <3>1, <3>2
  <2>2. PICK j : j = [r EXCEPT !.todo = r.todo \ {p}, !.failed = r.failed \cup more]
    OBVIOUS
  <2>3. /\ r.step = "evict" /\ p \in r.todo /\ job' = [job EXCEPT ![i] = j]
        /\ leaving' \in {leaving, leaving \cup ({p} \cap pods)}
        /\ UNCHANGED <<files, stuck, running, schedulable, pods>>
    <3>1. job' = [job EXCEPT ![i] = j]
      BY <1>0, <1>a, <2>1, <2>2
    <3>2. CASE E!Evict(i, p)
      BY <1>0, <3>1, <3>2 DEF E!Evict, E!At
    <3>3. CASE E!Refuse(i, p)
      BY <1>0, <3>1, <3>3 DEF E!Refuse, E!At
    <3> QED BY <1>12, <3>2, <3>3
  <2>4. /\ j \in Jobs /\ j.step = r.step /\ j.id = r.id /\ j.todo = r.todo \ {p}
        /\ j.failed = r.failed \cup more
        /\ j.outcome = r.outcome /\ j.held = r.held /\ j.target = r.target
    <3>1. r.todo \ {p} \in Evictable /\ r.failed \cup more \in Evictable
      BY <2>3 DEF Jobs, Evictable
    <3> QED BY <2>2, <3>1 DEF Jobs
  <2>5. Fits(i, j)
    BY <1>a, <2>4 DEF Fits
  <2>6. Supplied(i, j, files')
    BY <1>a, <2>3, <2>4 DEF Supplied
  <2>7. Emptied(j, schedulable', pods' \ leaving')
    BY <1>a, <2>1, <2>3, <2>4 DEF Emptied
  <2>8. job' \in [Ids -> Jobs] /\ job'[i] = j /\ \A v \in Ids \ {i} : job'[v] = job[v]
    BY <1>a, <2>3, <2>4
  <2>9. leaving \subseteq leaving' /\ leaving' \subseteq pods /\ j.step \notin {"idle", "done"}
    BY <1>a, <2>3, <2>4
  <2> QED BY <1>a, <2>3, <2>5, <2>6, <2>7, <2>8, <2>9, OneJob
<1>13. CASE E!Drained(i)
  <2>1. PICK o \in {"success", "failure"} : E!End(i, o) /\ (o = "success" => r.failed = {})
    BY <1>0, <1>13 DEF E!Drained
  <2>2. /\ r.step = "evict" /\ r.todo = {} /\ UNCHANGED <<files, stuck, running, schedulable, pods, leaving>>
    BY <1>0, <1>13 DEF E!Drained, E!At, E!cluster
  <2>3. r.held /\ o = "success" => pods \ leaving \subseteq Daemons
    BY <1>a, <2>1, <2>2 DEF Emptied
  <2>4. o \in Outcomes \ {"none"} /\ running' \subseteq Ids
    BY <1>a, <1>o, <2>1, <2>2
  <2> QED BY <1>0, <2>1, <2>2, <2>3, <2>4, EndKeeps
<1>14. CASE E!PatchNode(i) \/ E!AnswerLost(i)
  <2>1. PICK open \in BOOLEAN : open = (E!Reach(i) = "uncordon")
    OBVIOUS
  <2>2. PICK o \in {"success", "failure"} :
          /\ job' = [v \in Ids |->
               IF v = i THEN [job[i] EXCEPT !.step = "cleanup", !.outcome = o]
               ELSE [job[v] EXCEPT !.held = @ /\ ~open]]
          /\ r.step = "patch" \/ (r.step \in {"cordon", "evict"} /\ o = "failure")
    <3>1. CASE E!PatchNode(i)
      <4>1. schedulable' = open /\ r.step = "patch"
        BY <1>0, <2>1, <3>1 DEF E!PatchNode, E!SetSchedulable, E!At
      <4>2. job' = [v \in Ids |->
               IF v = i THEN [job[i] EXCEPT !.step = "cleanup", !.outcome = "success"]
               ELSE [job[v] EXCEPT !.held = @ /\ ~schedulable']]
        BY <3>1 DEF E!PatchNode, E!SetSchedulable
      <4> QED BY <4>1, <4>2
    <3>2. CASE E!AnswerLost(i)
      <4>1. job' = [v \in Ids |->
               IF v = i THEN [job[i] EXCEPT !.step = "cleanup", !.outcome = "failure"]
               ELSE [job[v] EXCEPT !.held = @ /\ ~(E!Reach(i) = "uncordon")]]
        BY <3>2 DEF E!AnswerLost
      <4>2. r.step \in {"cordon", "evict", "patch"}
        BY <1>0, <3>2 DEF E!AnswerLost, E!At
      <4> QED BY <2>1, <4>1, <4>2
    <3> QED BY <1>14, <3>1, <3>2
  <2>3. PICK j : j = [r EXCEPT !.step = "cleanup", !.outcome = o]
    OBVIOUS
  <2>4. o \in Outcomes \ {"none"}
    BY <1>o
  <2>5. /\ j \in Jobs /\ j.step = "cleanup" /\ j.id = r.id /\ j.outcome = o
        /\ j.held = r.held /\ j.target = r.target
    BY <2>3, <2>4 DEF Jobs, E!Steps
  <2>6. ASSUME NEW v \in Ids \ {i}
        PROVE  /\ job'[v] = job[v] \/ job'[v] = [job[v] EXCEPT !.held = FALSE]
               /\ job'[v] \in Jobs /\ (open => ~job'[v].held)
    <3>1. PICK q \in Jobs : q = job[v]
      BY <1>a
    <3>2. job'[v] = [q EXCEPT !.held = q.held /\ ~open]
      BY <2>2, <3>1
    <3>3. q.held \in BOOLEAN
      BY DEF Jobs
    <3>4. PICK h \in BOOLEAN : h = (q.held /\ ~open)
      BY <3>3
    <3>5. job'[v] = [q EXCEPT !.held = h] /\ h \in {q.held, FALSE} /\ (open => ~h)
      BY <2>1, <3>2, <3>3, <3>4
    <3>6. [q EXCEPT !.held = q.held] = q
      BY DEF Jobs
    <3>7. job'[v] \in Jobs /\ job'[v].held = h
      BY <3>5 DEF Jobs
    <3> QED BY <3>1, <3>5, <3>6, <3>7
  <2>7. job' \in [Ids -> Jobs] /\ job'[i] = j
    BY <1>0, <2>2, <2>3, <2>5, <2>6
  <2>8. /\ UNCHANGED <<files, stuck, running, pods>>
        /\ leaving \subseteq leaving' /\ leaving' \subseteq pods
        /\ schedulable' \in BOOLEAN /\ (schedulable' => schedulable \/ open)
    BY <1>14, <1>a, <2>1 DEF E!PatchNode, E!SetSchedulable, E!AnswerLost
  <2>9. Fits(i, j)
    BY <1>a, <2>2, <2>4, <2>5 DEF Fits
  <2>10. Supplied(i, j, files')
    BY <2>5 DEF Supplied, E!Using
  <2>11. Emptied(j, schedulable', pods' \ leaving')
    <3>1. j.held => r.step = "evict" /\ o = "failure" /\ ~schedulable
      BY <1>a, <2>2, <2>5 DEF Fits, Emptied
    <3>2. j.held => ~open
      BY <1>0, <1>a, <2>1, <3>1 DEF Fits, E!Reach
    <3> QED BY <2>5, <2>8, <3>1, <3>2 DEF Emptied
  <2>12. schedulable' => schedulable \/ \A v \in Ids \ {i} : ~job'[v].held
    BY <2>6, <2>8
  <2>13. \A v \in Ids \ {i} : job'[v] = job[v] \/ job'[v] = [job[v] EXCEPT !.held = FALSE]
    BY <2>6
  <2>14. \A f \in stuck' : f \in stuck /\ f[1] # i
    BY <1>a, <2>2, <2>8
  <2> QED BY <1>a, <2>5, <2>7, <2>8, <2>9, <2>10, <2>11, <2>12, <2>13, <2>14, OneJob
<1>15. CASE E!Cleanup(i)
  <2>1. PICK left \in SUBSET E!Own(i) : /\ files' = (files \ E!Own(i)) \cup left
                                        /\ stuck' = stuck \cup left
    BY <1>15 DEF E!Cleanup
  <2>2. PICK j : j = [r EXCEPT !.step = "done"]
    OBVIOUS
  <2>3. /\ r.step = "cleanup" /\ job' = [job EXCEPT ![i] = j]
        /\ UNCHANGED <<running, schedulable, pods, leaving>>
    BY <1>0, <1>15, <1>a, <2>2 DEF E!Cleanup, E!At, E!Goto, E!cluster
  <2>4. /\ j \in Jobs /\ j.step = "done" /\ j.id = r.id /\ j.outcome = r.outcome
        /\ j.held = r.held /\ j.target = r.target
    BY <2>2 DEF Jobs, E!Steps
  <2>5. E!Own(i) = {f \in files : f[1] = i}
    BY <1>0, <1>a, <2>3 DEF E!Own, Fits
  <2>6. Fits(i, j)
    BY <1>a, <2>3, <2>4 DEF Fits
  <2>7. Supplied(i, j, files')
    BY <2>4 DEF Supplied, E!Using
  <2>8. Emptied(j, schedulable', pods' \ leaving')
    BY <1>a, <2>3, <2>4 DEF Emptied
  <2>9. /\ files' \subseteq Ids \X Secrets
        /\ \A f \in files : f[1] # i => f \in files'
        /\ \A f \in files' \ stuck' : f[1] # i /\ f \in files \ stuck
    BY <1>a, <2>1, <2>5
  <2>10. stuck' \subseteq files'
    BY <1>a, <2>1, <2>3, <2>5
  <2>12. /\ \A f \in stuck' : f[1] # i => f \in stuck
         /\ j.step \in {"idle", "done"}
    BY <2>1, <2>4, <2>5
  <2>11. job' \in [Ids -> Jobs] /\ job'[i] = j /\ \A v \in Ids \ {i} : job'[v] = job[v]
    BY <1>a, <2>3, <2>4
  <2> QED BY <1>a, <2>3, <2>6, <2>7, <2>8, <2>9, <2>10, <2>11, <2>12, OneJob
<1> QED BY <1>1, <1>2, <1>3, <1>4, <1>5, <1>6, <1>7, <1>8, <1>9, <1>10, <1>11, <1>12, <1>13,
           <1>14, <1>15 DEF Works, E!Proceed, E!Answers

(* Executions do not touch each other's place, nor begin or leave by        *)
(* themselves, and every file is its own call's.                           *)
LEMMA WorkStays ==
  ASSUME ExecInv, NEW i \in Ids, Works(i)
  PROVE  /\ job[i].step # "idle" /\ job'[i].step # "idle"
         /\ \A v \in Ids \ {i} : job'[v].step = job[v].step
         /\ \A f \in files' : f \in files \/ f[1] = i
<1> USE DEF E!At, E!Reach
<1>0. PICK r \in Jobs : r = job[i] /\ job \in [Ids -> Jobs] /\ (r.step # "idle" => r.id = i)
  BY DEF ExecInv, Fits
<1>1. CASE E!Fetch(i)
  BY <1>0, <1>1 DEF E!Fetch, Jobs
<1>2. CASE /\ \E o \in Outcomes : E!End(i, o)
           /\ files' = files /\ r.step # "idle"
  BY <1>0, <1>2 DEF E!End, Jobs
<1>3. CASE /\ \E s \in E!Steps \ {"idle"} : E!Goto(i, s)
           /\ files' \subseteq files /\ r.step # "idle"
  BY <1>0, <1>3 DEF E!Goto, Jobs
<1>4. CASE E!Cordon(i) \/ E!List(i)
  BY <1>0, <1>4 DEF E!Cordon, E!List, E!cluster, Jobs
<1>5. ASSUME NEW p \in Pods, E!Evict(i, p) \/ E!Refuse(i, p)
      PROVE  /\ job[i].step # "idle" /\ job'[i].step # "idle"
             /\ \A v \in Ids \ {i} : job'[v].step = job[v].step
             /\ \A f \in files' : f \in files \/ f[1] = i
  BY <1>0, <1>5 DEF E!Evict, E!Refuse, Jobs
<1>6. CASE E!PatchNode(i) \/ E!AnswerLost(i)
  <2>1. PICK o \in {"success", "failure"}, h \in BOOLEAN : job' = [v \in Ids |->
               IF v = i THEN [job[i] EXCEPT !.step = "cleanup", !.outcome = o]
               ELSE [job[v] EXCEPT !.held = @ /\ h]]
    <3>1. CASE E!PatchNode(i)
      <4>1. PICK h \in BOOLEAN : h = ~(Via[job[i].target] = "uncordon")
        OBVIOUS
      <4>2. schedulable' = ~h
        BY <3>1, <4>1 DEF E!PatchNode, E!SetSchedulable
      <4>3. job' = [v \in Ids |->
               IF v = i THEN [job[i] EXCEPT !.step = "cleanup", !.outcome = "success"]
               ELSE [job[v] EXCEPT !.held = @ /\ ~schedulable']]
        BY <3>1 DEF E!PatchNode, E!SetSchedulable
      <4> QED BY <4>2, <4>3
    <3>2. CASE E!AnswerLost(i)
      <4>1. PICK h \in BOOLEAN : h = ~(Via[job[i].target] = "uncordon")
        OBVIOUS
      <4>2. job' = [v \in Ids |->
               IF v = i THEN [job[i] EXCEPT !.step = "cleanup", !.outcome = "failure"]
               ELSE [job[v] EXCEPT !.held = @ /\ ~(Via[job[i].target] = "uncordon")]]
        BY <3>2 DEF E!AnswerLost
      <4> QED BY <4>1, <4>2
    <3> QED BY <1>6, <3>1, <3>2
  <2>2. job'[i].step = "cleanup" /\ \A v \in Ids \ {i} : job'[v].step = job[v].step
    BY <1>0, <2>1 DEF Jobs
  <2>3. files' = files /\ r.step # "idle"
    BY <1>0, <1>6 DEF E!PatchNode, E!SetSchedulable, E!AnswerLost
  <2> QED BY <1>0, <2>2, <2>3
<1>7. CASE E!Cleanup(i)
  <2>1. files' \subseteq files /\ r.step # "idle" /\ E!Goto(i, "done")
    BY <1>0, <1>7 DEF E!Cleanup, E!Own
  <2> QED BY <1>3, <2>1 DEF E!Steps
<1>8. CASE E!Launch(i) \/ E!Connect(i)
  BY <1>0, <1>3, <1>8 DEF E!Launch, E!Connect, E!cluster, E!Steps
<1>9. CASE \/ E!FetchFails(i) \/ E!ConnectFails(i) \/ E!Ends(i) \/ E!TimesOut(i)
           \/ E!ConnectionLost(i) \/ E!ApiFails(i) \/ E!Patch(i) \/ E!Drained(i)
  BY <1>0, <1>2, <1>9 DEF E!FetchFails, E!ConnectFails, E!Ends, E!TimesOut, E!ConnectionLost,
     E!ApiFails, E!Patch, E!Drained, E!cluster, Outcomes
<1> QED BY <1>1, <1>4, <1>5, <1>6, <1>7, <1>8, <1>9 DEF Works, E!Proceed, E!Answers

(* The result is taken; the process dies; the world goes on.                *)
LEMMA LeaveKeeps ==
  ASSUME ExecInv, NEW i \in Ids, E!Release(i)
  PROVE  ExecInv' /\ job'[i].step = "idle" /\ \A v \in Ids \ {i} : job'[v] = job[v]
<1>1. PICK j : j = E!NoJob
  OBVIOUS
<1>2. j \in Jobs /\ j.step = "idle" /\ j.outcome = "none" /\ j.held = FALSE
  BY <1>1 DEF E!NoJob, Jobs, E!Steps, Outcomes, Evictable
<1>3. /\ job[i].step = "done" /\ job' = [job EXCEPT ![i] = j]
      /\ UNCHANGED <<files, stuck, running, schedulable, pods, leaving>>
  BY <1>1 DEF E!Release, E!At, E!cluster
<1>4. Fits(i, j) /\ Supplied(i, j, files) /\ Emptied(j, schedulable, pods \ leaving)
  BY <1>2 DEF Fits, Supplied, Emptied, E!Using
<1>5. job \in [Ids -> Jobs] /\ running' \subseteq Ids
  BY <1>3 DEF ExecInv
<1> QED BY <1>2, <1>3, <1>4, <1>5, JobOnly

LEMMA DieKeeps == ASSUME ExecInv, E!Die PROVE ExecInv' /\ \A i \in Ids : job'[i].step = "idle"
<1>1. PICK j : j = E!NoJob
  OBVIOUS
<1>2. j \in Jobs /\ j.step = "idle" /\ j.outcome = "none" /\ j.held = FALSE
  BY <1>1 DEF E!NoJob, Jobs, E!Steps, Outcomes, Evictable
<1>3. /\ job' = [i \in Ids |-> j] /\ stuck' = files /\ running' \subseteq running
      /\ files' = files /\ schedulable' = schedulable /\ pods' = pods /\ leaving' = leaving
  BY <1>1 DEF E!Die, E!cluster
<1>4. \A i \in Ids : Fits(i, j) /\ Supplied(i, j, files) /\ Emptied(j, schedulable, pods \ leaving)
  BY <1>2 DEF Fits, Supplied, Emptied, E!Using
<1>5. \A f \in files : f[1] \in Ids
  BY DEF ExecInv
<1> QED BY <1>2, <1>3, <1>4, <1>5 DEF ExecInv

LEMMA WorldKeeps ==
  ASSUME ExecInv, (\E i \in Ids : E!AbandonedEnds(i)) \/ E!PodsMove
  PROVE  ExecInv' /\ job' = job /\ files' = files
<1>1. CASE \E i \in Ids : E!AbandonedEnds(i)
  BY <1>1 DEF E!AbandonedEnds, E!cluster, ExecInv
<1>2. CASE E!PodsMove
  <2>1. /\ UNCHANGED <<job, files, stuck, running, schedulable>>
        /\ leaving' \subseteq pods' /\ pods' \subseteq Pods
        /\ \A p \in pods' \ leaving' : p \in pods \ leaving \/ schedulable \/ p \in Daemons
    BY <1>2 DEF E!PodsMove, E!PodLands, E!PodLeaves, ExecInv
  <2>2. ASSUME NEW i \in Ids, Emptied(job[i], schedulable, pods \ leaving)
        PROVE  Emptied(job[i], schedulable, pods' \ leaving')
    BY <2>1, <2>2 DEF Emptied
  <2> QED BY <2>1, <2>2 DEF ExecInv
<1> QED BY <1>1, <1>2

(***************************************************************************)
(* Calls, and where their executions and reports are.                      *)
(***************************************************************************)
Ats == {"new", "waiting", "check", "execute", "record", "audit", "notify", "sending",
        "answered", "cut"}
Marks == C!Times \cup {Never}
Calls == [at: Ats, outcome: Outcomes \cup {"blocked"}, from: Marks, recorded: Marks,
          told: Marks, life: Nat]
Notes == [step: {"idle", "dedup", "send"}, key: N!DedupKeys \cup {<<>>},
          severity: N!Severities, stamp: Nat, id: Ids \cup {0}]

(* What call i is like in life l, by where it is; d are the calls there are. *)
CallFits(i, c, l, d) ==
  /\ c \in Calls /\ c.life <= l
  /\ c.at \notin {"new", "answered", "cut"} => c.life = l
  /\ c.at # "new" => i \in d
  /\ c.at \in {"new", "waiting", "check", "execute"} => c.recorded = Never /\ c.outcome = "none"
  /\ c.at \in {"new", "waiting", "check"} => c.from = Never
  /\ c.at \in {"execute", "record", "audit", "notify", "sending"} => c.from # Never
  /\ c.at = "record" => c.recorded = Never
  /\ c.at \in {"record", "audit", "notify", "sending"} => c.outcome \in N!Statuses
  /\ c.at = "sending" => c.told # Never

LinkInv ==
  /\ load \in Workloads /\ life \in Nat /\ now \in C!Times
  /\ call \in [Ids -> Calls] /\ note \in [Ids -> Notes]
  /\ \A i \in Ids :
       /\ CallFits(i, call[i], life, DOMAIN load.calls)
       /\ call[i].at = "execute" <=> job[i].step # "idle"
       /\ call[i].at = "sending" <=> note[i].step # "idle"
       /\ call[i].at \in {"new", "waiting", "check"} => \A f \in files : f[1] # i

LEMMA OneCall ==
  ASSUME LinkInv, NEW i \in Ids, NEW c, call' = [call EXCEPT ![i] = c],
         UNCHANGED <<now, load, life>>, note' \in [Ids -> Notes],
         CallFits(i, c, life, DOMAIN load.calls),
         c.at = "execute" <=> job'[i].step # "idle",
         c.at = "sending" <=> note'[i].step # "idle",
         \A v \in Ids \ {i} : job'[v].step = job[v].step /\ note'[v].step = note[v].step,
         \A f \in files' : f \in files \/ f[1] = i,
         c.at \in {"new", "waiting", "check"} => \A f \in files' : f[1] # i
  PROVE  LinkInv'
<1>1. /\ call' \in [Ids -> Calls] /\ call'[i] = c
      /\ \A v \in Ids \ {i} : call'[v] = call[v]
  BY DEF LinkInv, CallFits
<1>2. now' = now /\ load' = load /\ life' = life
  OBVIOUS
<1>3. ASSUME NEW v \in Ids
      PROVE  /\ CallFits(v, call'[v], life', DOMAIN load'.calls)
             /\ call'[v].at = "execute" <=> job'[v].step # "idle"
             /\ call'[v].at = "sending" <=> note'[v].step # "idle"
             /\ call'[v].at \in {"new", "waiting", "check"} => \A f \in files' : f[1] # v
  <2>1. CASE v = i
    BY <1>1, <1>2, <2>1
  <2>2. CASE v # i
    <3>1. /\ CallFits(v, call[v], life, DOMAIN load.calls)
          /\ call[v].at = "execute" <=> job[v].step # "idle"
          /\ call[v].at = "sending" <=> note[v].step # "idle"
          /\ call[v].at \in {"new", "waiting", "check"} => \A f \in files : f[1] # v
      BY DEF LinkInv
    <3>2. call'[v] = call[v] /\ job'[v].step = job[v].step /\ note'[v].step = note[v].step
      BY <1>1, <2>2
    <3> QED BY <1>2, <2>2, <3>1, <3>2
  <2> QED BY <2>1, <2>2
<1> QED BY <1>1, <1>2, <1>3 DEF LinkInv

(* The same, when only the call changes.                                    *)
LEMMA CallOnly ==
  ASSUME LinkInv, NEW i \in Ids, NEW c, call' = [call EXCEPT ![i] = c],
         UNCHANGED <<now, load, life, job, files, note>>,
         CallFits(i, c, life, DOMAIN load.calls),
         c.at = "execute" <=> call[i].at = "execute",
         c.at = "sending" <=> call[i].at = "sending",
         c.at \in {"new", "waiting", "check"} => call[i].at \in {"new", "waiting", "check"}
  PROVE  LinkInv'
<1>1. /\ c.at = "execute" <=> job'[i].step # "idle"
      /\ c.at = "sending" <=> note'[i].step # "idle"
      /\ c.at \in {"new", "waiting", "check"} => \A f \in files' : f[1] # i
      /\ note' \in [Ids -> Notes]
  BY DEF LinkInv
<1> QED BY <1>1, OneCall

(* What a call asks for, and the moment it is now.                          *)
LEMMA Asking ==
  ASSUME LinkInv, NEW i \in Ids, call[i].at # "new"
  PROVE  /\ i \in DOMAIN load.calls /\ Asked(i).target \in Targets /\ Asked(i).dry \in BOOLEAN
         /\ Asked(i).direct \in BOOLEAN
BY WorkloadAssumption DEF LinkInv, CallFits, Asked

LEMMA Now == LinkInv => now \in Nat /\ now \in Marks /\ now # Never
BY TrackerAssumption DEF LinkInv, Marks, C!Times

(* A call's own steps.                                                      *)
LEMMA CallSteps ==
  ASSUME ExecInv, LinkInv, NEW i \in Ids,
         Arrive(i) \/ Enter(i) \/ Refuse(i) \/ NoExecutable(i) \/ Record(i) \/ Audit(i)
  PROVE  LinkInv'
<1> USE DEF At
<1>0. PICK r \in Calls : r = call[i]
  BY DEF LinkInv
<1>a. CallFits(i, r, life, DOMAIN load.calls) /\ life \in Nat /\ call \in [Ids -> Calls]
  BY <1>0 DEF LinkInv
<1>s. ASSUME NEW s \in {"check", "notify"}, call' = [call EXCEPT ![i].at = s],
             UNCHANGED <<now, load, life, job, files, note>>,
             (r.at = "waiting" /\ s = "check") \/ (r.at = "audit" /\ s = "notify")
      PROVE  LinkInv'
  <2>1. PICK c : c = [r EXCEPT !.at = s]
    OBVIOUS
  <2>2. /\ c \in Calls /\ c.at = s /\ c.life = r.life /\ c.outcome = r.outcome /\ c.from = r.from
        /\ c.recorded = r.recorded /\ c.told = r.told
    BY <2>1 DEF Calls, Ats
  <2>3. call' = [call EXCEPT ![i] = c]
    BY <1>0, <1>a, <1>s, <2>1
  <2>4. CallFits(i, c, life, DOMAIN load.calls)
    BY <1>a, <1>s, <2>2 DEF CallFits
  <2> QED BY <1>0, <1>s, <2>2, <2>3, <2>4, CallOnly
<1>e. ASSUME NEW o \in {"blocked", "raised", "none"}, Answer(i, o),
             UNCHANGED <<now, load, life, job, files, note>>, r.at \in {"check", "audit"}
      PROVE  LinkInv'
  <2>1. PICK c : c = [r EXCEPT !.at = "answered", !.outcome = o]
    OBVIOUS
  <2>2. /\ c \in Calls /\ c.at = "answered" /\ c.life = r.life /\ c.outcome = o /\ c.from = r.from
        /\ c.recorded = r.recorded /\ c.told = r.told
    BY <2>1 DEF Calls, Ats, Outcomes
  <2>3. call' = [call EXCEPT ![i] = c]
    BY <1>0, <1>a, <1>e, <2>1 DEF Answer
  <2>4. CallFits(i, c, life, DOMAIN load.calls)
    BY <1>a, <1>e, <2>2 DEF CallFits
  <2> QED BY <1>0, <1>e, <2>2, <2>3, <2>4, CallOnly
<1>1. CASE Arrive(i)
  <2>1. PICK c : c = [r EXCEPT !.at = "waiting", !.life = life]
    OBVIOUS
  <2>2. /\ c \in Calls /\ c.at = "waiting" /\ c.life = life /\ c.outcome = r.outcome /\ c.from = r.from
        /\ c.recorded = r.recorded /\ c.told = r.told
    BY <1>a, <2>1 DEF Calls, Ats
  <2>3. /\ call' = [call EXCEPT ![i] = c] /\ r.at = "new" /\ i \in DOMAIN load.calls
        /\ UNCHANGED <<now, load, life, job, files, note>>
    BY <1>0, <1>1, <1>a, <2>1 DEF Arrive, execution, reports
  <2>4. CallFits(i, c, life, DOMAIN load.calls)
    BY <1>a, <2>2, <2>3 DEF CallFits
  <2> QED BY <1>0, <2>2, <2>3, <2>4, CallOnly
<1>2. CASE Enter(i)
  <2>1. /\ call' = [call EXCEPT ![i].at = "check"] /\ r.at = "waiting"
        /\ UNCHANGED <<now, load, life, job, files, note>>
    BY <1>0, <1>2 DEF Enter, Move, execution, reports
  <2> QED BY <1>s, <2>1
<1>3. CASE Refuse(i) \/ NoExecutable(i)
  BY <1>0, <1>3, <1>e DEF Refuse, NoExecutable, execution, reports
<1>4. CASE Record(i)
  <2>1. PICK c : c = [r EXCEPT !.at = "audit", !.recorded = now]
    OBVIOUS
  <2>2. /\ c \in Calls /\ c.at = "audit" /\ c.life = r.life /\ c.outcome = r.outcome /\ c.from = r.from
        /\ c.recorded = now /\ c.told = r.told
    BY <1>a, <2>1, Now DEF Calls, Ats
  <2>3. /\ call' = [call EXCEPT ![i] = c] /\ r.at = "record"
        /\ UNCHANGED <<now, load, life, job, files, note>>
    BY <1>0, <1>4, <1>a, <2>1 DEF Record, C!Record, execution, reports
  <2>4. CallFits(i, c, life, DOMAIN load.calls)
    BY <1>a, <2>2, <2>3 DEF CallFits
  <2> QED BY <1>0, <2>2, <2>3, <2>4, CallOnly
<1>5. CASE Audit(i)
  BY <1>0, <1>5, <1>s, <1>e DEF Audit, Move, execution, reports
<1> QED BY <1>1, <1>2, <1>3, <1>4, <1>5

(* A call and its execution.                                                *)
LEMMA ExecSteps ==
  ASSUME ExecInv, LinkInv, NEW i \in Ids,
         Begin(i) \/ Execute(i) \/ CommandEnds(i) \/ ClusterAnswers(i) \/ Collect(i)
  PROVE  ExecInv' /\ LinkInv'
<1> USE DEF At, E!At
<1>0. PICK r \in Calls : r = call[i]
  BY DEF LinkInv
<1>a. /\ CallFits(i, r, life, DOMAIN load.calls) /\ life \in Nat /\ call \in [Ids -> Calls]
      /\ note \in [Ids -> Notes]
      /\ r.at = "execute" <=> job[i].step # "idle"
      /\ r.at = "sending" <=> note[i].step # "idle"
      /\ r.at \in {"new", "waiting", "check"} => \A f \in files : f[1] # i
  BY <1>0 DEF LinkInv
<1>1. CASE Begin(i)
  <2>1. PICK c : c = [r EXCEPT !.at = "execute", !.from = now]
    OBVIOUS
  <2>2. /\ c \in Calls /\ c.at = "execute" /\ c.life = r.life /\ c.outcome = r.outcome
        /\ c.from = now /\ c.recorded = r.recorded /\ c.told = r.told
    BY <2>1, Now DEF Calls, Ats
  <2>3. /\ call' = [call EXCEPT ![i] = c] /\ r.at = "check" /\ UNCHANGED <<now, load, life, note>>
        /\ E!Start(i, i, Asked(i).target, Asked(i).dry)
    BY <1>0, <1>1, <1>a, <2>1 DEF Begin, reports
  <2>4. Asked(i).target \in Targets /\ Asked(i).dry \in BOOLEAN
    BY <1>0, <2>3, Asking
  <2>5. ExecInv'
    BY <1>a, <2>3, <2>4, StartKeeps
  <2>6. /\ job'[i].step # "idle" /\ files' = files
        /\ \A v \in Ids \ {i} : job'[v] = job[v]
    BY <1>a, <2>3, <2>4, StartKeeps
  <2>7. CallFits(i, c, life, DOMAIN load.calls)
    BY <1>a, <2>2, <2>3, Now DEF CallFits
  <2>8. /\ c.at = "execute" <=> job'[i].step # "idle"
        /\ c.at = "sending" <=> note'[i].step # "idle"
        /\ c.at \notin {"new", "waiting", "check"} /\ note' \in [Ids -> Notes]
        /\ \A v \in Ids \ {i} : job'[v].step = job[v].step /\ note'[v].step = note[v].step
        /\ \A f \in files' : f \in files \/ f[1] = i
    BY <1>a, <2>2, <2>3, <2>6
  <2>9. LinkInv'
    BY <2>3, <2>7, <2>8, OneCall
  <2> QED BY <2>5, <2>9
<1>2. CASE Execute(i) \/ CommandEnds(i) \/ ClusterAnswers(i)
  <2>1. /\ UNCHANGED <<now, load, life, note, call>> /\ Works(i)
    BY <1>2 DEF Execute, CommandEnds, ClusterAnswers, Works, reports
  <2>2. ExecInv'
    BY <2>1, WorkKeeps
  <2>3. /\ job[i].step # "idle" /\ job'[i].step # "idle"
        /\ \A v \in Ids \ {i} : job'[v].step = job[v].step
        /\ \A f \in files' : f \in files \/ f[1] = i
    BY <2>1, WorkStays
  <2>4. call' = [call EXCEPT ![i] = r] /\ r.at = "execute"
    BY <1>0, <1>a, <2>1, <2>3
  <2>5. /\ r.at = "execute" <=> job'[i].step # "idle"
        /\ r.at = "sending" <=> note'[i].step # "idle"
        /\ r.at \notin {"new", "waiting", "check"} /\ note' \in [Ids -> Notes]
        /\ \A v \in Ids \ {i} : job'[v].step = job[v].step /\ note'[v].step = note[v].step
    BY <1>a, <2>1, <2>3, <2>4
  <2>6. LinkInv'
    BY <1>a, <2>1, <2>3, <2>4, <2>5, OneCall
  <2> QED BY <2>2, <2>6
<1>3. CASE Collect(i)
  <2>1. PICK o, s : /\ o = job[i].outcome
                    /\ s = IF job[i].outcome = "raised" THEN "answered"
                           ELSE IF Guarded(i) THEN "record" ELSE "audit"
    OBVIOUS
  <2>2. PICK c : c = [r EXCEPT !.outcome = o, !.at = s]
    OBVIOUS
  <2>3. /\ job[i].step = "done" /\ o \in {"success", "failure", "raised"}
        /\ o = "raised" <=> s = "answered"
        /\ s \in {"answered", "record", "audit"}
    <3>1. job[i].step = "done"
      BY <1>3 DEF Collect
    <3>2. job[i] \in Jobs /\ job[i].outcome # "none"
      BY <3>1 DEF ExecInv, Fits
    <3> QED BY <2>1, <3>1, <3>2 DEF Jobs, Outcomes
  <2>4. /\ c \in Calls /\ c.at = s /\ c.life = r.life /\ c.outcome = o
        /\ c.from = r.from /\ c.recorded = r.recorded /\ c.told = r.told
    BY <2>2, <2>3 DEF Calls, Ats, Outcomes
  <2>5. /\ call' = [call EXCEPT ![i] = c] /\ r.at = "execute" /\ UNCHANGED <<now, load, life, note>>
        /\ E!Release(i)
    BY <1>0, <1>3, <1>a, <2>1, <2>2 DEF Collect, reports
  <2>6. ExecInv' /\ job'[i].step = "idle" /\ \A v \in Ids \ {i} : job'[v] = job[v]
    BY <2>5, LeaveKeeps
  <2>7. CallFits(i, c, life, DOMAIN load.calls)
    BY <1>a, <2>3, <2>4, <2>5 DEF CallFits, N!Statuses
  <2>8. /\ c.at = "execute" <=> job'[i].step # "idle"
        /\ c.at = "sending" <=> note'[i].step # "idle"
        /\ c.at \notin {"new", "waiting", "check"} /\ note' \in [Ids -> Notes] /\ files' = files
        /\ \A v \in Ids \ {i} : job'[v].step = job[v].step /\ note'[v].step = note[v].step
    BY <1>a, <2>3, <2>4, <2>5, <2>6 DEF E!Release
  <2>9. LinkInv'
    BY <2>5, <2>7, <2>8, OneCall
  <2> QED BY <2>6, <2>9
<1> QED BY <1>1, <1>2, <1>3

(* A call and its report.                                                   *)
LEMMA NoteSteps ==
  ASSUME LinkInv, NEW i \in Ids, Report(i) \/ Dispatch(i)
  PROVE  LinkInv'
<1> USE DEF At
<1>0. PICK r \in Calls : r = call[i]
  BY DEF LinkInv
<1>a. /\ CallFits(i, r, life, DOMAIN load.calls) /\ life \in Nat /\ call \in [Ids -> Calls]
      /\ note \in [Ids -> Notes]
      /\ r.at = "execute" <=> job[i].step # "idle"
      /\ r.at = "sending" <=> note[i].step # "idle"
      /\ now \in Nat /\ now \in Marks /\ now # Never
  BY <1>0, Now DEF LinkInv
<1>1. CASE Report(i)
  <2>1. PICK c : c = [r EXCEPT !.at = "sending", !.told = now]
    OBVIOUS
  <2>2. /\ c \in Calls /\ c.at = "sending" /\ c.life = r.life /\ c.outcome = r.outcome
        /\ c.from = r.from /\ c.recorded = r.recorded /\ c.told = now
    BY <1>a, <2>1 DEF Calls, Ats
  <2>3. /\ call' = [call EXCEPT ![i] = c] /\ r.at = "notify"
        /\ UNCHANGED <<now, load, life, job, files>>
        /\ N!Notify(i, i, Topic[Asked(i).target], r.outcome, Severity[Topic[Asked(i).target]])
    BY <1>0, <1>1, <1>a, <2>1 DEF Report, execution, N!Notify
  <2>4. PICK n : n = [step |-> "dedup", key |-> <<Topic[Asked(i).target], r.outcome>>, stamp |-> now,
                      id |-> i, severity |-> N!Effective(Severity[Topic[Asked(i).target]], r.outcome)]
    OBVIOUS
  <2>5. note' = [note EXCEPT ![i] = n]
    BY <2>3, <2>4 DEF N!Notify
  <2>6. Topic[Asked(i).target] \in Topics /\ r.outcome \in N!Statuses
    BY <1>0, <1>a, <2>3, Asking DEF CallFits, Topics
  <2>7. n \in Notes /\ n.step = "dedup"
    BY <1>a, <2>4, <2>6, ActionAssumption DEF Notes, N!DedupKeys, N!Effective, N!Severities
  <2>8. /\ note' \in [Ids -> Notes] /\ note'[i].step = "dedup"
        /\ \A v \in Ids \ {i} : note'[v] = note[v]
    BY <1>a, <2>5, <2>7
  <2>9. CallFits(i, c, life, DOMAIN load.calls)
    BY <1>a, <2>2, <2>3 DEF CallFits
  <2> QED BY <1>a, <2>2, <2>3, <2>8, <2>9, OneCall
<1>2. CASE Dispatch(i)
  <2>1. PICK s : s = IF note'[i].step = "idle" THEN "answered" ELSE "sending"
    OBVIOUS
  <2>2. PICK c : c = [r EXCEPT !.at = s]
    OBVIOUS
  <2>3. /\ call' = [call EXCEPT ![i] = c] /\ r.at = "sending"
        /\ UNCHANGED <<now, load, life, job, files>> /\ N!Proceed(i)
    BY <1>0, <1>2, <1>a, <2>1, <2>2
       DEF Dispatch, execution, N!Proceed, N!Suppress, N!Pass, N!Send
  <2>4. /\ c \in Calls /\ c.at = s /\ c.life = r.life /\ c.outcome = r.outcome
        /\ c.from = r.from /\ c.recorded = r.recorded /\ c.told = r.told
    BY <2>1, <2>2 DEF Calls, Ats
  <2>5. N!NoNote \in Notes /\ N!NoNote.step = "idle"
    BY DEF N!NoNote, Notes, N!Severities
  <2>6. /\ note' \in [Ids -> Notes] /\ \A v \in Ids \ {i} : note'[v] = note[v]
    <3>1. CASE N!Pass(i)
      BY <1>a, <3>1 DEF N!Pass, Notes
    <3>2. CASE N!Suppress(i) \/ N!Send(i)
      BY <1>a, <2>5, <3>2 DEF N!Suppress, N!Send
    <3> QED BY <2>3, <3>1, <3>2 DEF N!Proceed
  <2>7. CallFits(i, c, life, DOMAIN load.calls)
    BY <1>a, <2>1, <2>3, <2>4 DEF CallFits
  <2> QED BY <1>a, <2>1, <2>3, <2>4, <2>6, <2>7, OneCall
<1> QED BY <1>1, <1>2

(* What is not a call's step.                                               *)
LEMMA OtherSteps ==
  ASSUME ExecInv, LinkInv, Restart \/ Tick \/ World
  PROVE  ExecInv' /\ LinkInv'
<1>0. /\ load \in Workloads /\ life \in Nat /\ now \in C!Times
      /\ call \in [Ids -> Calls] /\ note \in [Ids -> Notes]
  BY DEF LinkInv
<1>1. CASE Restart
  <2>1. /\ life' = life + 1 /\ now' = now /\ load' = load /\ E!Die
        /\ note' = [i \in Ids |-> N!NoNote]
        /\ call' = [i \in Ids |-> IF At(i, "new") \/ Over(i) THEN call[i]
                                  ELSE [call[i] EXCEPT !.at = "cut"]]
    BY <1>1 DEF Restart, C!Restart, N!Forget
  <2>2. ExecInv' /\ \A i \in Ids : job'[i].step = "idle"
    BY <2>1, DieKeeps
  <2>3. N!NoNote \in Notes /\ N!NoNote.step = "idle"
    BY DEF N!NoNote, Notes, N!Severities
  <2>4. note' \in [Ids -> Notes] /\ \A i \in Ids : note'[i].step = "idle"
    BY <2>1, <2>3
  <2>5. ASSUME NEW i \in Ids
        PROVE  /\ call'[i] \in Calls /\ call'[i].at \notin {"execute", "sending", "waiting", "check"}
               /\ CallFits(i, call'[i], life', DOMAIN load'.calls)
               /\ call'[i].at = "new" => call[i].at = "new"
    <3>1. PICK r \in Calls : r = call[i]
      BY <1>0
    <3>2. CallFits(i, r, life, DOMAIN load.calls)
      BY <3>1 DEF LinkInv
    <3>3. CASE r.at \in {"new", "answered", "cut"}
      <4>1. call'[i] = r
        BY <2>1, <3>1, <3>3 DEF At, Over
      <4> QED BY <1>0, <2>1, <3>1, <3>2, <3>3, <4>1 DEF CallFits, Calls
    <3>4. CASE r.at \notin {"new", "answered", "cut"}
      <4>1. PICK c : c = [r EXCEPT !.at = "cut"]
        OBVIOUS
      <4>2. call'[i] = c
        BY <2>1, <3>1, <3>4, <4>1 DEF At, Over
      <4>3. c \in Calls /\ c.at = "cut" /\ c.life = r.life
        BY <4>1 DEF Calls, Ats
      <4> QED BY <1>0, <2>1, <3>2, <3>4, <4>2, <4>3 DEF CallFits, Calls
    <3> QED BY <3>3, <3>4
  <2>6. call' \in [Ids -> Calls]
    BY <2>1, <2>5
  <2>7. files' = files
    BY <2>1 DEF E!Die, E!cluster
  <2>8. \A i \in Ids : call[i].at = "new" => \A f \in files : f[1] # i
    BY DEF LinkInv
  <2>9. life' \in Nat /\ now' \in C!Times /\ load' \in Workloads
    BY <1>0, <2>1
  <2>10. ASSUME NEW i \in Ids
         PROVE  /\ CallFits(i, call'[i], life', DOMAIN load'.calls)
                /\ call'[i].at = "execute" <=> job'[i].step # "idle"
                /\ call'[i].at = "sending" <=> note'[i].step # "idle"
                /\ call'[i].at \in {"new", "waiting", "check"} => \A f \in files' : f[1] # i
    BY <2>2, <2>4, <2>5, <2>7, <2>8
  <2> QED BY <2>2, <2>4, <2>6, <2>9, <2>10 DEF LinkInv
<1>2. CASE Tick
  <2>1. UNCHANGED <<job, files, stuck, running, schedulable, pods, leaving, note, load, call, life>>
    BY <1>2 DEF Tick, execution, reports
  <2>2. now' \in C!Times
    BY <1>0, <1>2, TrackerAssumption DEF Tick, C!Tick, C!Times
  <2> QED BY <2>1, <2>2 DEF ExecInv, LinkInv
<1>3. CASE World
  <2>1. /\ UNCHANGED <<now, note, load, call, life>>
        /\ (\E i \in Ids : E!AbandonedEnds(i)) \/ E!PodsMove
    BY <1>3 DEF World, reports
  <2>2. ExecInv' /\ job' = job /\ files' = files
    BY <2>1, WorldKeeps
  <2> QED BY <2>1, <2>2 DEF LinkInv
<1> QED BY <1>1, <1>2, <1>3

LEMMA BaseSteps == ASSUME ExecInv, LinkInv, [Next]_vars PROVE ExecInv' /\ LinkInv'
<1>1. ASSUME UNCHANGED execution PROVE ExecInv'
  BY <1>1 DEF execution, ExecInv
<1>2. ASSUME NEW i \in Ids, Arrive(i) \/ Enter(i) \/ Serve(i) \/ CommandEnds(i) \/ ClusterAnswers(i)
      PROVE  ExecInv' /\ LinkInv'
  <2>1. CASE Arrive(i) \/ Enter(i) \/ Refuse(i) \/ NoExecutable(i) \/ Record(i) \/ Audit(i)
    <3>1. UNCHANGED execution
      BY <2>1 DEF Arrive, Enter, Refuse, NoExecutable, Record, Audit
    <3> QED BY <1>1, <2>1, <3>1, CallSteps
  <2>2. CASE Begin(i) \/ Execute(i) \/ CommandEnds(i) \/ ClusterAnswers(i) \/ Collect(i)
    BY <2>2, ExecSteps
  <2>3. CASE Report(i) \/ Dispatch(i)
    <3>1. UNCHANGED execution
      BY <2>3 DEF Report, Dispatch
    <3> QED BY <1>1, <2>3, <3>1, NoteSteps
  <2> QED BY <1>2, <2>1, <2>2, <2>3 DEF Serve
<1>3. CASE UNCHANGED vars
  BY <1>1, <1>3 DEF vars, LinkInv, execution, reports
<1> QED BY <1>2, <1>3, OtherSteps DEF Next

LEMMA BaseInit == Init => ExecInv /\ LinkInv
<1> SUFFICES ASSUME Init PROVE ExecInv /\ LinkInv
  OBVIOUS
<1>1. /\ job = [i \in Ids |-> E!NoJob] /\ files = {} /\ stuck = {} /\ running = {}
      /\ schedulable = TRUE /\ pods = Daemons /\ leaving = {} /\ now = 0
      /\ note = [i \in Ids |-> N!NoNote] /\ load \in Workloads
      /\ call = [i \in Ids |-> NotYet] /\ life = 1
  BY DEF Init, C!Init, E!Init, N!Init
<1>2. /\ E!NoJob \in Jobs /\ E!NoJob.step = "idle" /\ E!NoJob.held = FALSE
      /\ E!NoJob.outcome = "none"
  BY DEF E!NoJob, Jobs, E!Steps, Outcomes, Evictable
<1>3. ExecInv
  <2>1. \A i \in Ids : Fits(i, E!NoJob) /\ Supplied(i, E!NoJob, files)
                         /\ Emptied(E!NoJob, schedulable, pods \ leaving)
    BY <1>2 DEF Fits, Supplied, Emptied, E!Using
  <2> QED BY <1>1, <1>2, <2>1, ActionAssumption DEF ExecInv
<1>4. N!NoNote \in Notes /\ N!NoNote.step = "idle"
  BY DEF N!NoNote, Notes, N!Severities
<1>5. NotYet \in Calls /\ NotYet.at = "new" /\ \A i \in Ids : CallFits(i, NotYet, 1, DOMAIN load.calls)
  BY DEF NotYet, Calls, Ats, Outcomes, Marks, CallFits
<1>6. now \in C!Times
  BY <1>1, TrackerAssumption DEF C!Times
<1> QED BY <1>1, <1>2, <1>3, <1>4, <1>5, <1>6 DEF LinkInv

LEMMA BaseHolds == Spec => [](ExecInv /\ LinkInv)
BY BaseInit, BaseSteps, PTL DEF Spec

(* A secret's file is there while the command or the API client that was    *)
(* given its path is at work, and gone with the result, whatever call      *)
(* fails, is cut off, or runs beside it (executor.py:195-224, 345-350).    *)
THEOREM SecretsAreScoped == Spec => []SecretFilesScoped
<1>1. ExecInv => SecretFilesScoped
  <2> SUFFICES ASSUME ExecInv PROVE E!SecretFilesScoped
    BY DEF SecretFilesScoped
  <2>1. ASSUME NEW i \in Ids, job[i].step \in E!Using,
               NEW n \in DOMAIN Vaulted[job[i].target]
        PROVE  <<job[i].id, Vaulted[job[i].target][n]>> \in files
    BY <2>1 DEF ExecInv, Fits, Supplied, E!Using
  <2>2. ASSUME NEW f \in files \ stuck
        PROVE  \E i \in Ids : job[i].id = f[1] /\ job[i].step # "done"
    BY <2>2 DEF ExecInv, Fits
  <2> QED BY <2>1, <2>2 DEF E!SecretFilesScoped, E!At
<1> QED BY <1>1, BaseHolds, PTL

(* When a drain reports success, no pod stays on its node, whatever the     *)
(* cluster, other drains and other actions do meanwhile, unless somebody   *)
(* opened the node again; those on it are terminating (executor.py:649-689). *)
THEOREM DrainsAreComplete == Spec => []DrainLeavesNoPodRunning
<1>1. ExecInv => DrainLeavesNoPodRunning
  BY DEF DrainLeavesNoPodRunning, E!DrainLeavesNoPodRunning, E!DrainSucceeded, E!At, ExecInv, Emptied
<1> QED BY <1>1, BaseHolds, PTL

(***************************************************************************)
(* Reports.                                                                *)
(***************************************************************************)
(* Call i has opened a window of key k at time s: it was let through.       *)
Opens(i, k, s) ==
  \/ \E a \in attempts : a.id = i /\ a.key = k /\ a.stamp = s
  \/ note[i].step = "send" /\ note[i].key = k /\ note[i].stamp = s

Reported ==
  /\ seen \in [N!DedupKeys -> Nat \cup {Never}]
  /\ \A k \in N!DedupKeys : seen[k] # Never => seen[k] <= now
  /\ \A i \in Ids :
       /\ note[i].stamp <= now
       /\ note[i].step # "idle" =>
            /\ note[i].id = i /\ note[i].stamp = call[i].told
            /\ note[i].key = <<Topic[Asked(i).target], call[i].outcome>>
            /\ call[i].outcome = "failure" => note[i].severity # "info"
  /\ \A a \in attempts :
       /\ a.id \in Ids /\ call[a.id].at \in {"answered", "cut"}
       /\ a.key \in N!DedupKeys /\ a.stamp \in Nat /\ a.stamp <= now
       /\ a.channels \subseteq Channels
       /\ a.key[2] = "failure" => Pagers \cap N!Reached \subseteq a.channels

(* The windows opened in one life lie apart, and what is remembered of a    *)
(* key is the last of this life.                                           *)
Spaced ==
  /\ \A i \in Ids, k \in N!DedupKeys, s \in Nat :
       Opens(i, k, s) /\ call[i].life = life => seen[k] # Never /\ s <= seen[k]
  /\ \A i, j \in Ids, k \in N!DedupKeys, s, u \in Nat :
       i # j /\ Opens(i, k, s) /\ Opens(j, k, u) /\ call[i].life = call[j].life
         => s - u >= Window \/ u - s >= Window
  /\ \A k \in N!DedupKeys : seen[k] # Never =>
       \E j \in Ids, s \in Nat : s = seen[k] /\ Opens(j, k, s) /\ call[j].life = life

LEMMA OpenedFits ==
  ASSUME LinkInv, Reported, NEW i \in Ids, NEW k, NEW s, Opens(i, k, s)
  PROVE  /\ k \in N!DedupKeys /\ s \in Nat /\ s <= now
         /\ call[i].at \in {"sending", "answered", "cut"}
<1>1. CASE \E a \in attempts : a.id = i /\ a.key = k /\ a.stamp = s
  BY <1>1 DEF Reported
<1>2. CASE note[i].step = "send" /\ note[i].key = k /\ note[i].stamp = s
  <2>1. /\ call[i].at = "sending" /\ CallFits(i, call[i], life, DOMAIN load.calls)
        /\ note[i] \in Notes
    BY <1>2 DEF LinkInv
  <2>2. Asked(i).target \in Targets /\ call[i].outcome \in N!Statuses
    BY <2>1, Asking DEF CallFits
  <2>3. k = <<Topic[Asked(i).target], call[i].outcome>> /\ s \in Nat /\ s <= now
    BY <1>2, <2>1 DEF Reported, Notes
  <2>4. Topic[Asked(i).target] \in Topics
    BY <2>2 DEF Topics
  <2> QED BY <2>1, <2>2, <2>3, <2>4 DEF N!DedupKeys
<1> QED BY <1>1, <1>2 DEF Opens

(* As long as windows and lives stay, windows lie apart.                    *)
LEMMA SameOpens ==
  ASSUME Spaced, UNCHANGED <<seen, life>>,
         \A i \in Ids, k \in N!DedupKeys, s \in Nat : Opens(i, k, s)' <=> Opens(i, k, s),
         \A i \in Ids, k \in N!DedupKeys, s \in Nat :
           Opens(i, k, s) => call'[i].life = call[i].life
  PROVE  Spaced'
BY DEF Spaced

(* A step of the calls that neither begins nor ends a report.               *)
Quiet ==
  /\ UNCHANGED <<seen, note, attempts, life, load>> /\ now' \in Nat /\ now <= now'
  /\ \A i \in Ids :
       \/ call'[i] = call[i]
       \/ /\ call[i].at \notin {"sending", "answered", "cut"} /\ call'[i].at # "sending"
          /\ call'[i].at = "answered" => call'[i].outcome # "failure"

LEMMA QuietKeeps ==
  ASSUME LinkInv, Reported, Spaced, Quiet
  PROVE  Reported' /\ Spaced'
<1>1. ASSUME NEW i \in Ids, note[i].step # "idle" PROVE call'[i] = call[i]
  BY <1>1 DEF LinkInv, Quiet
<1>2. ASSUME NEW i \in Ids PROVE Asked(i)' = Asked(i)
  BY DEF Quiet, Asked
<1>3. now \in Nat /\ now' \in Nat /\ now <= now'
  BY Now DEF Quiet
<1>4. Reported'
  <2>1. \A k \in N!DedupKeys : seen'[k] # Never => seen'[k] <= now'
    BY <1>3 DEF Quiet, Reported
  <2>2. ASSUME NEW i \in Ids
        PROVE  /\ note'[i].stamp <= now'
               /\ note'[i].step # "idle" =>
                    /\ note'[i].id = i /\ note'[i].stamp = call'[i].told
                    /\ note'[i].key = <<Topic[Asked(i)'.target], call'[i].outcome>>
                    /\ call'[i].outcome = "failure" => note'[i].severity # "info"
    <3>1. note[i].stamp \in Nat /\ note'[i] = note[i]
      BY DEF LinkInv, Notes, Quiet
    <3> QED BY <1>1, <1>2, <1>3, <3>1 DEF Reported
  <2>3. ASSUME NEW a \in attempts'
        PROVE  /\ a.id \in Ids /\ call'[a.id].at \in {"answered", "cut"}
               /\ a.key \in N!DedupKeys /\ a.stamp \in Nat /\ a.stamp <= now'
               /\ a.channels \subseteq Channels
               /\ a.key[2] = "failure" => Pagers \cap N!Reached \subseteq a.channels
    <3>1. a \in attempts
      BY DEF Quiet
    <3>2. a.id \in Ids /\ call[a.id].at \in {"answered", "cut"}
      BY <3>1 DEF Reported
    <3>3. call'[a.id] = call[a.id]
      BY <3>2 DEF Quiet
    <3> QED BY <1>3, <3>1, <3>2, <3>3 DEF Reported
  <2> QED BY <2>1, <2>2, <2>3 DEF Quiet, Reported
<1>5. Spaced'
  <2>1. \A i \in Ids, k \in N!DedupKeys, s \in Nat : Opens(i, k, s)' <=> Opens(i, k, s)
    BY DEF Quiet, Opens
  <2>2. \A i \in Ids, k \in N!DedupKeys, s \in Nat : Opens(i, k, s) => call'[i].life = call[i].life
    BY OpenedFits DEF Quiet
  <2>3. UNCHANGED <<seen, life>>
    BY DEF Quiet
  <2> QED BY <2>1, <2>2, <2>3, SameOpens
<1> QED BY <1>4, <1>5

(* Every step of a call up to its report is quiet, and so are the clock and *)
(* the cluster.                                                            *)
LEMMA QuietSteps ==
  ASSUME ExecInv, LinkInv, NEW i \in Ids,
         \/ Arrive(i) \/ Enter(i) \/ Refuse(i) \/ Begin(i) \/ NoExecutable(i) \/ Execute(i)
         \/ CommandEnds(i) \/ ClusterAnswers(i) \/ Collect(i) \/ Record(i) \/ Audit(i)
  PROVE  Quiet
<1> USE DEF At, reports
<1>0. PICK r \in Calls : r = call[i]
  BY DEF LinkInv
<1>a. now \in Nat /\ call \in [Ids -> Calls] /\ CallFits(i, r, life, DOMAIN load.calls)
  BY <1>0, Now DEF LinkInv
<1>q. ASSUME NEW c, call' = [call EXCEPT ![i] = c],
             UNCHANGED <<seen, note, attempts, life, load, now>>,
             r.at \notin {"sending", "answered", "cut"}, c.at # "sending",
             c.at = "answered" => c.outcome # "failure"
      PROVE  Quiet
  <2>1. call'[i] = c /\ \A v \in Ids \ {i} : call'[v] = call[v]
    BY <1>a, <1>q
  <2>2. now' \in Nat /\ now <= now'
    BY <1>a, <1>q
  <2> QED BY <1>0, <1>q, <2>1, <2>2 DEF Quiet
<1>m. ASSUME NEW s \in Ats \ {"sending", "answered"}, call' = [call EXCEPT ![i].at = s],
             UNCHANGED <<seen, note, attempts, life, load, now>>,
             r.at \notin {"sending", "answered", "cut"}
      PROVE  Quiet
  <2>1. PICK c : c = [r EXCEPT !.at = s]
    OBVIOUS
  <2>2. call' = [call EXCEPT ![i] = c]
    BY <1>0, <1>a, <1>m, <2>1
  <2>3. c.at = s
    BY <2>1 DEF Calls
  <2> QED BY <1>m, <1>q, <2>2, <2>3
<1>w. ASSUME NEW o \in {"blocked", "raised", "none"}, Answer(i, o),
             UNCHANGED <<seen, note, attempts, life, load, now>>,
             r.at \notin {"sending", "answered", "cut"}
      PROVE  Quiet
  <2>1. PICK c : c = [r EXCEPT !.at = "answered", !.outcome = o]
    OBVIOUS
  <2>2. call' = [call EXCEPT ![i] = c]
    BY <1>0, <1>a, <1>w, <2>1 DEF Answer
  <2>3. c.at = "answered" /\ c.outcome = o
    BY <2>1 DEF Calls
  <2> QED BY <1>w, <1>q, <2>2, <2>3
<1>1. CASE Arrive(i)
  <2>1. PICK c : c = [r EXCEPT !.at = "waiting", !.life = life]
    OBVIOUS
  <2>2. /\ call' = [call EXCEPT ![i] = c] /\ r.at = "new"
        /\ UNCHANGED <<seen, note, attempts, life, load, now>>
    BY <1>0, <1>1, <1>a, <2>1 DEF Arrive
  <2>3. c.at = "waiting"
    BY <2>1 DEF Calls
  <2> QED BY <1>q, <2>2, <2>3
<1>2. CASE Enter(i)
  BY <1>0, <1>2, <1>m DEF Enter, Move, Ats
<1>3. CASE Refuse(i) \/ NoExecutable(i)
  BY <1>0, <1>3, <1>w DEF Refuse, NoExecutable
<1>4. CASE Begin(i)
  <2>1. PICK c : c = [r EXCEPT !.at = "execute", !.from = now]
    OBVIOUS
  <2>2. /\ call' = [call EXCEPT ![i] = c] /\ r.at = "check"
        /\ UNCHANGED <<seen, note, attempts, life, load, now>>
    BY <1>0, <1>4, <1>a, <2>1 DEF Begin
  <2>3. c.at = "execute"
    BY <2>1 DEF Calls
  <2> QED BY <1>q, <2>2, <2>3
<1>5. CASE Execute(i) \/ CommandEnds(i) \/ ClusterAnswers(i)
  BY <1>5, <1>a DEF Execute, CommandEnds, ClusterAnswers, Quiet
<1>6. CASE Collect(i)
  <2>1. PICK o, s : /\ o = job[i].outcome
                    /\ s = IF o = "raised" THEN "answered"
                           ELSE IF Guarded(i) THEN "record" ELSE "audit"
    OBVIOUS
  <2>2. PICK c : c = [r EXCEPT !.outcome = o, !.at = s]
    OBVIOUS
  <2>3. /\ call' = [call EXCEPT ![i] = c] /\ r.at = "execute"
        /\ UNCHANGED <<seen, note, attempts, life, load, now>>
    BY <1>0, <1>6, <1>a, <2>1, <2>2 DEF Collect
  <2>4. c.at = s /\ c.outcome = o
    BY <2>2 DEF Calls
  <2> QED BY <1>q, <2>1, <2>3, <2>4
<1>7. CASE Record(i)
  <2>1. PICK c : c = [r EXCEPT !.at = "audit", !.recorded = now]
    OBVIOUS
  <2>2. /\ call' = [call EXCEPT ![i] = c] /\ r.at = "record"
        /\ UNCHANGED <<seen, note, attempts, life, load, now>>
    BY <1>0, <1>7, <1>a, <2>1 DEF Record, C!Record
  <2>3. c.at = "audit"
    BY <2>1 DEF Calls
  <2> QED BY <1>q, <2>2, <2>3
<1>8. CASE Audit(i)
  BY <1>0, <1>8, <1>m, <1>w DEF Audit, Move, Ats
<1> QED BY <1>1, <1>2, <1>3, <1>4, <1>5, <1>6, <1>7, <1>8

LEMMA QuietWorld == ASSUME LinkInv, Tick \/ World \/ UNCHANGED vars PROVE Quiet
<1>1. now \in Nat
  BY Now
<1>2. CASE Tick
  BY <1>1, <1>2 DEF Tick, C!Tick, reports, Quiet
<1>3. CASE World \/ UNCHANGED vars
  <2>1. UNCHANGED <<now, seen, note, attempts, life, load, call>>
    BY <1>3 DEF World, vars, reports
  <2> QED BY <1>1, <2>1 DEF Quiet
<1> QED BY <1>2, <1>3

(* An answered failure of this life was told within a window that had been  *)
(* opened for it or for another failure of its topic, if there are windows. *)
Paged ==
  0 < Window => \A i \in Ids :
    call[i].at = "answered" /\ call[i].outcome = "failure" /\ call[i].life = life =>
      /\ call[i].told # Never
      /\ \E j \in Ids, s \in Nat :
           /\ Opens(j, <<Topic[Asked(i).target], "failure">>, s)
           /\ call[j].life = life /\ call[i].told - s < Window

LEMMA SamePaged ==
  ASSUME Paged, UNCHANGED <<life, load>>,
         \A j \in Ids : \A k, s : Opens(j, k, s) => Opens(j, k, s)' /\ call'[j].life = call[j].life,
         \A i \in Ids : call'[i] = call[i] \/ call'[i].at # "answered"
                          \/ call'[i].outcome # "failure"
  PROVE  Paged'
<1> SUFFICES ASSUME 0 < Window, NEW i \in Ids, call'[i].at = "answered", call'[i].outcome = "failure",
                    call'[i].life = life'
             PROVE  /\ call'[i].told # Never
                    /\ \E j \in Ids, s \in Nat :
                         /\ Opens(j, <<Topic[Asked(i).target], "failure">>, s)'
                         /\ call'[j].life = life' /\ call'[i].told - s < Window
  BY DEF Paged
<1>1. call'[i] = call[i] /\ Asked(i)' = Asked(i) /\ life' = life
  BY DEF Asked
<1>2. /\ call[i].told # Never
      /\ \E j \in Ids, s \in Nat :
           /\ Opens(j, <<Topic[Asked(i).target], "failure">>, s)
           /\ call[j].life = life /\ call[i].told - s < Window
  BY <1>1 DEF Paged
<1> QED BY <1>1, <1>2

LEMMA QuietPaged == ASSUME LinkInv, Reported, Paged, Quiet PROVE Paged'
<1>1. UNCHANGED <<life, load>>
  BY DEF Quiet
<1>2. ASSUME NEW j \in Ids, NEW k, NEW s, Opens(j, k, s)
      PROVE  Opens(j, k, s)' /\ call'[j].life = call[j].life
  <2>1. call[j].at \in {"sending", "answered", "cut"}
    BY <1>2, OpenedFits
  <2> QED BY <1>2, <2>1 DEF Quiet, Opens
<1>3. \A i \in Ids : call'[i] = call[i] \/ call'[i].at # "answered" \/ call'[i].outcome # "failure"
  BY DEF Quiet
<1> QED BY <1>1, <1>2, <1>3, SamePaged

(* A report begins: its stamp is the moment it is told.                     *)
LEMMA ReportKeeps ==
  ASSUME LinkInv, Reported, Spaced, Paged, NEW i \in Ids, Report(i)
  PROVE  Reported' /\ Spaced' /\ Paged'
<1> USE DEF At
<1>0. PICK r \in Calls : r = call[i]
  BY DEF LinkInv
<1>1. PICK c : c = [r EXCEPT !.at = "sending", !.told = now]
  OBVIOUS
<1>2. c \in [at: Ats, outcome: Outcomes \cup {"blocked"}, from: Marks, recorded: Marks,
             told: Marks, life: Nat] /\ c.at = "sending" /\ c.life = r.life
      /\ c.outcome = r.outcome /\ c.told = now
  BY <1>1, Now DEF Calls, Ats
<1>3. /\ call' = [call EXCEPT ![i] = c] /\ r.at = "notify" /\ call \in [Ids -> Calls]
      /\ UNCHANGED <<now, load, life, seen, attempts>> /\ now \in Nat /\ note \in [Ids -> Notes]
      /\ N!Notify(i, i, Topic[Asked(i).target], r.outcome, Severity[Topic[Asked(i).target]])
  BY <1>0, <1>1, Now DEF LinkInv, Report, N!Notify
<1>4. PICK n : n = [step |-> "dedup", key |-> <<Topic[Asked(i).target], r.outcome>>, stamp |-> now,
                    id |-> i, severity |-> N!Effective(Severity[Topic[Asked(i).target]], r.outcome)]
  OBVIOUS
<1>5. /\ note' = [note EXCEPT ![i] = n] /\ note[i].step = "idle"
      /\ call'[i] = c /\ note'[i] = n
      /\ \A v \in Ids \ {i} : call'[v] = call[v] /\ note'[v] = note[v]
  BY <1>3, <1>4 DEF N!Notify
<1>6. /\ n.step = "dedup" /\ n.stamp = now /\ n.id = i
      /\ n.key = <<Topic[Asked(i).target], r.outcome>>
      /\ r.outcome = "failure" => n.severity # "info"
  BY <1>4 DEF N!Effective
<1>7. Asked(i)' = Asked(i) /\ \A v \in Ids : Asked(v)' = Asked(v)
  BY <1>3 DEF Asked
<1>8. Reported'
  <2>1. ASSUME NEW v \in Ids
        PROVE  /\ note'[v].stamp <= now'
               /\ note'[v].step # "idle" =>
                    /\ note'[v].id = v /\ note'[v].stamp = call'[v].told
                    /\ note'[v].key = <<Topic[Asked(v)'.target], call'[v].outcome>>
                    /\ call'[v].outcome = "failure" => note'[v].severity # "info"
    <3>1. CASE v = i
      BY <1>2, <1>3, <1>5, <1>6, <1>7, <3>1
    <3>2. CASE v # i
      BY <1>3, <1>5, <1>7, <3>2 DEF Reported
    <3> QED BY <3>1, <3>2
  <2>2. ASSUME NEW a \in attempts'
        PROVE  /\ a.id \in Ids /\ call'[a.id].at \in {"answered", "cut"}
               /\ a.key \in N!DedupKeys /\ a.stamp \in Nat /\ a.stamp <= now'
               /\ a.channels \subseteq Channels
               /\ a.key[2] = "failure" => Pagers \cap N!Reached \subseteq a.channels
    <3>1. a \in attempts
      BY <1>3
    <3>2. a.id \in Ids /\ call[a.id].at \in {"answered", "cut"}
      BY <3>1 DEF Reported
    <3>3. call'[a.id] = call[a.id]
      BY <1>0, <1>3, <1>5, <3>2
    <3> QED BY <1>3, <3>1, <3>2, <3>3 DEF Reported
  <2> QED BY <1>3, <2>1, <2>2 DEF Reported
<1>9. ASSUME NEW j \in Ids, NEW k, NEW s
      PROVE  /\ Opens(j, k, s)' <=> Opens(j, k, s)
             /\ call'[j].life = call[j].life
  BY <1>0, <1>2, <1>3, <1>5, <1>6 DEF Opens
<1>10. Spaced'
  BY <1>3, <1>9, SameOpens
<1>11. \A v \in Ids : call'[v] = call[v] \/ call'[v].at # "answered" \/ call'[v].outcome # "failure"
  BY <1>2, <1>5
<1>12. Paged'
  BY <1>3, <1>9, <1>11, SamePaged
<1> QED BY <1>8, <1>10, <1>12

(* What holds of the call and the report that go on.                        *)
LEMMA Going ==
  ASSUME LinkInv, Reported, NEW i \in Ids, Dispatch(i)
  PROVE  /\ call[i].at = "sending" /\ call[i] \in Calls /\ call[i].life = life
         /\ note \in [Ids -> Notes] /\ call \in [Ids -> Calls] /\ now \in Nat
         /\ note[i].id = i /\ note[i].stamp = call[i].told /\ note[i].stamp \in Nat
         /\ note[i].stamp <= now /\ note[i].key \in N!DedupKeys
         /\ note[i].key = <<Topic[Asked(i).target], call[i].outcome>>
         /\ call[i].outcome = "failure" => note[i].severity # "info"
         /\ UNCHANGED <<now, load, life>> /\ call[i].told # Never
         /\ N!Suppress(i) \/ N!Pass(i) \/ N!Send(i)
         /\ \E c : /\ c.at = (IF note'[i].step = "idle" THEN "answered" ELSE "sending")
                   /\ c.life = call[i].life /\ c.outcome = call[i].outcome
                   /\ c.told = call[i].told /\ c.from = call[i].from
                   /\ c.recorded = call[i].recorded /\ call'[i] = c
         /\ \A v \in Ids \ {i} : call'[v] = call[v] /\ note'[v] = note[v]
         /\ \A v \in Ids : Asked(v)' = Asked(v)
<1> USE DEF At
<1>0. PICK r \in Calls : r = call[i]
  BY DEF LinkInv
<1>1. /\ r.at = "sending" /\ call \in [Ids -> Calls] /\ note \in [Ids -> Notes] /\ note[i].step # "idle"
      /\ CallFits(i, r, life, DOMAIN load.calls) /\ now \in Nat
  BY <1>0, Now DEF LinkInv, Dispatch
<1>2. PICK c : c = [r EXCEPT !.at = IF note'[i].step = "idle" THEN "answered" ELSE "sending"]
  OBVIOUS
<1>3. /\ c.at = (IF note'[i].step = "idle" THEN "answered" ELSE "sending")
      /\ c.life = r.life /\ c.outcome = r.outcome /\ c.told = r.told
      /\ c.from = r.from /\ c.recorded = r.recorded
  BY <1>2 DEF Calls
<1>4. call' = [call EXCEPT ![i] = c] /\ N!Proceed(i) /\ UNCHANGED load /\ UNCHANGED life
  BY <1>0, <1>1, <1>2 DEF Dispatch
<1>5. UNCHANGED now /\ (N!Suppress(i) \/ N!Pass(i) \/ N!Send(i))
  BY <1>4 DEF N!Proceed, N!Suppress, N!Pass, N!Send
<1>6. \A v \in Ids \ {i} : note'[v] = note[v]
  BY <1>1, <1>5 DEF N!Suppress, N!Pass, N!Send
<1>7. call'[i] = c /\ \A v \in Ids \ {i} : call'[v] = call[v]
  BY <1>1, <1>4
<1>8. \A v \in Ids : Asked(v)' = Asked(v)
  BY <1>4 DEF Asked
<1>9. Opens(i, note[i].key, note[i].stamp) \/ note[i].step # "send"
  BY DEF Opens
<1>10. /\ note[i].id = i /\ note[i].stamp = call[i].told /\ note[i].stamp \in Nat
       /\ note[i].stamp <= now
       /\ note[i].key = <<Topic[Asked(i).target], call[i].outcome>>
       /\ call[i].outcome = "failure" => note[i].severity # "info"
  BY <1>1 DEF Reported, Notes
<1>11. note[i].key \in N!DedupKeys
  <2>1. Asked(i).target \in Targets /\ r.outcome \in N!Statuses
    BY <1>0, <1>1, Asking DEF CallFits
  <2>2. Topic[Asked(i).target] \in Topics
    BY <2>1 DEF Topics
  <2> QED BY <1>0, <1>10, <2>1, <2>2 DEF N!DedupKeys
<1>12. call[i].life = life /\ call[i].told # Never
  BY <1>0, <1>1 DEF CallFits
<1>13. \E q : /\ q.at = (IF note'[i].step = "idle" THEN "answered" ELSE "sending")
              /\ q.life = call[i].life /\ q.outcome = call[i].outcome
              /\ q.told = call[i].told /\ q.from = call[i].from
              /\ q.recorded = call[i].recorded /\ call'[i] = q
  BY <1>0, <1>3, <1>7
<1> QED BY <1>0, <1>1, <1>4, <1>5, <1>6, <1>7, <1>8, <1>10, <1>11, <1>12, <1>13

(* It is suppressed: a window of its key is open.                           *)
LEMMA SuppressKeeps ==
  ASSUME LinkInv, Reported, Spaced, Paged, NEW i \in Ids, Dispatch(i), N!Suppress(i)
  PROVE  Reported' /\ Spaced' /\ Paged'
<1>1. /\ note[i].step = "dedup" /\ N!Recent(i) /\ note' = [note EXCEPT ![i] = N!NoNote]
      /\ UNCHANGED <<now, seen, attempts>> /\ N!NoNote.step = "idle" /\ N!NoNote.stamp = 0
  BY DEF N!Suppress, N!NoNote
<1>2. /\ note'[i] = N!NoNote /\ now \in Nat /\ UNCHANGED <<life, load>>
      /\ call'[i].at = "answered" /\ call'[i].life = call[i].life
      /\ call'[i].outcome = call[i].outcome /\ call'[i].told = call[i].told
      /\ \A v \in Ids \ {i} : call'[v] = call[v] /\ note'[v] = note[v]
      /\ \A v \in Ids : Asked(v)' = Asked(v)
  BY <1>1, Going
<1>3. ASSUME NEW v \in Ids
      PROVE  /\ note'[v].stamp <= now'
             /\ note'[v].step # "idle" =>
                  /\ note'[v].id = v /\ note'[v].stamp = call'[v].told
                  /\ note'[v].key = <<Topic[Asked(v)'.target], call'[v].outcome>>
                  /\ call'[v].outcome = "failure" => note'[v].severity # "info"
  <2>1. CASE v = i
    BY <1>1, <1>2, <2>1
  <2>2. CASE v # i
    BY <1>1, <1>2, <2>2 DEF Reported
  <2> QED BY <2>1, <2>2
<1>4. ASSUME NEW a \in attempts'
      PROVE  /\ a.id \in Ids /\ call'[a.id].at \in {"answered", "cut"}
             /\ a.key \in N!DedupKeys /\ a.stamp \in Nat /\ a.stamp <= now'
             /\ a.channels \subseteq Channels
             /\ a.key[2] = "failure" => Pagers \cap N!Reached \subseteq a.channels
  BY <1>1, <1>2 DEF Reported
<1>5. Reported'
  BY <1>1, <1>3, <1>4 DEF Reported
<1>6. ASSUME NEW j \in Ids, NEW k, NEW s
      PROVE  (Opens(j, k, s)' <=> Opens(j, k, s)) /\ call'[j].life = call[j].life
  BY <1>1, <1>2 DEF Opens
<1>7. Spaced'
  BY <1>1, <1>2, <1>6, SameOpens
<1>8. Paged'
  <2>1. PICK j \in Ids, s \in Nat : /\ s = seen[note[i].key] /\ Opens(j, note[i].key, s)
                                     /\ call[j].life = life
    BY <1>1, Going DEF N!Recent, Spaced
  <2>2. call[i].told - s < Window
    BY <1>1, <2>1, Going DEF N!Recent
  <2>3. ASSUME 0 < Window, NEW v \in Ids, call'[v].at = "answered", call'[v].outcome = "failure",
               call'[v].life = life'
        PROVE  /\ call'[v].told # Never
               /\ \E w \in Ids, u \in Nat :
                    /\ Opens(w, <<Topic[Asked(v)'.target], "failure">>, u)
                    /\ call'[w].life = life' /\ call'[v].told - u < Window
    <3>1. CASE v = i
      <4>1. note[i].key = <<Topic[Asked(i).target], "failure">> /\ call[i].told # Never
        BY <1>2, <2>3, <3>1, Going
      <4> QED BY <1>2, <1>6, <2>1, <2>2, <3>1, <4>1
    <3>2. CASE v # i
      <4>1. call'[v] = call[v]
        BY <1>2, <3>2
      <4>2. /\ call[v].told # Never
            /\ \E w \in Ids, u \in Nat :
                 /\ Opens(w, <<Topic[Asked(v).target], "failure">>, u)
                 /\ call[w].life = life /\ call[v].told - u < Window
        BY <1>2, <2>3, <4>1 DEF Paged
      <4> QED BY <1>2, <1>6, <4>1, <4>2
    <3> QED BY <3>1, <3>2
  <2> QED BY <1>2, <1>6, <2>3 DEF Paged
<1> QED BY <1>5, <1>7, <1>8

(* It is let through, and opens a window that lies apart from the others.   *)
LEMMA PassKeeps ==
  ASSUME LinkInv, Reported, Spaced, Paged, NEW i \in Ids, Dispatch(i), N!Pass(i)
  PROVE  Reported' /\ Spaced' /\ Paged'
<1>0. PICK n \in Notes : n = note[i]
  BY Going
<1>1. PICK m : m = [n EXCEPT !.step = "send"]
  OBVIOUS
<1>2. /\ m.step = "send" /\ m.key = n.key /\ m.stamp = n.stamp /\ m.id = n.id
      /\ m.severity = n.severity /\ n.key \in N!DedupKeys /\ n.stamp \in Nat /\ n.stamp <= now
  BY <1>0, <1>1, Going DEF Notes
<1>3. /\ n.step = "dedup" /\ ~N!Recent(i) /\ note' = [note EXCEPT ![i] = m]
      /\ seen' = [seen EXCEPT ![n.key] = n.stamp]
      /\ UNCHANGED <<now, attempts>>
  BY <1>0, <1>1, Going DEF N!Pass
<1>4. /\ note'[i] = m /\ now \in Nat /\ UNCHANGED <<life, load>>
      /\ call'[i].at = "sending" /\ call'[i].life = call[i].life /\ call[i].life = life
      /\ call'[i].outcome = call[i].outcome /\ call'[i].told = call[i].told
      /\ \A v \in Ids \ {i} : call'[v] = call[v] /\ note'[v] = note[v]
      /\ \A v \in Ids : Asked(v)' = Asked(v)
  BY <1>2, <1>3, Going
<1>5. /\ seen \in [N!DedupKeys -> Nat \cup {Never}] /\ seen' \in [N!DedupKeys -> Nat \cup {Never}]
      /\ seen'[n.key] = n.stamp /\ \A k \in N!DedupKeys : k # n.key => seen'[k] = seen[k]
  BY <1>2, <1>3 DEF Reported
<1>6. Reported'
  <2>1. ASSUME NEW v \in Ids
        PROVE  /\ note'[v].stamp <= now'
               /\ note'[v].step # "idle" =>
                    /\ note'[v].id = v /\ note'[v].stamp = call'[v].told
                    /\ note'[v].key = <<Topic[Asked(v)'.target], call'[v].outcome>>
                    /\ call'[v].outcome = "failure" => note'[v].severity # "info"
    <3>1. CASE v = i
      BY <1>0, <1>2, <1>3, <1>4, <3>1, Going
    <3>2. CASE v # i
      BY <1>3, <1>4, <3>2 DEF Reported
    <3> QED BY <3>1, <3>2
  <2>2. ASSUME NEW a \in attempts'
        PROVE  /\ a.id \in Ids /\ call'[a.id].at \in {"answered", "cut"}
               /\ a.key \in N!DedupKeys /\ a.stamp \in Nat /\ a.stamp <= now'
               /\ a.channels \subseteq Channels
               /\ a.key[2] = "failure" => Pagers \cap N!Reached \subseteq a.channels
    <3>1. a \in attempts
      BY <1>3
    <3>2. a.id # i
      BY <3>1, Going DEF Reported
    <3> QED BY <1>3, <1>4, <3>1, <3>2 DEF Reported
  <2>3. \A k \in N!DedupKeys : seen'[k] # Never => seen'[k] <= now'
    BY <1>2, <1>3, <1>5 DEF Reported
  <2> QED BY <1>5, <2>1, <2>2, <2>3 DEF Reported
<1>7. ASSUME NEW j \in Ids, NEW k, NEW s
      PROVE  /\ Opens(j, k, s)' <=> Opens(j, k, s) \/ (j = i /\ k = n.key /\ s = n.stamp)
             /\ call'[j].life = call[j].life
  BY <1>0, <1>2, <1>3, <1>4 DEF Opens
<1>n. n.stamp # Never
  BY <1>2, TrackerAssumption
<1>8. ASSUME NEW s \in Nat, NEW j \in Ids, Opens(j, n.key, s), call[j].life = life
      PROVE  s <= n.stamp /\ n.stamp - s >= Window
  <2>1. seen[n.key] # Never /\ s <= seen[n.key] /\ seen[n.key] \in Nat
    BY <1>2, <1>5, <1>8 DEF Spaced
  <2>2. n.stamp - seen[n.key] >= Window
    BY <1>0, <1>2, <1>3, <2>1, ActionAssumption DEF N!Recent
  <2> QED BY <1>2, <2>1, <2>2, ActionAssumption
<1>9. Spaced'
  <2>1. ASSUME NEW j \in Ids, NEW k \in N!DedupKeys, NEW s \in Nat,
               Opens(j, k, s)', call'[j].life = life'
        PROVE  seen'[k] # Never /\ s <= seen'[k]
    <3>1. CASE j = i /\ k = n.key /\ s = n.stamp
      BY <1>2, <1>5, <1>n, <3>1
    <3>2. CASE Opens(j, k, s)
      BY <1>2, <1>4, <1>5, <1>7, <1>8, <1>n, <2>1, <3>2 DEF Spaced
    <3> QED BY <1>7, <2>1, <3>1, <3>2
  <2>2. ASSUME NEW a \in Ids, NEW b \in Ids, NEW k \in N!DedupKeys, NEW s \in Nat, NEW u \in Nat,
               a # b, Opens(a, k, s)', Opens(b, k, u)', call'[a].life = call'[b].life
        PROVE  s - u >= Window \/ u - s >= Window
    <3>1. call[a].life = call[b].life
      BY <1>7, <2>2
    <3>2. CASE Opens(a, k, s) /\ Opens(b, k, u)
      BY <2>2, <3>1, <3>2 DEF Spaced
    <3>3. CASE a = i /\ k = n.key /\ s = n.stamp
      <4>1. Opens(b, k, u) /\ call[b].life = life
        BY <1>4, <1>7, <2>2, <3>1, <3>3
      <4> QED BY <1>8, <3>3, <4>1
    <3>4. CASE b = i /\ k = n.key /\ u = n.stamp
      <4>1. Opens(a, k, s) /\ call[a].life = life
        BY <1>4, <1>7, <2>2, <3>1, <3>4
      <4> QED BY <1>8, <3>4, <4>1
    <3> QED BY <1>7, <2>2, <3>2, <3>3, <3>4
  <2>3. ASSUME NEW k \in N!DedupKeys, seen'[k] # Never
        PROVE  \E j \in Ids, s \in Nat : s = seen'[k] /\ Opens(j, k, s)' /\ call'[j].life = life'
    <3>1. CASE k = n.key
      BY <1>2, <1>4, <1>5, <1>7, <3>1
    <3>2. CASE k # n.key
      <4>1. seen'[k] = seen[k]
        BY <1>5, <3>2
      <4>2. PICK j \in Ids, s \in Nat : s = seen[k] /\ Opens(j, k, s) /\ call[j].life = life
        BY <2>3, <4>1 DEF Spaced
      <4> QED BY <1>4, <1>7, <4>1, <4>2
    <3> QED BY <3>1, <3>2
  <2> QED BY <2>1, <2>2, <2>3 DEF Spaced
<1>10. Paged'
  <2>1. \A v \in Ids : call'[v] = call[v] \/ call'[v].at # "answered" \/ call'[v].outcome # "failure"
    BY <1>4
  <2>2. \A j \in Ids : \A k, s : Opens(j, k, s) => Opens(j, k, s)' /\ call'[j].life = call[j].life
    BY <1>7
  <2> QED BY <1>4, <2>1, <2>2, SamePaged
<1> QED BY <1>6, <1>9, <1>10

(* It is sent, and a failure to every pager.                                *)
LEMMA SendKeeps ==
  ASSUME LinkInv, Reported, Spaced, Paged, NEW i \in Ids, Dispatch(i), N!Send(i)
  PROVE  Reported' /\ Spaced' /\ Paged'
<1>0. PICK n \in Notes : n = note[i]
  BY Going
<1>1. PICK a : a = [id |-> n.id, key |-> n.key, stamp |-> n.stamp,
                    channels |-> N!Sent(n.severity, n.key[2])]
  OBVIOUS
<1>2. /\ n.step = "send" /\ attempts' = attempts \cup {a}
      /\ note' = [note EXCEPT ![i] = N!NoNote] /\ UNCHANGED <<now, seen>>
      /\ N!NoNote.step = "idle" /\ N!NoNote.stamp = 0
  BY <1>0, <1>1 DEF N!Send, N!NoNote
<1>3. /\ a.id = i /\ a.key = n.key /\ a.stamp = n.stamp /\ a.stamp \in Nat /\ a.stamp <= now
      /\ a.key \in N!DedupKeys /\ a.channels = N!Sent(n.severity, n.key[2])
  BY <1>0, <1>1, Going
<1>4. /\ note'[i] = N!NoNote /\ now \in Nat /\ UNCHANGED <<life, load>>
      /\ call'[i].at = "answered" /\ call'[i].life = call[i].life /\ call[i].life = life
      /\ call'[i].outcome = call[i].outcome /\ call'[i].told = call[i].told
      /\ \A v \in Ids \ {i} : call'[v] = call[v] /\ note'[v] = note[v]
      /\ \A v \in Ids : Asked(v)' = Asked(v)
  BY <1>2, Going
<1>5. a.channels \subseteq Channels /\ (a.key[2] = "failure" => Pagers \cap N!Reached \subseteq a.channels)
  <2>1. a.channels \subseteq Channels
    BY <1>3 DEF N!Sent, N!Wanted
  <2>2. ASSUME a.key[2] = "failure" PROVE Pagers \cap N!Reached \subseteq a.channels
    <3>1. n.key[2] = call[i].outcome
      BY <1>0, Going
    <3>2. n.severity \in {"warning", "critical"}
      BY <1>0, <1>3, <2>2, <3>1, Going DEF Notes, N!Severities
    <3>3. Pagers \subseteq N!Wanted(n.severity, "failure")
      BY <3>2, PagerAssumption, ActionAssumption DEF N!Wanted
    <3> QED BY <1>3, <2>2, <3>3 DEF N!Sent, N!Reached
  <2> QED BY <2>1, <2>2
<1>6. Reported'
  <2>1. ASSUME NEW v \in Ids
        PROVE  /\ note'[v].stamp <= now'
               /\ note'[v].step # "idle" =>
                    /\ note'[v].id = v /\ note'[v].stamp = call'[v].told
                    /\ note'[v].key = <<Topic[Asked(v)'.target], call'[v].outcome>>
                    /\ call'[v].outcome = "failure" => note'[v].severity # "info"
    <3>1. CASE v = i
      BY <1>2, <1>4, <3>1
    <3>2. CASE v # i
      BY <1>2, <1>4, <3>2 DEF Reported
    <3> QED BY <3>1, <3>2
  <2>2. ASSUME NEW b \in attempts'
        PROVE  /\ b.id \in Ids /\ call'[b.id].at \in {"answered", "cut"}
               /\ b.key \in N!DedupKeys /\ b.stamp \in Nat /\ b.stamp <= now'
               /\ b.channels \subseteq Channels
               /\ b.key[2] = "failure" => Pagers \cap N!Reached \subseteq b.channels
    <3>1. CASE b = a
      BY <1>2, <1>3, <1>4, <1>5, <3>1
    <3>2. CASE b \in attempts
      BY <1>2, <1>4, <3>2 DEF Reported
    <3> QED BY <1>2, <3>1, <3>2
  <2> QED BY <1>2, <2>1, <2>2 DEF Reported
<1>7. ASSUME NEW j \in Ids, NEW k, NEW s
      PROVE  (Opens(j, k, s)' <=> Opens(j, k, s)) /\ call'[j].life = call[j].life
  <2>1. CASE j = i
    BY <1>0, <1>2, <1>3, <1>4, <2>1 DEF Opens
  <2>2. CASE j # i
    BY <1>0, <1>2, <1>3, <1>4, <2>2 DEF Opens
  <2> QED BY <2>1, <2>2
<1>8. Spaced'
  BY <1>2, <1>4, <1>7, SameOpens
<1>9. Opens(i, n.key, n.stamp) /\ n.stamp \in Nat /\ (0 < Window => call[i].told - n.stamp < Window)
      /\ call[i].told # Never /\ n.key = <<Topic[Asked(i).target], call[i].outcome>>
  BY <1>0, <1>2, Going DEF Opens
<1>10. Paged'
  <2>1. ASSUME 0 < Window, NEW v \in Ids, call'[v].at = "answered", call'[v].outcome = "failure",
               call'[v].life = life'
        PROVE  /\ call'[v].told # Never
               /\ \E w \in Ids, u \in Nat :
                    /\ Opens(w, <<Topic[Asked(v)'.target], "failure">>, u)
                    /\ call'[w].life = life' /\ call'[v].told - u < Window
    <3>1. CASE v = i
      BY <1>4, <1>9, <2>1, <3>1
    <3>2. CASE v # i
      <4>1. call'[v] = call[v]
        BY <1>4, <3>2
      <4>2. /\ call[v].told # Never
            /\ \E w \in Ids, u \in Nat :
                 /\ Opens(w, <<Topic[Asked(v).target], "failure">>, u)
                 /\ call[w].life = life /\ call[v].told - u < Window
        BY <1>4, <2>1, <4>1 DEF Paged
      <4> QED BY <1>4, <1>7, <4>1, <4>2
    <3> QED BY <3>1, <3>2
  <2> QED BY <1>4, <1>7, <2>1 DEF Paged
<1> QED BY <1>6, <1>8, <1>10

(* A restart forgets every window and ends every report.                    *)
LEMMA RestartReports ==
  ASSUME LinkInv, Reported, Spaced, Restart
  PROVE  Reported' /\ Spaced' /\ Paged'
<1>1. /\ life' = life + 1 /\ life \in Nat /\ now' = now /\ now \in Nat /\ attempts' = attempts
      /\ seen' = [k \in N!DedupKeys |-> Never] /\ note' = [i \in Ids |-> N!NoNote]
      /\ call' = [i \in Ids |-> IF At(i, "new") \/ Over(i) THEN call[i]
                                ELSE [call[i] EXCEPT !.at = "cut"]]
  BY Now DEF Restart, C!Restart, N!Forget, LinkInv
<1>2. N!NoNote.step = "idle" /\ N!NoNote.stamp = 0
  BY DEF N!NoNote
<1>3. \A i \in Ids : note'[i].step = "idle" /\ note'[i].stamp = 0
  BY <1>1, <1>2
<1>4. ASSUME NEW i \in Ids
      PROVE  /\ call'[i].life = call[i].life /\ call'[i].life # life'
             /\ call[i].at \in {"answered", "cut"} => call'[i] = call[i]
  <2>1. PICK r \in Calls : r = call[i]
    BY DEF LinkInv
  <2>2. CallFits(i, r, life, DOMAIN load.calls)
    BY <2>1 DEF LinkInv
  <2>3. r.life \in Nat /\ r.life <= life
    BY <2>2 DEF CallFits, Calls
  <2>4. [r EXCEPT !.at = "cut"].life = r.life
    BY DEF Calls
  <2>5. r.at \in {"answered", "cut"} => call'[i] = r
    BY <1>1, <2>1 DEF Over
  <2> QED BY <1>1, <2>1, <2>3, <2>4, <2>5
<1>5. Reported'
  <2>1. ASSUME NEW a \in attempts'
        PROVE  /\ a.id \in Ids /\ call'[a.id].at \in {"answered", "cut"}
               /\ a.key \in N!DedupKeys /\ a.stamp \in Nat /\ a.stamp <= now'
               /\ a.channels \subseteq Channels
               /\ a.key[2] = "failure" => Pagers \cap N!Reached \subseteq a.channels
    <3>1. a \in attempts
      BY <1>1
    <3>2. a.id \in Ids /\ call[a.id].at \in {"answered", "cut"}
      BY <3>1 DEF Reported
    <3>3. call'[a.id] = call[a.id]
      BY <1>4, <3>2
    <3> QED BY <1>1, <3>1, <3>2, <3>3 DEF Reported
  <2>2. \A k \in N!DedupKeys : seen'[k] = Never
    BY <1>1
  <2>3. seen' \in [N!DedupKeys -> Nat \cup {Never}]
    BY <1>1
  <2>4. \A i \in Ids : note'[i].stamp <= now'
    BY <1>1, <1>3
  <2> QED BY <1>3, <2>1, <2>2, <2>3, <2>4 DEF Reported
<1>6. ASSUME NEW j \in Ids, NEW k, NEW s, Opens(j, k, s)' PROVE Opens(j, k, s)
  BY <1>1, <1>3, <1>6 DEF Opens
<1>7. Spaced'
  <2>1. \A j \in Ids : call'[j].life # life'
    BY <1>4
  <2>2. ASSUME NEW a \in Ids, NEW b \in Ids, NEW k \in N!DedupKeys, NEW s \in Nat, NEW u \in Nat,
               a # b, Opens(a, k, s)', Opens(b, k, u)', call'[a].life = call'[b].life
        PROVE  s - u >= Window \/ u - s >= Window
    <3>1. Opens(a, k, s) /\ Opens(b, k, u) /\ call[a].life = call[b].life
      BY <1>4, <1>6, <2>2
    <3> QED BY <2>2, <3>1 DEF Spaced
  <2>3. \A k \in N!DedupKeys : seen'[k] = Never
    BY <1>1
  <2> QED BY <2>1, <2>2, <2>3 DEF Spaced
<1>8. Paged'
  <2>1. \A i \in Ids : call'[i].life # life'
    BY <1>4
  <2> QED BY <2>1 DEF Paged
<1> QED BY <1>5, <1>7, <1>8

ReportInv == Reported /\ Spaced /\ Paged

LEMMA ReportSteps == ASSUME ExecInv, LinkInv, ReportInv, [Next]_vars PROVE ReportInv'
<1>1. ASSUME Quiet PROVE ReportInv'
  BY <1>1, QuietKeeps, QuietPaged DEF ReportInv
<1>2. ASSUME NEW i \in Ids, Arrive(i) \/ Enter(i) \/ Serve(i) \/ CommandEnds(i) \/ ClusterAnswers(i)
      PROVE  ReportInv'
  <2>1. CASE \/ Arrive(i) \/ Enter(i) \/ Refuse(i) \/ Begin(i) \/ NoExecutable(i) \/ Execute(i)
             \/ CommandEnds(i) \/ ClusterAnswers(i) \/ Collect(i) \/ Record(i) \/ Audit(i)
    BY <1>1, <2>1, QuietSteps
  <2>2. CASE Report(i)
    BY <2>2, ReportKeeps DEF ReportInv
  <2>3. CASE Dispatch(i)
    BY <2>3, Going, SuppressKeeps, PassKeeps, SendKeeps DEF ReportInv
  <2> QED BY <1>2, <2>1, <2>2, <2>3 DEF Serve
<1>3. CASE Restart
  BY <1>3, RestartReports DEF ReportInv
<1>4. CASE Tick \/ World \/ UNCHANGED vars
  BY <1>1, <1>4, QuietWorld
<1> QED BY <1>2, <1>3, <1>4 DEF Next

LEMMA ReportInit == Init => ReportInv
<1> SUFFICES ASSUME Init PROVE ReportInv
  OBVIOUS
<1>1. /\ seen = [k \in N!DedupKeys |-> Never] /\ note = [i \in Ids |-> N!NoNote]
      /\ attempts = {} /\ call = [i \in Ids |-> NotYet] /\ now = 0
  BY DEF Init, C!Init, N!Init
<1>2. N!NoNote.step = "idle" /\ N!NoNote.stamp = 0 /\ NotYet.at = "new"
  BY DEF N!NoNote, NotYet
<1>3. \A i \in Ids : note[i].step = "idle" /\ note[i].stamp = 0 /\ call[i].at = "new"
  BY <1>1, <1>2
<1>4. \A i \in Ids : \A k, s : ~Opens(i, k, s)
  BY <1>1, <1>3 DEF Opens
<1>5. seen \in [N!DedupKeys -> Nat \cup {Never}] /\ \A k \in N!DedupKeys : seen[k] = Never
  BY <1>1
<1> QED BY <1>1, <1>3, <1>4, <1>5 DEF ReportInv, Reported, Spaced, Paged

LEMMA ReportHolds == Spec => [](ExecInv /\ LinkInv /\ ReportInv)
BY BaseInit, BaseSteps, ReportInit, ReportSteps, PTL DEF Spec

(* Within one life of the process the same outcome of the same topic is not *)
(* sent twice within the dedup window, though the clock is read before the *)
(* lock is taken and any number of threads report at once                  *)
(* (notifications.py:142-151, 185-189).                                    *)
THEOREM AnnouncementsAreSpaced == Spec => []AnnouncedOncePerWindow
<1>1. LinkInv /\ ReportInv => AnnouncedOncePerWindow
  <2> SUFFICES ASSUME LinkInv, ReportInv, NEW a \in attempts, NEW b \in attempts, a.id # b.id,
                      a.key = b.key, call[a.id].life = call[b.id].life
               PROVE  a.stamp - b.stamp >= Window \/ b.stamp - a.stamp >= Window
    BY DEF AnnouncedOncePerWindow
  <2>1. Opens(a.id, a.key, a.stamp) /\ Opens(b.id, a.key, b.stamp)
    BY DEF Opens
  <2>2. a.id \in Ids /\ b.id \in Ids /\ a.key \in N!DedupKeys /\ a.stamp \in Nat /\ b.stamp \in Nat
    BY DEF ReportInv, Reported
  <2> QED BY <2>1, <2>2 DEF ReportInv, Spaced
<1> QED BY <1>1, ReportHolds, PTL

(* While windows have a length, no answered failure goes unheard: a failure *)
(* of its topic, told less than a window before it or later, was or is     *)
(* about to be sent to every pager no malformed template comes before      *)
(* (notifications.py:129-156, 185-209).                                    *)
THEOREM FailuresArePaged == ASSUME 0 < Window PROVE Spec => []FailurePaged
<1>1. ASSUME LinkInv, ReportInv PROVE FailurePaged
  <2>0. DOMAIN load.calls \subseteq Ids
    BY <1>1, WorkloadAssumption DEF LinkInv
  <2> SUFFICES ASSUME NEW i \in Ids, call[i].at = "answered", call[i].outcome = "failure",
                      call[i].life = life
               PROVE  LET key == <<Topic[Asked(i).target], "failure">>
                          Fresh(stamp) == call[i].told - stamp < Window
                      IN \/ \E a \in attempts : a.key = key /\ Pagers \cap N!Reached \subseteq a.channels
                              /\ call[a.id].life = life /\ Fresh(a.stamp)
                         \/ \E j \in Ids : note[j].step = "send" /\ note[j].key = key
                                             /\ Fresh(note[j].stamp)
    BY <2>0 DEF FailurePaged, Told, AnsweredFailure, At
  <2>1. PICK key : key = <<Topic[Asked(i).target], "failure">>
    OBVIOUS
  <2>2. PICK j \in Ids, s \in Nat : /\ Opens(j, key, s) /\ call[j].life = life
                                    /\ call[i].told - s < Window
    BY <1>1, <2>1 DEF ReportInv, Paged
  <2>3. CASE \E a \in attempts : a.id = j /\ a.key = key /\ a.stamp = s
    <3>1. PICK a \in attempts : a.id = j /\ a.key = key /\ a.stamp = s
      BY <2>3
    <3>2. key[2] = "failure"
      BY <2>1
    <3>3. Pagers \cap N!Reached \subseteq a.channels
      BY <1>1, <3>1, <3>2 DEF ReportInv, Reported
    <3> QED BY <2>1, <2>2, <3>1, <3>3
  <2>4. CASE note[j].step = "send" /\ note[j].key = key /\ note[j].stamp = s
    BY <2>1, <2>2, <2>4
  <2> QED BY <2>2, <2>3, <2>4 DEF Opens
<1> QED BY <1>1, ReportHolds, PTL

(***************************************************************************)
(* Cooldowns.                                                              *)
(***************************************************************************)
(* What a remediation does to the tracker are operations of the tracker.    *)
LEMMA TrackerSteps == LinkInv /\ [Next]_vars => [C!Next]_(C!vars)
<1> SUFFICES ASSUME LinkInv, [Next]_vars PROVE C!Next \/ UNCHANGED C!vars
  OBVIOUS
<1>1. ASSUME UNCHANGED <<now, tracker>> PROVE UNCHANGED C!vars
  BY <1>1 DEF tracker, C!vars
<1>2. ASSUME NEW i \in Ids, Arrive(i) \/ Enter(i) \/ Serve(i) \/ CommandEnds(i) \/ ClusterAnswers(i)
      PROVE  C!Next \/ UNCHANGED C!vars
  <2>1. CASE Record(i)
    <3>1. Asked(i).target \in Targets
      BY <2>1, Asking DEF Record, At
    <3> QED BY <2>1, <3>1 DEF Record, C!Next
  <2>2. CASE \/ Arrive(i) \/ Enter(i) \/ Refuse(i) \/ Begin(i) \/ NoExecutable(i) \/ Execute(i)
             \/ CommandEnds(i) \/ ClusterAnswers(i) \/ Collect(i) \/ Audit(i)
    BY <1>1, <2>2 DEF Arrive, Enter, Refuse, Begin, NoExecutable, Execute, CommandEnds,
       ClusterAnswers, Collect, Audit
  <2>3. CASE Report(i) \/ Dispatch(i)
    <3>1. UNCHANGED <<now, tracker>>
      BY <2>3 DEF Report, Dispatch, N!Notify, N!Proceed, N!Suppress, N!Pass, N!Send
    <3> QED BY <1>1, <3>1
  <2> QED BY <1>2, <2>1, <2>2, <2>3 DEF Serve
<1>3. CASE Restart
  BY <1>3 DEF Restart, C!Next
<1>4. CASE Tick
  BY <1>4 DEF Tick, C!Next
<1>5. CASE World \/ UNCHANGED vars
  BY <1>1, <1>5 DEF World, vars
<1> QED BY <1>2, <1>3, <1>4, <1>5 DEF Next

(* A remediation uses the cooldown tracker as its specification allows: of  *)
(* the calls, threads and restarts of the system, the tracker sees records, *)
(* restarts and the clock only (main.py:522-548).                          *)
THEOREM TrackerIsUsedAsSpecified == Spec => C!Spec
<1>1. Init => C!Init
  BY DEF Init
<1> QED BY <1>1, BaseHolds, TrackerSteps, PTL DEF Spec, C!Spec

LEMMA TrackerPrunes ==
  ASSUME NEW r \in C!Records, now \in C!Times
  PROVE  /\ C!Prune(r) \in C!Records
         /\ \A t \in Targets :
              /\ C!Prune(r)[t] \in {r[t], Never}
              /\ C!Prune(r)[t] # r[t] => r[t] # Never /\ now - r[t] > Retention
BY TrackerAssumption DEF C!Prune, C!Records, C!Times

LEMMA TrackerRecords ==
  ASSUME C!TypeOK, NEW t \in Targets, C!Record(t)
  PROVE  /\ C!TypeOK' /\ lastRun'[t] = now /\ ran'[t] = now
         /\ \A u \in Targets \ {t} :
              /\ lastRun'[u] \in {lastRun[u], Never} /\ ran'[u] = ran[u]
              /\ lastRun'[u] # lastRun[u] => lastRun[u] # Never /\ now - lastRun[u] > Retention
<1> USE TrackerAssumption DEF C!Times
<1>1. PICK r : r = [lastRun EXCEPT ![t] = now]
  OBVIOUS
<1>2. /\ r \in C!Records /\ now \in C!Times /\ r[t] = now
      /\ \A u \in Targets \ {t} : r[u] = lastRun[u]
      /\ \A u \in Targets : r[u] # Never => r[u] <= now
  BY <1>1 DEF C!TypeOK, C!Records
<1>3. /\ lastRun' = C!Prune(r) /\ ran' = [ran EXCEPT ![t] = now]
      /\ file' \in {lastRun', file} /\ UNCHANGED <<now, seconds>>
  BY <1>1 DEF C!Record
<1>4. lastRun' \in C!Records /\ \A u \in Targets : lastRun'[u] # Never => lastRun'[u] <= now
  BY <1>2, <1>3, TrackerPrunes
<1>5. lastRun'[t] = now
  <2>1. ~(now - r[t] > Retention)
    BY <1>2
  <2> QED BY <1>2, <1>3, <2>1, TrackerPrunes
<1>6. /\ ran' \in C!Records /\ ran'[t] = now
      /\ \A u \in Targets \ {t} : ran'[u] = ran[u]
  BY <1>2, <1>3 DEF C!TypeOK, C!Records
<1>7. \A u \in Targets : ran'[u] # Never => ran'[u] <= now
  BY <1>2, <1>6 DEF C!TypeOK, C!Records
<1>8. C!TypeOK'
  BY <1>3, <1>4, <1>6, <1>7 DEF C!TypeOK
<1> QED BY <1>2, <1>3, <1>5, <1>6, <1>8, TrackerPrunes

LEMMA TrackerType == C!TypeOK /\ [C!Next]_(C!vars) => C!TypeOK'
<1> SUFFICES ASSUME C!TypeOK, [C!Next]_(C!vars) PROVE C!TypeOK'
  OBVIOUS
<1>1. CASE C!Restart
  BY <1>1 DEF C!Restart, C!TypeOK
<1>2. CASE C!Tick
  <2>1. now' \in C!Times /\ now <= now' /\ now \in Int /\ now' \in Int
    BY <1>2, TrackerAssumption DEF C!Tick, C!TypeOK, C!Times
  <2>2. \A r \in C!Records : \A t \in Targets : r[t] # Never /\ r[t] <= now => r[t] <= now'
    BY <2>1, TrackerAssumption DEF C!Records, C!Times
  <2> QED BY <1>2, <2>1, <2>2 DEF C!Tick, C!TypeOK
<1>3. CASE UNCHANGED C!vars
  BY <1>3 DEF C!vars, C!TypeOK
<1> QED BY <1>1, <1>2, <1>3, TrackerRecords DEF C!Next

LEMMA TrackerInit == C!Init => C!TypeOK
BY TrackerAssumption DEF C!Init, C!TypeOK, C!Records, C!Times

(* What the tracker remembers is the last attempt, unless it is older than  *)
(* the retention.                                                          *)
Remembered ==
  /\ file = lastRun
  /\ \A t \in Targets :
       \/ lastRun[t] = ran[t]
       \/ lastRun[t] = Never /\ ran[t] # Never /\ now - ran[t] > Retention

LEMMA TrackerRemembers ==
  ASSUME "disk" \notin Faults, C!TypeOK, Remembered, [C!Next]_(C!vars)
  PROVE  Remembered'
<1>1. ASSUME NEW t \in Targets, C!Record(t) PROVE Remembered'
  <2>1. file' = lastRun' /\ now' = now
    BY <1>1 DEF C!Record
  <2>2. ASSUME NEW u \in Targets
        PROVE  \/ lastRun'[u] = ran'[u]
               \/ lastRun'[u] = Never /\ ran'[u] # Never /\ now - ran'[u] > Retention
    <3>1. CASE u = t
      BY <1>1, <3>1, TrackerRecords
    <3>2. CASE u # t
      <4>1. /\ lastRun'[u] \in {lastRun[u], Never} /\ ran'[u] = ran[u]
            /\ lastRun'[u] # lastRun[u] => lastRun[u] # Never /\ now - lastRun[u] > Retention
        BY <1>1, <3>2, TrackerRecords
      <4> QED BY <4>1 DEF Remembered
    <3> QED BY <3>1, <3>2
  <2> QED BY <2>1, <2>2 DEF Remembered
<1>2. CASE C!Restart
  BY <1>2 DEF C!Restart, Remembered
<1>3. CASE C!Tick
  <2>1. now' = now + 1 /\ now \in Int /\ UNCHANGED <<lastRun, file, ran>>
    BY <1>3, TrackerAssumption DEF C!Tick, C!TypeOK, C!Times
  <2>2. \A t \in Targets : ran[t] # Never => ran[t] \in Int
    BY TrackerAssumption DEF C!TypeOK, C!Records, C!Times
  <2> QED BY <2>1, <2>2, TrackerAssumption DEF Remembered
<1>4. CASE UNCHANGED C!vars
  BY <1>4 DEF C!vars, Remembered
<1> QED BY <1>1, <1>2, <1>3, <1>4 DEF C!Next

(* A guarded call that is not blocked asks when the last attempt is at      *)
(* least cooldown_seconds old.                                             *)
LEMMA NotBlocked ==
  ASSUME C!TypeOK, Remembered, NEW t \in Targets, seconds[t] <= Retention,
         ~(C!Remaining(t) > 0), ran[t] # Never
  PROVE  now - ran[t] >= seconds[t]
<1>1. /\ now \in Int /\ seconds[t] \in Nat /\ ran[t] \in Int
  BY TrackerAssumption DEF C!TypeOK, C!Records, C!Times
<1>2. CASE lastRun[t] = ran[t]
  BY <1>1, <1>2, TrackerAssumption DEF C!Remaining
<1>3. CASE lastRun[t] = Never /\ now - ran[t] > Retention
  BY <1>1, <1>3, TrackerAssumption
<1> QED BY <1>2, <1>3 DEF Remembered

LEMMA TrackerHolds == Spec => [](ExecInv /\ LinkInv /\ C!TypeOK)
<1>1. Init => C!TypeOK
  BY TrackerInit DEF Init
<1>2. LinkInv /\ C!TypeOK /\ [Next]_vars => C!TypeOK'
  BY TrackerSteps, TrackerType
<1> QED BY <1>1, <1>2, BaseHolds, PTL DEF Spec

(* The types of the three components and of the calls; a call in hand is of *)
(* this life and where its execution and its report are (main.py:522-582). *)
THEOREM TypesAreKept == Spec => []TypeOK
<1>1. ASSUME ExecInv, LinkInv, ReportInv, C!TypeOK PROVE TypeOK
  <2>1. E!TypeOK
    <3>1. ASSUME NEW i \in Ids
          PROVE  /\ job[i].step \in E!Steps /\ job[i].id \in Ids \cup {0}
                 /\ job[i].todo \subseteq Pods \ Daemons /\ job[i].failed \subseteq Pods \ Daemons
                 /\ (job[i].step \in {"cleanup", "done"}) = (job[i].outcome # "none")
      <4>1. job[i] \in Jobs /\ (job[i].step \in {"cleanup", "done"} <=> job[i].outcome # "none")
        BY <1>1 DEF ExecInv, Fits
      <4> QED BY <4>1 DEF Jobs, Evictable
    <3> QED BY <1>1, <3>1 DEF ExecInv, E!TypeOK
  <2>2. N!TypeOK
    <3>1. ASSUME NEW k \in N!DedupKeys PROVE seen[k] = Never \/ seen[k] \in 0 .. now
      <4>1. seen[k] = Never \/ (seen[k] \in Nat /\ seen[k] <= now)
        BY <1>1 DEF ReportInv, Reported
      <4> QED BY <1>1, <4>1, Now
    <3>2. ASSUME NEW i \in Ids
          PROVE  /\ note[i].step \in {"idle", "dedup", "send"} /\ note[i].stamp \in 0 .. now
                 /\ note[i].step # "idle" => note[i].key \in N!DedupKeys
      <4>1. note[i] \in Notes /\ note[i].stamp <= now
        BY <1>1 DEF LinkInv, ReportInv, Reported
      <4>2. ASSUME note[i].step # "idle" PROVE note[i].key \in N!DedupKeys
        <5>1. /\ note[i].key = <<Topic[Asked(i).target], call[i].outcome>>
              /\ call[i].at = "sending" /\ CallFits(i, call[i], life, DOMAIN load.calls)
          BY <1>1, <4>2 DEF LinkInv, ReportInv, Reported
        <5>2. Asked(i).target \in Targets /\ call[i].outcome \in N!Statuses
          BY <1>1, <5>1, Asking DEF CallFits
        <5>3. Topic[Asked(i).target] \in Topics
          BY <5>2 DEF Topics
        <5> QED BY <5>1, <5>2, <5>3 DEF N!DedupKeys
      <4> QED BY <1>1, <4>1, <4>2, Now DEF Notes
    <3>3. \A a \in attempts : a.key \in N!DedupKeys /\ a.channels \subseteq Channels
      BY <1>1 DEF ReportInv, Reported
    <3> QED BY <3>1, <3>2, <3>3 DEF N!TypeOK
  <2>3. ASSUME NEW i \in Ids
        PROVE  /\ InHand(i) => call[i].life = life
               /\ At(i, "execute") = ~E!At(i, "idle")
               /\ At(i, "sending") = (note[i].step # "idle")
    <3>1. /\ CallFits(i, call[i], life, DOMAIN load.calls)
          /\ call[i].at = "execute" <=> job[i].step # "idle"
          /\ call[i].at = "sending" <=> note[i].step # "idle"
      BY <1>1 DEF LinkInv
    <3> QED BY <3>1 DEF CallFits, InHand, At, E!At
  <2> QED BY <1>1, <2>1, <2>2, <2>3 DEF TypeOK
<1> QED BY <1>1, ReportHolds, TrackerHolds, PTL

(***************************************************************************)
(* Direct calls.                                                           *)
(***************************************************************************)
Held(c) == c.at \notin {"new", "waiting", "answered", "cut"}

(* Attempted, of a call c in life l.                                        *)
Tried(c, l) == c.from # Never /\ (c.recorded # Never \/ (c.life = l /\ c.outcome # "raised"))
After(c, d, s) == c.recorded # Never /\ d.from - c.recorded >= s

(* One direct call at a time is at work.                                    *)
Alone ==
  \A i, j \in Ids : i # j /\ Asked(i).direct /\ Asked(j).direct => ~(Held(call[i]) /\ Held(call[j]))

(* What is on the tracker's account when a call c of life l goes on: r is   *)
(* its target's last attempt, g says whether it is guarded.                *)
Charge(c, r, g, l) ==
  /\ c.recorded # Never => r # Never /\ c.recorded <= r
  /\ c.at = "cut" => c.life # l
  /\ g /\ c.at \in {"audit", "notify", "sending"} => c.recorded # Never
  /\ g /\ c.at = "answered" /\ c.life = l /\ c.from # Never
       => c.recorded # Never \/ c.outcome = "raised"
Charged == \A i \in Ids : Charge(call[i], ran[Asked(i).target], Guarded(i), life)

Apart ==
  \A i, j \in Ids :
    /\ i # j /\ Asked(i) = Asked(j) /\ Asked(i).direct /\ Guarded(i)
    /\ Tried(call[i], life) /\ Tried(call[j], life) /\ call[j].life = life
    => \/ After(call[i], call[j], seconds[Asked(i).target])
       \/ After(call[j], call[i], seconds[Asked(i).target])

DirectInv == Alone /\ Charged /\ Apart

LEMMA SameRequests ==
  ASSUME UNCHANGED load
  PROVE  \A i \in Ids : /\ Asked(i)' = Asked(i)
                        /\ UNCHANGED seconds => (Guarded(i)' <=> Guarded(i))
BY DEF Asked, Guarded

(* One call moves, and nothing is recorded.                                 *)
LEMMA OneHeld ==
  ASSUME LinkInv, Alone, Charged, NEW i \in Ids, NEW c, call'[i] = c,
         \A v \in Ids \ {i} : call'[v] = call[v],
         UNCHANGED <<load, life, seconds, ran>>,
         Held(c) => Held(call[i]) \/ LoopFree,
         Charge(c, ran[Asked(i).target], Guarded(i), life)
  PROVE  Alone' /\ Charged'
<1>1. Alone'
  <2> SUFFICES ASSUME NEW a \in Ids, NEW b \in Ids, a # b, Asked(a).direct, Asked(b).direct,
                      Held(call'[a]), Held(call'[b])
               PROVE  FALSE
    BY SameRequests DEF Alone, Held
  <2>1. ASSUME NEW v \in Ids \ {i}, Asked(v).direct, Held(call[v]) PROVE ~LoopFree
    <3>1. v \in DOMAIN load.calls
      BY <2>1 DEF LinkInv, CallFits, Held
    <3> QED BY <2>1, <3>1 DEF LoopFree, InHand, Held
  <2>2. CASE a = i
    BY <2>1, <2>2 DEF Alone
  <2>3. CASE b = i
    BY <2>1, <2>3 DEF Alone
  <2>4. CASE a # i /\ b # i
    BY <2>4 DEF Alone
  <2> QED BY <2>2, <2>3, <2>4
<1>2. ASSUME NEW v \in Ids
      PROVE  Charge(call'[v], ran'[Asked(v)'.target], Guarded(v)', life')
  <2>1. CASE v = i
    BY <2>1, SameRequests DEF Charge
  <2>2. CASE v # i
    BY <2>2, SameRequests DEF Charged, Charge
  <2> QED BY <2>1, <2>2
<1>3. Charged'
  BY <1>2 DEF Charged
<1> QED BY <1>1, <1>3

LEMMA OneDirect ==
  ASSUME LinkInv, DirectInv, NEW i \in Ids, NEW c, call'[i] = c,
         \A v \in Ids \ {i} : call'[v] = call[v],
         UNCHANGED <<load, life, seconds, ran>>,
         Held(c) => Held(call[i]) \/ LoopFree,
         Charge(c, ran[Asked(i).target], Guarded(i), life),
         c.recorded = call[i].recorded,
         Tried(c, life) => Tried(call[i], life) /\ c.from = call[i].from /\ c.life = call[i].life
  PROVE  DirectInv'
<1>1. Alone' /\ Charged'
  BY OneHeld DEF DirectInv
<1>2. ASSUME NEW v \in Ids
      PROVE  /\ Tried(call'[v], life) => Tried(call[v], life) /\ call'[v].from = call[v].from
                                          /\ call'[v].life = call[v].life
             /\ call'[v].recorded = call[v].recorded
             /\ Asked(v)' = Asked(v) /\ (Guarded(v)' <=> Guarded(v))
  BY SameRequests
<1>3. ASSUME NEW a \in Ids, NEW b \in Ids, a # b, Asked(a)' = Asked(b)', Asked(a)'.direct,
             Guarded(a)', Tried(call'[a], life'), Tried(call'[b], life'), call'[b].life = life'
      PROVE  \/ After(call'[a], call'[b], seconds'[Asked(a)'.target])
             \/ After(call'[b], call'[a], seconds'[Asked(a)'.target])
  <2>1. \/ After(call[a], call[b], seconds[Asked(a).target])
        \/ After(call[b], call[a], seconds[Asked(a).target])
    BY <1>2, <1>3 DEF DirectInv, Apart
  <2>2. /\ call'[a].from = call[a].from /\ call'[b].from = call[b].from
        /\ call'[a].recorded = call[a].recorded /\ call'[b].recorded = call[b].recorded
        /\ seconds'[Asked(a)'.target] = seconds[Asked(a).target]
    BY <1>2, <1>3
  <2> QED BY <2>1, <2>2 DEF After
<1>4. Apart'
  <2> SUFFICES ASSUME NEW a \in Ids, NEW b \in Ids,
                      a # b /\ Asked(a)' = Asked(b)' /\ Asked(a)'.direct /\ Guarded(a)',
                      Tried(call'[a], life'), Tried(call'[b], life'), call'[b].life = life'
               PROVE  \/ After(call'[a], call'[b], seconds'[Asked(a)'.target])
                      \/ After(call'[b], call'[a], seconds'[Asked(a)'.target])
    BY DEF Apart, Tried, After
  <2> QED BY <1>3
<1> QED BY <1>1, <1>4 DEF DirectInv

LEMMA SameDirect ==
  ASSUME DirectInv, UNCHANGED <<call, load, life, seconds, ran>>
  PROVE  DirectInv'
<1>1. \A v \in Ids : Asked(v)' = Asked(v) /\ (Guarded(v)' <=> Guarded(v))
  BY SameRequests
<1>2. Alone'
  BY <1>1 DEF DirectInv, Alone
<1>3. Charged'
  BY <1>1 DEF DirectInv, Charged, Charge
<1>4. Apart'
  BY <1>1 DEF DirectInv, Apart
<1> QED BY <1>2, <1>3, <1>4 DEF DirectInv

(* The steps of a call that start nothing and record nothing.               *)
LEMMA PlainSteps ==
  ASSUME ExecInv, LinkInv, Reported, DirectInv, NEW i \in Ids,
         \/ Arrive(i) \/ Enter(i) \/ Refuse(i) \/ NoExecutable(i) \/ Execute(i) \/ CommandEnds(i) \/ ClusterAnswers(i)
         \/ Collect(i) \/ Audit(i) \/ Report(i) \/ Dispatch(i)
  PROVE  DirectInv'
<1> USE DEF At
<1>0. PICK r \in Calls : r = call[i]
  BY DEF LinkInv
<1>a. /\ call \in [Ids -> Calls] /\ CallFits(i, r, life, DOMAIN load.calls)
      /\ Charge(r, ran[Asked(i).target], Guarded(i), life)
  BY <1>0 DEF LinkInv, DirectInv, Charged
<1>q. ASSUME NEW c, call' = [call EXCEPT ![i] = c], UNCHANGED <<load, life, seconds, ran>>,
             Held(c) => Held(r) \/ LoopFree,
             Charge(c, ran[Asked(i).target], Guarded(i), life),
             c.recorded = r.recorded,
             Tried(c, life) => Tried(r, life) /\ c.from = r.from /\ c.life = r.life
      PROVE  DirectInv'
  <2>1. call'[i] = c /\ \A v \in Ids \ {i} : call'[v] = call[v]
    BY <1>a, <1>q
  <2> QED BY <1>0, <1>q, <2>1, OneDirect
<1>w. ASSUME NEW o \in {"blocked", "raised", "none"}, Answer(i, o),
             UNCHANGED <<load, life, seconds, ran>>,
             r.at = "check" \/ (r.at = "audit" /\ o = "raised")
      PROVE  DirectInv'
  <2>1. PICK c : c = [r EXCEPT !.at = "answered", !.outcome = o]
    OBVIOUS
  <2>2. call' = [call EXCEPT ![i] = c]
    BY <1>0, <1>a, <1>w, <2>1 DEF Answer
  <2>3. /\ c.at = "answered" /\ c.outcome = o /\ c.from = r.from /\ c.recorded = r.recorded
        /\ c.life = r.life
    BY <2>1 DEF Calls
  <2>4. Charge(c, ran[Asked(i).target], Guarded(i), life)
    BY <1>a, <1>w, <2>3 DEF Charge, CallFits
  <2>5. Tried(c, life) => Tried(r, life) /\ c.from = r.from /\ c.life = r.life
    BY <1>a, <1>w, <2>3 DEF Tried, CallFits
  <2> QED BY <1>w, <1>q, <2>2, <2>3, <2>4, <2>5 DEF Held
<1>1. CASE Arrive(i)
  <2>1. PICK c : c = [r EXCEPT !.at = "waiting", !.life = life]
    OBVIOUS
  <2>2. call' = [call EXCEPT ![i] = c] /\ r.at = "new" /\ UNCHANGED <<load, life, seconds, ran>>
    BY <1>0, <1>1, <1>a, <2>1 DEF Arrive, tracker
  <2>3. c.at = "waiting" /\ c.from = Never /\ c.recorded = Never /\ r.recorded = Never
    BY <1>a, <2>1, <2>2 DEF Calls, CallFits
  <2> QED BY <1>q, <2>2, <2>3 DEF Held, Charge, Tried
<1>2. CASE Enter(i)
  <2>1. PICK c : c = [r EXCEPT !.at = "check"]
    OBVIOUS
  <2>2. /\ call' = [call EXCEPT ![i] = c] /\ r.at = "waiting" /\ LoopFree
        /\ UNCHANGED <<load, life, seconds, ran>>
    BY <1>0, <1>2, <1>a, <2>1 DEF Enter, Move, tracker
  <2>3. c.at = "check" /\ c.from = Never /\ c.recorded = Never /\ r.recorded = Never
    BY <1>a, <2>1, <2>2 DEF Calls, CallFits
  <2> QED BY <1>q, <2>2, <2>3 DEF Charge, Tried
<1>3. CASE Refuse(i) \/ NoExecutable(i)
  BY <1>0, <1>3, <1>w DEF Refuse, NoExecutable, tracker
<1>4. CASE Execute(i) \/ CommandEnds(i) \/ ClusterAnswers(i)
  BY <1>4, SameDirect DEF Execute, CommandEnds, ClusterAnswers, tracker
<1>5. CASE Collect(i)
  <2>1. PICK o, s : /\ o = job[i].outcome
                    /\ s = IF o = "raised" THEN "answered"
                           ELSE IF Guarded(i) THEN "record" ELSE "audit"
    OBVIOUS
  <2>2. PICK c : c = [r EXCEPT !.outcome = o, !.at = s]
    OBVIOUS
  <2>3. /\ call' = [call EXCEPT ![i] = c] /\ r.at = "execute"
        /\ UNCHANGED <<load, life, seconds, ran>>
    BY <1>0, <1>5, <1>a, <2>1, <2>2 DEF Collect, tracker
  <2>4. /\ c.at = s /\ c.outcome = o /\ c.from = r.from /\ c.recorded = Never /\ r.recorded = Never
        /\ c.life = r.life /\ r.outcome = "none"
    BY <1>a, <2>2, <2>3 DEF Calls, CallFits
  <2>5. Charge(c, ran[Asked(i).target], Guarded(i), life)
    BY <2>1, <2>4 DEF Charge
  <2>6. Tried(c, life) => Tried(r, life) /\ c.from = r.from /\ c.life = r.life
    BY <2>4 DEF Tried
  <2> QED BY <1>q, <2>3, <2>4, <2>5, <2>6 DEF Held
<1>6. CASE Audit(i)
  <2>1. CASE Move(i, "notify")
    <3>1. PICK c : c = [r EXCEPT !.at = "notify"]
      OBVIOUS
    <3>2. call' = [call EXCEPT ![i] = c] /\ r.at = "audit" /\ UNCHANGED <<load, life, seconds, ran>>
      BY <1>0, <1>6, <1>a, <2>1, <3>1 DEF Audit, Move, tracker
    <3>3. /\ c.at = "notify" /\ c.from = r.from /\ c.recorded = r.recorded /\ c.life = r.life
          /\ c.outcome = r.outcome
      BY <3>1 DEF Calls
    <3>4. Charge(c, ran[Asked(i).target], Guarded(i), life)
      BY <1>a, <3>2, <3>3 DEF Charge
    <3> QED BY <1>q, <3>2, <3>3, <3>4 DEF Held, Tried
  <2>2. CASE ~Move(i, "notify")
    BY <1>0, <1>6, <1>w, <2>2 DEF Audit, tracker
  <2> QED BY <2>1, <2>2
<1>7. CASE Report(i)
  <2>1. PICK c : c = [r EXCEPT !.at = "sending", !.told = now]
    OBVIOUS
  <2>2. call' = [call EXCEPT ![i] = c] /\ r.at = "notify" /\ UNCHANGED <<load, life, seconds, ran>>
    BY <1>0, <1>7, <1>a, <2>1 DEF Report, tracker
  <2>3. /\ c.at = "sending" /\ c.from = r.from /\ c.recorded = r.recorded /\ c.life = r.life
        /\ c.outcome = r.outcome
    BY <2>1 DEF Calls
  <2>4. Charge(c, ran[Asked(i).target], Guarded(i), life)
    BY <1>a, <2>2, <2>3 DEF Charge
  <2> QED BY <1>q, <2>2, <2>3, <2>4 DEF Held, Tried
<1>8. CASE Dispatch(i)
  <2>1. PICK c : /\ c.at \in {"answered", "sending"}
                 /\ c.life = r.life /\ c.outcome = r.outcome /\ c.from = r.from
                 /\ c.recorded = r.recorded /\ call'[i] = c
    BY <1>0, <1>8, Going
  <2>2. /\ r.at = "sending" /\ UNCHANGED <<load, life, seconds, ran>>
        /\ \A v \in Ids \ {i} : call'[v] = call[v]
    BY <1>0, <1>8, Going DEF Dispatch, tracker
  <2>3. Charge(c, ran[Asked(i).target], Guarded(i), life)
    BY <1>a, <2>1, <2>2 DEF Charge
  <2>4. Held(c) => Held(call[i]) \/ LoopFree
    BY <1>0, <2>2 DEF Held
  <2>5. Tried(c, life) => Tried(call[i], life) /\ c.from = call[i].from /\ c.life = call[i].life
    BY <1>0, <2>1 DEF Tried
  <2> QED BY <1>0, <2>1, <2>2, <2>3, <2>4, <2>5, OneDirect
<1> QED BY <1>1, <1>2, <1>3, <1>4, <1>5, <1>6, <1>7, <1>8

(* An execution begins: who is on the account of its target has recorded,   *)
(* and the tracker knows it.                                               *)
LEMMA BeginKeeps ==
  ASSUME LinkInv, DirectInv, C!TypeOK, Remembered, NEW i \in Ids, Begin(i),
         \A d \in Configs : \A t \in Targets : d[t] <= Retention
  PROVE  DirectInv'
<1> USE DEF At
<1>0. PICK r \in Calls : r = call[i]
  BY DEF LinkInv
<1>1. PICK c : c = [r EXCEPT !.at = "execute", !.from = now]
  OBVIOUS
<1>2. PICK t : t = Asked(i).target
  OBVIOUS
<1>3. /\ call' = [call EXCEPT ![i] = c] /\ r.at = "check" /\ ~Blocked(i)
      /\ UNCHANGED <<load, life, seconds, ran>> /\ call \in [Ids -> Calls]
  BY <1>0, <1>1 DEF Begin, LinkInv, tracker
<1>4. /\ c.at = "execute" /\ c.from = now /\ c.recorded = Never /\ r.recorded = Never
      /\ c.life = life /\ now \in Nat /\ r.life = life
      /\ t \in Targets /\ seconds[t] \in Nat /\ seconds[t] <= Retention
  <2>1. CallFits(i, r, life, DOMAIN load.calls)
    BY <1>0 DEF LinkInv
  <2>2. t \in Targets
    BY <1>0, <1>2, <1>3, Asking
  <2>3. seconds[t] \in Nat /\ seconds[t] <= Retention
    BY <2>2, TrackerAssumption DEF C!TypeOK
  <2> QED BY <1>1, <1>3, <2>1, <2>2, <2>3, Now DEF Calls, CallFits
<1>5. call'[i] = c /\ \A v \in Ids \ {i} : call'[v] = call[v]
  BY <1>3
<1>6. Held(r)
  BY <1>3 DEF Held
<1>7. Alone' /\ Charged'
  <2>1. Charge(c, ran[Asked(i).target], Guarded(i), life)
    BY <1>4 DEF Charge
  <2>2. Held(c) => Held(call[i]) \/ LoopFree
    BY <1>0, <1>6
  <2> QED BY <1>3, <1>5, <2>1, <2>2, OneHeld DEF DirectInv
<1>8. \A v \in Ids : Asked(v)' = Asked(v) /\ (Guarded(v)' <=> Guarded(v))
  BY <1>3, SameRequests
<1>9. ASSUME NEW v \in Ids \ {i}, Asked(v) = Asked(i), Asked(i).direct, Guarded(i),
             Tried(call[v], life)
      PROVE  After(call[v], c, seconds[t])
  <2>0. PICK q \in Calls : q = call[v]
    BY DEF LinkInv
  <2>1. /\ CallFits(v, q, life, DOMAIN load.calls) /\ q.from # Never /\ ~Held(q)
        /\ q.recorded # Never \/ (q.life = life /\ q.outcome # "raised")
        /\ Asked(v).target = t /\ Guarded(v)
    BY <1>0, <1>2, <1>6, <1>9, <2>0 DEF LinkInv, DirectInv, Alone, Tried, Guarded
  <2>2. /\ q.recorded # Never => ran[t] # Never /\ q.recorded <= ran[t]
        /\ q.at = "cut" => q.life # life
        /\ q.at = "answered" /\ q.life = life /\ q.from # Never
             => q.recorded # Never \/ q.outcome = "raised"
    BY <2>0, <2>1 DEF DirectInv, Charged, Charge
  <2>3. q.recorded # Never
    BY <2>1, <2>2 DEF CallFits, Held
  <2>4. ran[t] # Never /\ q.recorded <= ran[t] /\ q.recorded \in Int /\ ran[t] \in Int
    BY <1>4, <2>2, <2>3, TrackerAssumption DEF C!TypeOK, C!Records, C!Times, Calls, Marks
  <2>5. ~(C!Remaining(t) > 0)
    BY <1>2, <1>3, <1>9 DEF Blocked
  <2>6. now - ran[t] >= seconds[t]
    BY <1>4, <2>4, <2>5, NotBlocked
  <2> QED BY <1>4, <2>0, <2>3, <2>4, <2>6 DEF After
<1>10. Apart'
  <2> SUFFICES ASSUME NEW a \in Ids, NEW b \in Ids,
                      a # b, Asked(a) = Asked(b), Asked(a).direct, Guarded(a),
                      Tried(call'[a], life), Tried(call'[b], life), call'[b].life = life
               PROVE  \/ After(call'[a], call'[b], seconds[Asked(a).target])
                      \/ After(call'[b], call'[a], seconds[Asked(a).target])
    BY <1>3, <1>8 DEF Apart
  <2>1. CASE a = i
    BY <1>2, <1>5, <1>9, <2>1
  <2>2. CASE b = i
    <3>1. Guarded(i)
      BY <2>2 DEF Guarded
    <3> QED BY <1>2, <1>5, <1>9, <2>2, <3>1
  <2>3. CASE a # i /\ b # i
    BY <1>5, <2>3 DEF DirectInv, Apart
  <2> QED BY <2>1, <2>2, <2>3
<1> QED BY <1>7, <1>10 DEF DirectInv

(* It is recorded, now.                                                     *)
LEMMA RecordKeeps ==
  ASSUME LinkInv, DirectInv, C!TypeOK, NEW i \in Ids, Record(i)
  PROVE  DirectInv'
<1> USE DEF At
<1>0. PICK r \in Calls : r = call[i]
  BY DEF LinkInv
<1>1. PICK c : c = [r EXCEPT !.at = "audit", !.recorded = now]
  OBVIOUS
<1>2. PICK t : t = Asked(i).target
  OBVIOUS
<1>3. /\ call' = [call EXCEPT ![i] = c] /\ r.at = "record" /\ C!Record(t)
      /\ UNCHANGED <<load, life, seconds, now>> /\ call \in [Ids -> Calls]
  BY <1>0, <1>1, <1>2 DEF Record, C!Record, LinkInv
<1>4. /\ c.at = "audit" /\ c.from = r.from /\ c.recorded = now /\ r.recorded = Never
      /\ c.life = r.life /\ c.outcome = r.outcome /\ now \in Nat /\ now # Never /\ r.life = life
      /\ t \in Targets /\ r.from # Never /\ r.outcome # "raised"
  <2>1. CallFits(i, r, life, DOMAIN load.calls)
    BY <1>0 DEF LinkInv
  <2>2. t \in Targets
    BY <1>0, <1>2, <1>3, Asking
  <2> QED BY <1>1, <1>3, <2>1, <2>2, Now DEF Calls, CallFits, N!Statuses
<1>5. call'[i] = c /\ \A v \in Ids \ {i} : call'[v] = call[v]
  BY <1>3
<1>6. ran'[t] = now /\ \A u \in Targets \ {t} : ran'[u] = ran[u]
  BY <1>3, <1>4, TrackerRecords
<1>7. ran[t] # Never => ran[t] <= now /\ ran[t] \in Int
  BY <1>4, TrackerAssumption DEF C!TypeOK, C!Records, C!Times
<1>8. \A v \in Ids : Asked(v)' = Asked(v) /\ (Guarded(v)' <=> Guarded(v))
  BY <1>3, SameRequests
<1>9. Alone'
  <2>1. \A v \in Ids : Held(call'[v]) => Held(call[v])
    BY <1>0, <1>3, <1>5 DEF Held
  <2> QED BY <1>8, <2>1 DEF DirectInv, Alone
<1>10. Charged'
  <2> SUFFICES ASSUME NEW v \in Ids
               PROVE  Charge(call'[v], ran'[Asked(v).target], Guarded(v), life)
    BY <1>3, <1>8 DEF Charged, Charge
  <2>1. CASE v = i
    BY <1>2, <1>4, <1>5, <1>6, <2>1 DEF Charge
  <2>2. CASE v # i
    <3>0. PICK q \in Calls : q = call[v]
      BY DEF LinkInv
    <3>1. Charge(q, ran[Asked(v).target], Guarded(v), life) /\ call'[v] = q
      BY <1>5, <2>2, <3>0 DEF DirectInv, Charged
    <3>2. ASSUME q.recorded # Never
          PROVE  ran'[Asked(v).target] # Never /\ q.recorded <= ran'[Asked(v).target]
      <4>1. CallFits(v, q, life, DOMAIN load.calls)
        BY <3>0 DEF LinkInv
      <4>2. Asked(v).target \in Targets
        BY <3>0, <3>2, <4>1, Asking DEF CallFits
      <4>3. CASE Asked(v).target = t
        <5>1. q.recorded \in Int /\ ran[t] # Never /\ q.recorded <= ran[t]
          BY <3>1, <3>2, <4>3, TrackerAssumption DEF Charge, Calls, Marks, C!Times
        <5> QED BY <1>4, <1>6, <1>7, <4>3, <5>1
      <4>4. CASE Asked(v).target # t
        BY <1>6, <3>1, <3>2, <4>2, <4>4 DEF Charge
      <4> QED BY <4>3, <4>4
    <3> QED BY <3>1, <3>2 DEF Charge
  <2> QED BY <2>1, <2>2
<1>11. ASSUME NEW v \in Ids
       PROVE  /\ Tried(call'[v], life) => Tried(call[v], life)
              /\ call'[v].from = call[v].from /\ call'[v].life = call[v].life
              /\ call[v].recorded # Never => call'[v].recorded = call[v].recorded
  BY <1>0, <1>4, <1>5 DEF Tried
<1>12. Apart'
  <2> SUFFICES ASSUME NEW a \in Ids, NEW b \in Ids,
                      a # b, Asked(a) = Asked(b), Asked(a).direct, Guarded(a),
                      Tried(call'[a], life), Tried(call'[b], life), call'[b].life = life
               PROVE  \/ After(call'[a], call'[b], seconds[Asked(a).target])
                      \/ After(call'[b], call'[a], seconds[Asked(a).target])
    BY <1>3, <1>8 DEF Apart
  <2>1. \/ After(call[a], call[b], seconds[Asked(a).target])
        \/ After(call[b], call[a], seconds[Asked(a).target])
    BY <1>11 DEF DirectInv, Apart
  <2> QED BY <1>11, <2>1 DEF After
<1> QED BY <1>9, <1>10, <1>12 DEF DirectInv

(* No call of the new life has begun.                                       *)
LEMMA RestartDirect ==
  ASSUME LinkInv, DirectInv, Restart
  PROVE  DirectInv'
<1>1. /\ life' = life + 1 /\ life \in Nat /\ load' = load /\ ran' = ran
      /\ call' = [i \in Ids |-> IF At(i, "new") \/ Over(i) THEN call[i]
                                ELSE [call[i] EXCEPT !.at = "cut"]]
  BY DEF Restart, C!Restart, LinkInv
<1>2. ASSUME NEW i \in Ids
      PROVE  /\ call'[i].at \in {"new", "answered", "cut"} /\ call'[i].recorded = call[i].recorded
             /\ call'[i].life # life'
  <2>1. PICK r \in Calls : r = call[i]
    BY DEF LinkInv
  <2>2. CallFits(i, r, life, DOMAIN load.calls)
    BY <2>1 DEF LinkInv
  <2>3. r.life \in Nat /\ r.life <= life
    BY <2>2 DEF CallFits, Calls
  <2>4. CASE r.at \in {"new", "answered", "cut"}
    <3>1. call'[i] = r
      BY <1>1, <2>1, <2>4 DEF At, Over
    <3> QED BY <1>1, <2>1, <2>3, <2>4, <3>1
  <2>5. CASE r.at \notin {"new", "answered", "cut"}
    <3>1. PICK c : c = [r EXCEPT !.at = "cut"]
      OBVIOUS
    <3>2. call'[i] = c
      BY <1>1, <2>1, <2>5, <3>1 DEF At, Over
    <3>3. c.at = "cut" /\ c.recorded = r.recorded /\ c.life = r.life
      BY <3>1 DEF Calls
    <3> QED BY <1>1, <2>1, <2>3, <3>2, <3>3
  <2> QED BY <2>4, <2>5
<1>3. Alone'
  BY <1>2 DEF Alone, Held
<1>4. Charged'
  <2>1. \A v \in Ids : Asked(v)' = Asked(v)
    BY <1>1, SameRequests
  <2> SUFFICES ASSUME NEW v \in Ids
               PROVE  Charge(call'[v], ran[Asked(v).target], Guarded(v)', life')
    BY <1>1, <2>1 DEF Charged, Charge
  <2> QED BY <1>2 DEF DirectInv, Charged, Charge
<1>5. Apart'
  BY <1>2 DEF Apart
<1> QED BY <1>3, <1>4, <1>5 DEF DirectInv

(* Direct calls keep to the cooldown, however many callers ask at once and  *)
(* over restarts, though look-up and record are two calls of the tracker:  *)
(* if the cooldown file can be written, and no cooldown is longer than the *)
(* retention (main.py:522-548, cooldown.py:20-30).                         *)
THEOREM CooldownsAreKept ==
  ASSUME "disk" \notin Faults, \A d \in Configs : \A t \in Targets : d[t] <= Retention
  PROVE  Spec => []DirectOncePerWindow
<1>1. Init => Remembered /\ DirectInv
  <2> SUFFICES ASSUME Init PROVE Remembered /\ DirectInv
    OBVIOUS
  <2>1. /\ lastRun = [t \in Targets |-> Never] /\ file = lastRun /\ ran = lastRun
        /\ call = [i \in Ids |-> NotYet]
    BY DEF Init, C!Init
  <2>2. NotYet.at = "new" /\ NotYet.from = Never /\ NotYet.recorded = Never
    BY DEF NotYet
  <2>3. \A i \in Ids : call[i].at = "new" /\ call[i].from = Never /\ call[i].recorded = Never
    BY <2>1, <2>2
  <2> QED BY <2>1, <2>3 DEF Remembered, DirectInv, Alone, Charged, Charge, Apart, Held, Tried
<1>2. ASSUME ExecInv, LinkInv, ReportInv, C!TypeOK, Remembered, DirectInv, [Next]_vars
      PROVE  Remembered' /\ DirectInv'
  <2>1. Remembered'
    BY <1>2, TrackerSteps, TrackerRemembers
  <2>2. ASSUME NEW i \in Ids, Arrive(i) \/ Enter(i) \/ Serve(i) \/ CommandEnds(i) \/ ClusterAnswers(i)
        PROVE  DirectInv'
    <3>1. CASE Begin(i)
      BY <1>2, <3>1, BeginKeeps
    <3>2. CASE Record(i)
      BY <1>2, <3>2, RecordKeeps
    <3>3. CASE \/ Arrive(i) \/ Enter(i) \/ Refuse(i) \/ NoExecutable(i) \/ Execute(i)
               \/ CommandEnds(i) \/ ClusterAnswers(i) \/ Collect(i) \/ Audit(i) \/ Report(i) \/ Dispatch(i)
      BY <1>2, <3>3, PlainSteps DEF ReportInv
    <3> QED BY <2>2, <3>1, <3>2, <3>3 DEF Serve
  <2>3. CASE Restart
    BY <1>2, <2>1, <2>3, RestartDirect
  <2>4. CASE Tick \/ World \/ UNCHANGED vars
    <3>1. UNCHANGED <<call, load, life, seconds, ran>>
      BY <2>4 DEF Tick, C!Tick, World, vars, tracker
    <3> QED BY <1>2, <2>1, <3>1, SameDirect
  <2> QED BY <1>2, <2>1, <2>2, <2>3, <2>4 DEF Next
<1>3. ASSUME LinkInv, DirectInv PROVE DirectOncePerWindow
  <2>1. DOMAIN load.calls \subseteq Ids
    BY <1>3, WorkloadAssumption DEF LinkInv
  <2>2. \A i \in Ids : Attempted(i) => Tried(call[i], life)
    BY DEF Attempted, Tried
  <2> QED BY <1>3, <2>1, <2>2 DEF DirectOncePerWindow, DirectInv, Apart, After
<1> QED BY <1>1, <1>2, <1>3, ReportHolds, TrackerHolds, PTL DEF Spec
=============================================================================
