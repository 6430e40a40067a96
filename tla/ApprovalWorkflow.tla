-------------------------- MODULE ApprovalWorkflow --------------------------
(***************************************************************************)
(* What the approval queue promises.  A request waits until it is decided, *)
(* once.  Approving it issues one ticket; an execution consumes it, and so *)
(* does finding that there is nothing to execute; a crash can only lose    *)
(* tickets.  Decided requests, and only those, may be forgotten.           *)
(***************************************************************************)
EXTENDS Naturals

CONSTANT Ids

VARIABLES
  stage,   \* [Ids -> "new", "pending", "approved", "rejected", "forgotten"]
  ticket,  \* approvals that may still be executed
  runs     \* how often each was executed

vars == <<stage, ticket, runs>>

Decided == {"approved", "rejected"}

Init ==
  /\ stage = [i \in Ids |-> "new"]
  /\ ticket = {}
  /\ runs = [i \in Ids |-> 0]

(* Request i moves to stage `to`; some decided requests may be forgotten.  *)
Move(i, to) ==
  LET moved == [stage EXCEPT ![i] = to] IN
  \E gone \in SUBSET {j \in Ids : moved[j] \in Decided} :
    stage' = [j \in Ids |-> IF j \in gone THEN "forgotten" ELSE moved[j]]

Submit(i) ==
  /\ stage[i] = "new" /\ Move(i, "pending") /\ UNCHANGED <<ticket, runs>>

Approve(i) ==
  /\ stage[i] = "pending" /\ Move(i, "approved")
  /\ ticket' = ticket \cup {i} /\ UNCHANGED runs

Reject(i) ==
  /\ stage[i] = "pending" /\ Move(i, "rejected") /\ UNCHANGED <<ticket, runs>>

Run(i) ==
  /\ i \in ticket
  /\ ticket' = ticket \ {i} /\ runs' = [runs EXCEPT ![i] = @ + 1]
  /\ UNCHANGED stage

Withdraw(i) ==
  /\ i \in ticket /\ ticket' = ticket \ {i}
  /\ \/ stage[i] = "approved" /\ Move(i, "rejected")
     \/ stage[i] = "forgotten" /\ UNCHANGED stage
  /\ UNCHANGED runs

LoseTickets ==
  /\ ticket # {} /\ ticket' \in SUBSET ticket /\ UNCHANGED <<stage, runs>>

Next ==
  \/ \E i \in Ids : Submit(i) \/ Approve(i) \/ Reject(i) \/ Run(i) \/ Withdraw(i)
  \/ LoseTickets

Spec == Init /\ [][Next]_vars

(* Each request is executed at most once, and only if it was approved.     *)
Promise ==
  \A i \in Ids :
    /\ runs[i] <= 1
    /\ runs[i] = 1 => stage[i] \in {"approved", "forgotten"}
=============================================================================
