---------------------------- MODULE MCRemediation ----------------------------
(* An instance of Remediation for TLC.  One workload is one question: what  *)
(* it does not need is left out of it, so their state spaces add up        *)
(* instead of multiplying.                                                 *)
EXTENDS Remediation, TLC

CONSTANTS web, host, node, open, close, app, gone, t1, t2, t3, t4, t5, t6, t7,
          sshkey, token, ca, p1, p2, d1, chat, pager, board

MCTargets == {web, host, node, open, close, app, gone}

(* web is restarted over ssh with a key from Vault, host runs a script,     *)
(* node, open and close drain, uncordon and cordon one node, app is scaled *)
(* with a token and a certificate from Vault, gone defines nothing to run. *)
MCVia == web :> "ssh" @@ host :> "local" @@ node :> "drain" @@ open :> "uncordon"
         @@ close :> "cordon" @@ app :> "patch" @@ gone :> "none"
MCVaulted == [t \in Targets |-> CASE t = web -> <<sshkey>> [] t = app -> <<token, ca>>
                                  [] OTHER -> <<>>]

(* Only web cools down.                                                    *)
MCConfigs == {[t \in Targets |-> IF t = web THEN 2 ELSE 0]}

MCTopic == web :> t1 @@ host :> t2 @@ node :> t3 @@ open :> t4 @@ close :> t5
           @@ app :> t6 @@ gone :> t7
MCSeverity == [t \in Topics |-> CASE t = t3 -> "critical" [] t = t4 -> "warning"
                                  [] OTHER -> "info"]
MCPlace == chat :> 1 @@ pager :> 2 @@ board :> 3
MCNotifyOn == chat :> {"success", "failure"} @@ pager :> {"failure"} @@ board :> {"failure"}
MCRouting == [s \in {"info", "warning", "critical"} |->
               CASE s = "info" -> {chat} [] s = "warning" -> {chat, pager, board}
                 [] OTHER -> {pager, board}]

Direct(t) == [direct |-> TRUE, target |-> t, dry |-> FALSE]
Approved(t) == [direct |-> FALSE, target |-> t, dry |-> FALSE]
DryRun(t) == [direct |-> TRUE, target |-> t, dry |-> TRUE]
Load(calls, until) == [calls |-> calls, until |-> until]

MCWorkloads ==
  { Load(<<Direct(web), Direct(web)>>, 2),
    Load(<<Direct(web), Direct(web), Approved(web)>>, 0),
    Load(<<Approved(host), Approved(host), Direct(host)>>, 0),
    Load(<<Approved(host), Direct(host)>>, 3),
    Load(<<Approved(node), Approved(open)>>, 0),
    Load(<<Approved(gone), Approved(host), Approved(host)>>, 0),
    Load(<<Approved(node), Direct(close)>>, 0),
    Load(<<Approved(node), Direct(node)>>, 0),
    Load(<<Approved(open), Approved(close), Approved(gone)>>, 0),
    Load(<<Approved(app), Direct(gone), DryRun(web)>>, 0) }

(* A command alone, and a malformed template.                              *)
OneCommand == {Load(<<Approved(host)>>, 0)}
=============================================================================
