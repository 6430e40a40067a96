---------------------------- MODULE Notifications ----------------------------
(***************************************************************************)
(* src/notifications.py: notify reports the outcome of one execution.  The *)
(* clock is read before the dedup lock is taken; look-up and update of the *)
(* window are one step under it; sending comes after.  Several workers     *)
(* report at once.  Every channel is best effort and nobody looks at what  *)
(* notify returns, so whether a message arrived is not part of the state;  *)
(* whether its channel was reached is, for a malformed template ends it.   *)
(***************************************************************************)
EXTENDS Integers

CONSTANTS
  Workers,
  Topics,        \* action:controller
  Channels,      \* the channels enabled
  Place,         \* their places in the order of notify: [Channels -> Nat]
  Malformed,     \* those whose template str.format refuses (ValueError)
  NotifyOn,      \* [Channels -> set of statuses]
  Routing,       \* [Severities -> set of channels], or NoRouting
  NoRouting,     \* no routing configured: every channel gets everything
  Window,        \* dedup window_seconds
  Never          \* nothing was reported for a key

Statuses == {"success", "failure"}
Severities == {"info", "warning", "critical"}
DedupKeys == Topics \X Statuses

VARIABLES
  now,        \* time.time()
  seen,       \* _dedup_seen
  note,       \* the report each worker is making
  attempts    \* history: what was sent to the channels

vars == <<now, seen, note, attempts>>

NoNote == [step |-> "idle", key |-> <<>>, severity |-> "info", stamp |-> 0, id |-> 0]

Init ==
  /\ seen = [k \in DedupKeys |-> Never]
  /\ note = [w \in Workers |-> NoNote]
  /\ attempts = {}

-----------------------------------------------------------------------------
(* Mutant: a failure keeps the severity its action declares.               *)
EffectiveAsDeclared(base, status) == base

(* _effective_severity: a failure is a warning at least.                   *)
Effective(base, status) == IF status = "failure" /\ base = "info" THEN "warning" ELSE base

(* _wants_channel, and the channel's own notify_on.                        *)
Wanted(severity, status) ==
  {c \in Channels : /\ Routing = NoRouting \/ c \in Routing[severity]
                    /\ status \in NotifyOn[c]}

(* Every channel that wants it, in their order; _render raises at the first *)
(* one whose template is malformed, and neither its caller nor notify      *)
(* expects that.                                                           *)
Sent(severity, status) ==
  LET wanted == Wanted(severity, status) IN
  {c \in wanted : \A d \in wanted \cap Malformed : Place[c] < Place[d]}

(* Channels no malformed template comes before.                            *)
Reached == {c \in Channels : \A d \in Malformed : Place[c] < Place[d]}

(* notify is called: severity and key are computed, the clock is read.     *)
Notify(w, i, topic, status, base) ==
  /\ note[w].step = "idle"
  /\ note' = [note EXCEPT ![w] =
       [step |-> "dedup", key |-> <<topic, status>>, stamp |-> now, id |-> i,
        severity |-> Effective(base, status)]]
  /\ UNCHANGED <<now, seen, attempts>>

Recent(w) ==
  LET last == seen[note[w].key] IN last # Never /\ note[w].stamp - last < Window

(* Mutant: what is suppressed renews the window.                           *)
SuppressAndRenew(w) ==
  /\ note[w].step = "dedup" /\ Recent(w)
  /\ seen' = [seen EXCEPT ![note[w].key] = note[w].stamp]
  /\ note' = [note EXCEPT ![w] = NoNote]
  /\ UNCHANGED <<now, attempts>>

(* _is_duplicate, under its lock: suppressed ...                           *)
Suppress(w) ==
  /\ note[w].step = "dedup" /\ Recent(w)
  /\ note' = [note EXCEPT ![w] = NoNote]
  /\ UNCHANGED <<now, seen, attempts>>

(* Mutant: the window is looked up here and renewed only after sending.    *)
PassUnmarked(w) ==
  /\ note[w].step = "dedup" /\ ~Recent(w)
  /\ note' = [note EXCEPT ![w].step = "send"]
  /\ UNCHANGED <<now, seen, attempts>>

(* ... or let through, which opens a new window.                           *)
Pass(w) ==
  /\ note[w].step = "dedup" /\ ~Recent(w)
  /\ seen' = [seen EXCEPT ![note[w].key] = note[w].stamp]
  /\ note' = [note EXCEPT ![w].step = "send"]
  /\ UNCHANGED <<now, attempts>>

(* The channels, one after the other; notify returns, or raises.           *)
Send(w) ==
  /\ note[w].step = "send"
  /\ attempts' = attempts \cup
       {[id |-> note[w].id, key |-> note[w].key, stamp |-> note[w].stamp,
         channels |-> Sent(note[w].severity, note[w].key[2])]}
  /\ note' = [note EXCEPT ![w] = NoNote]
  /\ UNCHANGED <<now, seen>>

Proceed(w) == Suppress(w) \/ Pass(w) \/ Send(w)

(* A restart forgets the window, which is kept in memory only.             *)
Forget ==
  /\ seen' = [k \in DedupKeys |-> Never]
  /\ note' = [w \in Workers |-> NoNote]
  /\ UNCHANGED <<now, attempts>>

-----------------------------------------------------------------------------
(* Types; the window of a key never starts in the future                    *)
(* (notifications.py:142-151).                                             *)
TypeOK ==
  /\ \A k \in DedupKeys : seen[k] = Never \/ seen[k] \in 0 .. now
  /\ \A w \in Workers : /\ note[w].step \in {"idle", "dedup", "send"}
                        /\ note[w].stamp \in 0 .. now
                        /\ note[w].step # "idle" => note[w].key \in DedupKeys
  /\ \A a \in attempts : a.key \in DedupKeys /\ a.channels \subseteq Channels
=============================================================================
