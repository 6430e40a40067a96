---------------------------- MODULE RateLimiter ----------------------------
(***************************************************************************)
(* src/ratelimit.py, and the two checks /webhook makes with it             *)
(* (main.py:436-460): one key per caller, one per action.  A call is       *)
(* charged to its caller before the action's limit is looked at.  The      *)
(* limiter is only used on the event loop, one call at a time; its state   *)
(* is not persisted.  Several calls may fall on one tick of the clock.     *)
(***************************************************************************)
EXTENDS Integers, Sequences, FiniteSets

CONSTANTS
  Callers, Actions,  \* the keys: caller:<api key>, action:<event_type>
  Roles,             \* the roles a key may have, None among them
  RoleLimits,        \* limit_for_role, of the file or the default; 0: not limited
  ActionLimits,      \* limit_for_action, likewise
  Window,            \* WINDOW_SECONDS
  Floor, Second,     \* 0.1 s and a second, in the ticks of the clock
  MaxTime            \* bound: the clock stops here

RateKeys == Callers \cup Actions

ASSUME LimitAssumption ==
  /\ Callers \cap Actions = {}
  /\ RoleLimits \in [Roles -> Nat] /\ ActionLimits \in [Actions -> Nat]
  /\ {Window, Floor, Second} \subseteq Nat \ {0} /\ MaxTime \in Nat

VARIABLES
  now,       \* time.time()
  hits,      \* _hits: times of the calls recorded, oldest first
  admitted,  \* history: times of the calls let through, in the last window
  allowed    \* history: the limit the last of these was checked against

vars == <<now, hits, admitted, allowed>>

Init ==
  /\ now = 0
  /\ hits = [k \in RateKeys |-> <<>>]
  /\ admitted = hits
  /\ allowed = [k \in RateKeys |-> 0]

(* The limit of a key for a call made with role r: that of the role for a   *)
(* caller, so it changes when the role of the key does.                    *)
Limit(k, r) == IF k \in Actions THEN ActionLimits[k] ELSE RoleLimits[r]

(* What is left of a sequence of times when those up to t are popped from   *)
(* its front.                                                              *)
Since(q, t) ==
  LET n == CHOOSE m \in 0 .. Len(q) : /\ \A i \in 1 .. m : q[i] <= t
                                      /\ m < Len(q) => q[m + 1] > t
  IN SubSeq(q, n + 1, Len(q))

(* Mutant: hits are forgotten a tick early.                                *)
RecentShort(k) == Since(hits[k], now - Window + 1)

(* The hits of a key inside the window: the older ones are popped.         *)
Recent(k) == Since(hits[k], now - Window)

(* Mutant: one call too many fits the limit.                               *)
FullByOne(k, r) == Limit(k, r) > 0 /\ Len(Recent(k)) > Limit(k, r)

Full(k, r) == Limit(k, r) > 0 /\ Len(Recent(k)) >= Limit(k, r)

LongerOf(x, y) == IF x >= y THEN x ELSE y

(* Mutant: the newest hit is taken for the oldest.                         *)
RetryAfterNewest(k) == LongerOf(Recent(k)[Len(Recent(k))] + Window - now, Floor)

(* retry_after: how long to wait for the oldest hit to leave the window.    *)
RetryAfter(k) == LongerOf(Head(Recent(k)) + Window - now, Floor)

(* What the answer says of it: in the header the next whole second, in the  *)
(* body the nearest tenth (of two, either: a matter of floating point).    *)
Header(k) == (RetryAfter(k) \div Second + 1) * Second
Body(k) == { b \in 0 .. RetryAfter(k) + Floor :
               /\ b % Floor = 0
               /\ 2 * (b - RetryAfter(k)) <= Floor /\ 2 * (RetryAfter(k) - b) <= Floor }

(* Mutant: a refused call is recorded, too.                                *)
ChargeRefused(k, r) ==
  IF Limit(k, r) = 0 THEN hits[k]
  ELSE IF Full(k, r) THEN Append(Tail(Recent(k)), now)
  ELSE Append(Recent(k), now)

(* check: the deque of k after a call at this moment.                      *)
Charge(k, r) ==
  IF Limit(k, r) = 0 THEN hits[k]
  ELSE IF Full(k, r) THEN Recent(k)
  ELSE Append(Recent(k), now)

Call(ks, r) ==
  hits' = [k \in RateKeys |-> IF k \in ks THEN Charge(k, r) ELSE hits[k]]

(* History only: calls that were not limited are not counted.              *)
Admit(ks, r) ==
  LET counted == {k \in ks : Limit(k, r) > 0} IN
  /\ admitted' = [k \in RateKeys |->
       IF k \in counted THEN Append(admitted[k], now) ELSE admitted[k]]
  /\ allowed' = [k \in RateKeys |-> IF k \in counted THEN Limit(k, r) ELSE allowed[k]]

(* A request over its caller's limit: 429, nothing else looked at.         *)
CallerRefused(c, r) ==
  /\ Full(c, r)
  /\ Call({c}, r) /\ UNCHANGED <<now, admitted, allowed>>

(* A request for an action that does not exist: 400, charged to its caller. *)
UnknownAction(c, r) ==
  /\ ~Full(c, r)
  /\ Call({c}, r) /\ Admit({c}, r) /\ UNCHANGED now

(* A request over its action's limit: 429, and charged to its caller.      *)
ActionRefused(c, a, r) ==
  /\ ~Full(c, r) /\ Full(a, r)
  /\ Call({c, a}, r) /\ Admit({c}, r) /\ UNCHANGED now

Admitted(c, a, r) ==
  /\ ~Full(c, r) /\ ~Full(a, r)
  /\ Call({c, a}, r) /\ Admit({c, a}, r) /\ UNCHANGED now

(* Time passes; the history keeps what is inside the window.               *)
Tick ==
  /\ now < MaxTime
  /\ now' = now + 1
  /\ admitted' = [k \in RateKeys |-> Since(admitted[k], now + 1 - Window)]
  /\ UNCHANGED <<hits, allowed>>

Next ==
  \/ \E c \in Callers, r \in Roles :
       \/ CallerRefused(c, r) \/ UnknownAction(c, r)
       \/ \E a \in Actions : ActionRefused(c, a, r) \/ Admitted(c, a, r)
  \/ Tick

Spec == Init /\ [][Next]_vars

-----------------------------------------------------------------------------
(* Hits are times of the past, in order, and no deque grows beyond the      *)
(* limit its newest was checked against (ratelimit.py:32-35, 80-90).       *)
TypeOK ==
  /\ now \in 0 .. MaxTime
  /\ hits \in [RateKeys -> Seq(0 .. now)]
  /\ admitted \in [RateKeys -> Seq(0 .. now)]
  /\ allowed \in [RateKeys -> Nat]
  /\ \A k \in RateKeys : /\ Len(hits[k]) <= allowed[k]
                         /\ \A i, j \in DOMAIN hits[k] : i < j => hits[k][i] <= hits[k][j]

(* However the calls fall, and whatever roles their caller has at the time, *)
(* the last window never holds more admitted calls than the limit the last *)
(* of them was checked against, for a caller or, over all callers, for an  *)
(* action (ratelimit.py:68-90, config/rate_limits.yaml:5-12).              *)
LimitHolds == \A k \in RateKeys : Len(admitted[k]) <= allowed[k]

(* A key is refused only if its window holds as many admitted calls as the  *)
(* limit of this call: refused calls do not count against it, even if the  *)
(* role has changed meanwhile (ratelimit.py:71-76).                        *)
RefusedOnlyWhenFull ==
  \A k \in RateKeys, r \in Roles : Full(k, r) => Len(admitted[k]) >= Limit(k, r)

(* Whether a call of k with limit n made at t, with no other in between,    *)
(* would be refused.                                                       *)
FullAt(k, n, t) ==
  Cardinality({j \in DOMAIN admitted[k] : admitted[k][j] > t - Window}) >= n

(* A refused caller is not told to wait longer than it must, beyond the     *)
(* tenth of a second every wait lasts at least.  If it comes back after    *)
(* the wait of check or of the header, it is admitted, unless others took  *)
(* the place; after that of the body it may be half a tenth too early.     *)
(* The exception: where its window holds more than its limit, because its  *)
(* role was lowered, it may be refused again (ratelimit.py:86-88,          *)
(* main.py:340-346).                                                       *)
RetryAfterHonest ==
  \A k \in RateKeys, r \in Roles :
    LET n == Limit(k, r)  wait == RetryAfter(k) IN
    Full(k, r) =>
      /\ wait > Floor => \A t \in now .. now + wait - 1 : FullAt(k, n, t)
      /\ Len(admitted[k]) = n =>
           /\ ~FullAt(k, n, now + wait)
           /\ ~FullAt(k, n, now + Header(k))
           /\ \A b \in Body(k) : ~FullAt(k, n, now + b + Floor \div 2)
=============================================================================
