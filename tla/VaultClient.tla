---------------------------- MODULE VaultClient ----------------------------
(***************************************************************************)
(* src/vault.py with auth_method "kubernetes": get_secret for one path,    *)
(* called by any request handler, so by several threads at once.  The      *)
(* cache lock is held only to read or to write the entry; the auth lock is *)
(* held over the whole login.  A request to Vault is sent, served by Vault *)
(* and answered at three different moments.                                *)
(*                                                                         *)
(* How long a request takes is an assumption of its own.  timeout_seconds  *)
(* bounds the connecting and each wait for bytes of the answer, not their  *)
(* sum (vault.py:139, 228): RequestTime is twice that for an answer that   *)
(* comes in one piece, and no bound holds for one that trickles in.        *)
(***************************************************************************)
EXTENDS Integers, FiniteSets

CONSTANTS
  Threads,
  NoThread,      \* nobody holds the auth lock
  Ttl,           \* cache_ttl_seconds
  RequestTime,   \* assumed: a request is answered, or fails, within it
  Buffer,        \* token_refresh_buffer_seconds
  Leases,        \* lease_duration Vault may grant; 0: does not expire
  MaxVersion,    \* bound: versions of the secret
  MaxTime        \* bound: the clock stops here

ASSUME TimeAssumption ==
  /\ Ttl \in Nat /\ RequestTime \in Nat /\ Buffer \in Nat /\ Leases \subseteq Nat
  /\ MaxVersion \in Nat /\ MaxTime \in Nat
  /\ NoThread \notin Threads

VARIABLES
  now,       \* time.time()
  version,   \* the secret in Vault
  current,   \* history: when each version was last the one in Vault
  cache,     \* _cache[path]: [value, at]
  token,     \* _k8s_token and when Vault lets it expire; _k8s_token_expires_at
  lock,      \* holder of _auth_lock
  thread     \* where each call is: step, when its request was sent, the
             \* lease granted, and the expiry of the token it holds or, once
             \* served, the version of the secret

vars == <<now, version, current, cache, token, lock, thread>>

Empty == [value |-> 0, at |-> -Ttl]
NoToken == [until |-> 0, refresh |-> 0]
Idle == [step |-> "idle", sent |-> 0, value |-> 0, lease |-> 0]
Forever == MaxTime + 1

Init ==
  /\ now = 0 /\ version = 0 /\ current = [v \in 0 .. MaxVersion |-> 0]
  /\ cache = Empty /\ token = NoToken
  /\ lock = NoThread /\ thread = [w \in Threads |-> Idle]

-----------------------------------------------------------------------------
(* Mutant: an entry exactly as old as the TTL is still served.             *)
FreshInclusive == now - cache.at <= Ttl

Fresh == now - cache.at < Ttl
TokenFresh == now < token.refresh

Move(w, step) == thread' = [thread EXCEPT ![w].step = step]
Send(w, step, until) ==
  thread' = [thread EXCEPT ![w] = [step |-> step, sent |-> now, value |-> until, lease |-> 0]]
End(w) == thread' = [thread EXCEPT ![w] = Idle]

(* get_secret, when the entry is missing or too old.  A fresh one is        *)
(* returned, and nothing changes.                                          *)
Miss(w) ==
  /\ thread[w].step = "idle" /\ ~Fresh
  /\ Move(w, "auth")
  /\ UNCHANGED <<now, version, current, cache, token, lock>>

(* _ensure_kubernetes_token: under the lock, a fresh token is taken ...    *)
UseToken(w) ==
  /\ thread[w].step = "auth" /\ lock = NoThread /\ TokenFresh
  /\ Send(w, "read", token.until)
  /\ UNCHANGED <<now, version, current, cache, token, lock>>

(* Mutant: the token is looked at before the lock is taken.                *)
LoginUnlocked(w) ==
  /\ thread[w].step = "auth" /\ ~TokenFresh
  /\ lock' = w
  /\ Send(w, "login", 0)
  /\ UNCHANGED <<now, version, current, cache, token>>

(* ... and without one a login is begun, keeping the lock.                 *)
Login(w) ==
  /\ thread[w].step = "auth" /\ lock = NoThread /\ ~TokenFresh
  /\ lock' = w
  /\ Send(w, "login", 0)
  /\ UNCHANGED <<now, version, current, cache, token>>

(* Vault issues a token.                                                   *)
Grant(w) ==
  /\ thread[w].step = "login"
  /\ \E lease \in Leases :
       thread' = [thread EXCEPT
         ![w].step = "granted", ![w].lease = lease,
         ![w].value = IF lease = 0 THEN Forever ELSE now + lease]
  /\ UNCHANGED <<now, version, current, cache, token, lock>>

(* Mutant: the token is used to the end of its lease.                      *)
RefreshAtEnd(lease) == IF lease = 0 THEN Forever ELSE now + lease

(* When a token has to be replaced, reckoned from the answer's arrival.    *)
RefreshAt(lease) ==
  IF lease = 0 THEN Forever
  ELSE now + (IF lease - Buffer > 1 THEN lease - Buffer ELSE 1)

(* The answer arrives; the secret is asked for with the new token.         *)
LoggedIn(w) ==
  /\ thread[w].step = "granted"
  /\ token' = [until |-> thread[w].value, refresh |-> RefreshAt(thread[w].lease)]
  /\ lock' = NoThread
  /\ Send(w, "read", thread[w].value)
  /\ UNCHANGED <<now, version, current, cache>>

(* The login fails: VaultUnavailableError, the token stays as it was.      *)
LoginFails(w) ==
  /\ thread[w].step \in {"login", "granted"}
  /\ lock' = NoThread
  /\ End(w)
  /\ UNCHANGED <<now, version, current, cache, token>>

(* Vault reads the secret.                                                 *)
Serve(w) ==
  /\ thread[w].step = "read" /\ now < thread[w].value
  /\ thread' = [thread EXCEPT ![w].step = "served", ![w].value = version]
  /\ UNCHANGED <<now, version, current, cache, token, lock>>

(* The answer arrives and is cached from now on.                           *)
Store(w) ==
  /\ thread[w].step = "served"
  /\ cache' = [value |-> thread[w].value, at |-> now]
  /\ End(w)
  /\ UNCHANGED <<now, version, current, token, lock>>

(* The read fails, or Vault refuses the token: VaultUnavailableError; the   *)
(* entry stays as it was, too old to be served.                            *)
ReadFails(w) ==
  /\ thread[w].step \in {"read", "served"}
  /\ End(w)
  /\ UNCHANGED <<now, version, current, cache, token, lock>>

(* invalidate: the entry is dropped; with no path given ...                *)
Invalidate(w) ==
  /\ thread[w].step = "idle"
  /\ cache' = Empty
  /\ \/ UNCHANGED thread
     \/ Move(w, "forget")
  /\ UNCHANGED <<now, version, current, token, lock>>

(* ... the token, too.                                                     *)
ForgetToken(w) ==
  /\ thread[w].step = "forget" /\ lock = NoThread
  /\ token' = NoToken
  /\ End(w)
  /\ UNCHANGED <<now, version, current, cache, lock>>

-----------------------------------------------------------------------------
(* Somebody writes a new version of the secret.                            *)
Update ==
  /\ version < MaxVersion
  /\ version' = version + 1
  /\ current' = [current EXCEPT ![version + 1] = now]
  /\ UNCHANGED <<now, cache, token, lock, thread>>

Sent == {w \in Threads : thread[w].step \in {"login", "granted", "read", "served"}}

(* Time passes, but not beyond what a request under way is assumed to take. *)
Tick ==
  /\ now < MaxTime /\ \A w \in Sent : now < thread[w].sent + RequestTime
  /\ now' = now + 1
  /\ current' = [current EXCEPT ![version] = now + 1]
  /\ UNCHANGED <<version, cache, token, lock, thread>>

Call(w) ==
  \/ Miss(w) \/ UseToken(w) \/ Login(w) \/ Grant(w) \/ LoggedIn(w) \/ LoginFails(w)
  \/ Serve(w) \/ Store(w) \/ ReadFails(w) \/ Invalidate(w) \/ ForgetToken(w)

(* The bound MaxTime is reached, and every entry is fresh.                 *)
Rest == now = MaxTime /\ UNCHANGED vars

Next == (\E w \in Threads : Call(w)) \/ Update \/ Tick \/ Rest

Spec == Init /\ [][Next]_vars

-----------------------------------------------------------------------------
Steps == {"idle", "auth", "login", "granted", "read", "served", "forget"}

(* Types; the auth lock is held exactly by a thread that logs in            *)
(* (vault.py:188-193).                                                     *)
TypeOK ==
  /\ now \in 0 .. MaxTime /\ version \in 0 .. MaxVersion
  /\ current \in [0 .. MaxVersion -> 0 .. MaxTime]
  /\ cache.value \in 0 .. version /\ cache.at \in {-Ttl} \cup (0 .. now)
  /\ token.until \in Nat /\ token.refresh \in Nat
  /\ \A w \in Threads : thread[w].step \in Steps /\ thread[w].sent \in 0 .. now
  /\ {w \in Threads : thread[w].step \in {"login", "granted"}}
       = (IF lock = NoThread THEN {} ELSE {lock})

(* What the cache serves was in Vault less than the TTL and one request's   *)
(* time ago, whichever of several overlapping fetches was stored last.  An *)
(* entry's age counts from the answer's arrival, so the TTL alone is not a *)
(* bound (vault.py:109-159).                                               *)
StalenessBounded == Fresh => now - current[cache.value] < Ttl + RequestTime

(* Every request reaches Vault with a token that has not expired, if the    *)
(* buffer covers the login's answer and the request (vault.py:195-205).    *)
TokenStillValid == \A w \in Threads : thread[w].step = "read" => now < thread[w].value

(* Nobody logs in while there is a token to use: several calls that find    *)
(* none wait for the first one's login (vault.py:188-193).                 *)
NoNeedlessLogin ==
  \A w \in Threads : thread[w].step \in {"login", "granted"} => ~TokenFresh
=============================================================================
