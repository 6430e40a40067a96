------------------------- MODULE VaultClientProofs -------------------------
(* The Vault client for any number of threads, any request time, TTL,       *)
(* buffer and leases.                                                      *)
EXTENDS VaultClient, TLAPS

Calls == [step: Steps, sent: Nat, value: Nat, lease: Nat]

(* A request under way is within the time assumed of it.                    *)
InTime == \A w \in Sent : now <= thread[w].sent + RequestTime

(* What Vault served was its newest version no earlier than it was asked    *)
(* for, and what is cached no earlier than a request's time before.        *)
Dated ==
  /\ current[version] = now
  /\ \A v \in 0 .. version : current[v] <= now
  /\ \A w \in Threads : thread[w].step = "served" =>
       thread[w].value \in 0 .. version /\ thread[w].sent <= current[thread[w].value]
  /\ cache.at <= current[cache.value] + RequestTime

VaultInv ==
  /\ TypeOK
  /\ thread \in [Threads -> Calls]
  /\ InTime /\ Dated /\ NoNeedlessLogin

LEMMA Types ==
  ASSUME VaultInv
  PROVE  /\ now \in Nat /\ version \in Nat /\ cache.at \in Int /\ cache.value \in Nat
         /\ token.until \in Nat /\ token.refresh \in Nat
         /\ current \in [0 .. MaxVersion -> Nat] /\ 0 .. version \subseteq 0 .. MaxVersion
         /\ thread \in [Threads -> Calls]
         /\ \A w \in Threads : thread[w].step \in Steps /\ thread[w].sent \in Nat
                /\ thread[w].value \in Nat /\ thread[w].lease \in Nat
         /\ Ttl \in Nat /\ RequestTime \in Nat /\ Buffer \in Nat
BY TimeAssumption, SMTT(60) DEF VaultInv, TypeOK, Calls

LoggingIn == {"login", "granted"}
Asking == {"login", "granted", "read", "served"}

LEMMA Holder ==
  ASSUME VaultInv
  PROVE  /\ lock \in Threads \cup {NoThread}
         /\ \A u \in Threads : thread[u].step \in LoggingIn <=> lock = u
         /\ lock # NoThread => token.refresh <= now
<1>1. {u \in Threads : thread[u].step \in LoggingIn} = (IF lock = NoThread THEN {} ELSE {lock})
  BY DEF VaultInv, TypeOK, LoggingIn
<1>2. lock \in Threads \cup {NoThread}
  BY <1>1
<1>3. \A u \in Threads : thread[u].step \in LoggingIn <=> lock = u
  BY <1>1, TimeAssumption
<1>4. lock # NoThread => token.refresh <= now
  BY <1>2, <1>3, Types DEF VaultInv, NoNeedlessLogin, TokenFresh, LoggingIn
<1> QED BY <1>2, <1>3, <1>4

(* What a thread may be doing now, what the cache may hold now, and what    *)
(* holding the lock means for the token.                                   *)
Placed(c) ==
  /\ c \in Calls /\ c.sent <= now
  /\ c.step \in Asking => now <= c.sent + RequestTime
  /\ c.step = "served" => c.value \in 0 .. version /\ c.sent <= current[c.value]
Cached(e) ==
  /\ e.value \in 0 .. version /\ e.at \in {-Ttl} \cup (0 .. now)
  /\ e.at <= current[e.value] + RequestTime
Held(k, t) ==
  /\ t.until \in Nat /\ t.refresh \in Nat
  /\ k # NoThread => t.refresh <= now
Passes(w, c, k, l) ==
  /\ c.step \in LoggingIn => l = w /\ k \in {w, NoThread}
  /\ c.step \notin LoggingIn => l = (IF k = w THEN NoThread ELSE k)

(* A step of one thread, at one moment.                                     *)
LEMMA OneMoves ==
  ASSUME VaultInv, NEW w \in Threads, NEW c, Placed(c),
         thread' = [thread EXCEPT ![w] = c], UNCHANGED <<now, version, current>>,
         Cached(cache'), Held(lock', token'), Passes(w, c, lock, lock')
  PROVE  VaultInv'
<1>0. /\ now \in Nat /\ version \in Nat /\ thread \in [Threads -> Calls] /\ NoThread \notin Threads
      /\ now' = now /\ version' = version /\ current' = current
      /\ c \in Calls /\ c.step \in Steps /\ c.sent \in Nat /\ c.sent <= now /\ TypeOK
  BY Types, TimeAssumption DEF Placed, Calls, VaultInv
<1>1. thread'[w] = c /\ (\A u \in Threads \ {w} : thread'[u] = thread[u])
      /\ thread' \in [Threads -> Calls]
  BY <1>0
<1>2. \A u \in Threads : thread'[u].step \in LoggingIn <=> lock' = u
  <2>0. /\ lock \in Threads \cup {NoThread}
        /\ \A u \in Threads : thread[u].step \in LoggingIn <=> lock = u
    BY Holder
  <2> QED BY <1>0, <1>1, <2>0 DEF Passes
<1>3. lock' \in Threads \cup {NoThread}
  BY Holder DEF Passes
<1>4. {u \in Threads : thread'[u].step \in {"login", "granted"}}
        = (IF lock' = NoThread THEN {} ELSE {lock'})
  BY <1>0, <1>2, <1>3 DEF LoggingIn
<1>5. \A u \in Threads : thread'[u].step \in Steps /\ thread'[u].sent \in 0 .. now
  BY <1>0, <1>1 DEF TypeOK
<1>6. TypeOK'
  BY <1>0, <1>4, <1>5 DEF TypeOK, Cached, Held
<1>7. InTime'
  <2> SUFFICES ASSUME NEW u \in Threads, thread'[u].step \in Asking
               PROVE  now <= thread'[u].sent + RequestTime
    BY <1>0 DEF InTime, Sent, Asking
  <2>1. CASE u = w
    BY <1>1, <2>1 DEF Placed
  <2>2. CASE u # w
    BY <1>1, <2>2 DEF VaultInv, InTime, Sent, Asking
  <2> QED BY <2>1, <2>2
<1>8. Dated'
  <2>1. ASSUME NEW u \in Threads, thread'[u].step = "served"
        PROVE  thread'[u].value \in 0 .. version /\ thread'[u].sent <= current[thread'[u].value]
    <3>1. CASE u = w
      BY <1>1, <2>1, <3>1 DEF Placed
    <3>2. CASE u # w
      BY <1>1, <2>1, <3>2 DEF VaultInv, Dated
    <3> QED BY <3>1, <3>2
  <2> QED BY <1>0, <2>1 DEF VaultInv, Dated, Cached
<1>9. NoNeedlessLogin'
  <2> SUFFICES ASSUME NEW u \in Threads, thread'[u].step \in LoggingIn
               PROVE  ~(now < token'.refresh)
    BY <1>0 DEF NoNeedlessLogin, TokenFresh, LoggingIn
  <2>1. lock' # NoThread
    BY <1>0, <1>2
  <2> QED BY <1>0, <2>1 DEF Held
<1> QED BY <1>1, <1>6, <1>7, <1>8, <1>9 DEF VaultInv

(* What is so now.                                                          *)
LEMMA AtHand ==
  ASSUME VaultInv
  PROVE  /\ Cached(cache) /\ Held(lock, token)
         /\ \A w \in Threads : Placed(thread[w])
         /\ Placed(Idle) /\ Idle.step = "idle"
<1>1. Cached(cache)
  BY DEF VaultInv, TypeOK, Dated, Cached
<1>2. Held(lock, token)
  BY Holder DEF VaultInv, TypeOK, Held
<1>3. ASSUME NEW w \in Threads PROVE Placed(thread[w])
  <2>1. thread[w] \in Calls /\ thread[w].sent <= now
    BY Types DEF VaultInv, TypeOK
  <2> QED BY <2>1 DEF VaultInv, InTime, Sent, Asking, Dated, Placed
<1>4. Placed(Idle) /\ Idle.step = "idle"
  BY Types DEF Placed, Idle, Calls, Steps, Asking
<1> QED BY <1>1, <1>2, <1>3, <1>4

(* A thread that lets cache, token and lock be.                             *)
LEMMA OneGoes ==
  ASSUME VaultInv, NEW w \in Threads, NEW c, Placed(c),
         thread' = [thread EXCEPT ![w] = c],
         UNCHANGED <<now, version, current, cache, token, lock>>,
         c.step \in LoggingIn <=> thread[w].step \in LoggingIn
  PROVE  VaultInv'
<1>1. Cached(cache') /\ Held(lock', token')
  BY AtHand
<1>2. Passes(w, c, lock, lock')
  BY Holder, TimeAssumption DEF Passes
<1> QED BY <1>1, <1>2, OneMoves

(* A request that is sent now, and one whose step changes.                  *)
LEMMA Sending ==
  ASSUME VaultInv, NEW s \in {"login", "read"}, NEW v \in Nat
  PROVE  Placed([step |-> s, sent |-> now, value |-> v, lease |-> 0])
BY Types DEF Placed, Calls, Steps, Asking

LEMMA Stepping ==
  ASSUME VaultInv, NEW w \in Threads, NEW s \in {"auth", "forget"}
  PROVE  Placed([thread[w] EXCEPT !.step = s])
<1>1. PICK c : c = [thread[w] EXCEPT !.step = s]
  OBVIOUS
<1>2. c \in Calls /\ c.step = s /\ c.sent = thread[w].sent
  BY <1>1, Types DEF Calls, Steps
<1>3. c.sent <= now
  BY <1>2, AtHand DEF Placed
<1> QED BY <1>1, <1>2, <1>3 DEF Placed, Asking

(* What the calls of one thread keep.                                       *)
LEMMA CallKeeps == ASSUME VaultInv, NEW w \in Threads, Call(w) PROVE VaultInv'
<1>0. /\ thread[w] \in Calls /\ Placed(thread[w]) /\ Cached(cache) /\ Held(lock, token)
      /\ w # NoThread /\ (thread[w].step \in LoggingIn <=> lock = w)
  BY Types, AtHand, Holder, TimeAssumption
<1>1. CASE Miss(w)
  <2>1. PICK c : c = [thread[w] EXCEPT !.step = "auth"]
    OBVIOUS
  <2>2. Placed(c) /\ c.step = "auth"
    BY <1>0, <2>1, Stepping DEF Calls
  <2>3. thread' = [thread EXCEPT ![w] = c] /\ UNCHANGED <<now, version, current, cache, token, lock>>
        /\ thread[w].step = "idle"
    BY <1>1, <2>1 DEF Miss, Move
  <2> QED BY <2>2, <2>3, OneGoes DEF LoggingIn
<1>2. CASE UseToken(w)
  <2>1. PICK c : c = [step |-> "read", sent |-> now, value |-> token.until, lease |-> 0]
    OBVIOUS
  <2>2. Placed(c) /\ c.step = "read"
    BY <2>1, Sending, Types
  <2>3. thread' = [thread EXCEPT ![w] = c] /\ UNCHANGED <<now, version, current, cache, token, lock>>
        /\ thread[w].step = "auth"
    BY <1>2, <2>1 DEF UseToken, Send
  <2> QED BY <2>2, <2>3, OneGoes DEF LoggingIn
<1>3. CASE Login(w)
  <2>1. PICK c : c = [step |-> "login", sent |-> now, value |-> 0, lease |-> 0]
    OBVIOUS
  <2>2. Placed(c) /\ c.step = "login"
    BY <2>1, Sending
  <2>3. thread' = [thread EXCEPT ![w] = c] /\ UNCHANGED <<now, version, current, cache, token>>
        /\ lock = NoThread /\ lock' = w /\ ~(now < token.refresh)
    BY <1>3, <2>1 DEF Login, Send, TokenFresh
  <2>4. Held(lock', token')
    BY <1>0, <2>3, Types DEF Held
  <2> QED BY <1>0, <2>2, <2>3, <2>4, OneMoves DEF Passes, LoggingIn
<1>4. CASE Grant(w)
  <2>1. PICK lease \in Leases : thread' = [thread EXCEPT
         ![w].step = "granted", ![w].lease = lease,
         ![w].value = IF lease = 0 THEN Forever ELSE now + lease]
    BY <1>4 DEF Grant
  <2>2. PICK c : c = [step |-> "granted", sent |-> thread[w].sent, lease |-> lease,
                      value |-> IF lease = 0 THEN Forever ELSE now + lease]
    OBVIOUS
  <2>3. thread[w].step = "login" /\ UNCHANGED <<now, version, current, cache, token, lock>>
    BY <1>4 DEF Grant
  <2>4. Placed(c) /\ c.step = "granted"
    BY <1>0, <2>2, <2>3, Types, TimeAssumption, SMTT(60) DEF Placed, Calls, Steps, Forever, Asking
  <2>5. thread' = [thread EXCEPT ![w] = c]
    <3>1. PICK v : v = IF lease = 0 THEN Forever ELSE now + lease
      OBVIOUS
    <3>2. [[[thread[w] EXCEPT !.step = "granted"] EXCEPT !.lease = lease] EXCEPT !.value = v] = c
      <4>1. PICK r \in Calls : r = thread[w]
        BY <1>0
      <4>2. [[[r EXCEPT !.step = "granted"] EXCEPT !.lease = lease] EXCEPT !.value = v]
              = [step |-> "granted", sent |-> r.sent, lease |-> lease, value |-> v]
          <5>1. PICK a : a = [r EXCEPT !.step = "granted"]
            OBVIOUS
          <5>2. PICK b : b = [a EXCEPT !.lease = lease]
            OBVIOUS
          <5>3. a \in Calls /\ a.step = "granted" /\ a.sent = r.sent
            BY <5>1 DEF Calls, Steps
          <5>4. lease \in Nat
            BY TimeAssumption
          <5>5. b \in Calls /\ b.step = "granted" /\ b.sent = r.sent /\ b.lease = lease
            BY <5>2, <5>3, <5>4 DEF Calls
          <5>6. [b EXCEPT !.value = v] = [step |-> "granted", sent |-> r.sent, lease |-> lease, value |-> v]
            BY <5>5 DEF Calls
          <5> QED BY <5>1, <5>2, <5>6
      <4> QED BY <2>2, <3>1, <4>1, <4>2
    <3>3. thread' = [[[thread EXCEPT ![w].step = "granted"] EXCEPT ![w].lease = lease]
                       EXCEPT ![w].value = v]
      BY <2>1, <3>1
    <3> QED BY <3>2, <3>3, Types
  <2> QED BY <2>3, <2>4, <2>5, OneGoes DEF LoggingIn
<1>5. CASE LoggedIn(w)
  <2>1. PICK c : c = [step |-> "read", sent |-> now, value |-> thread[w].value, lease |-> 0]
    OBVIOUS
  <2>2. Placed(c) /\ c.step = "read"
    BY <2>1, Sending, Types
  <2>3. thread' = [thread EXCEPT ![w] = c] /\ UNCHANGED <<now, version, current, cache>>
        /\ thread[w].step = "granted" /\ lock' = NoThread
        /\ token' = [until |-> thread[w].value, refresh |-> RefreshAt(thread[w].lease)]
    BY <1>5, <2>1 DEF LoggedIn, Send
  <2>4. RefreshAt(thread[w].lease) \in Nat
    BY Types, TimeAssumption, SMTT(60) DEF RefreshAt, Forever
  <2>5. Held(lock', token')
    BY <2>3, <2>4, Types DEF Held
  <2> QED BY <1>0, <2>2, <2>3, <2>5, OneMoves DEF Passes, LoggingIn
<1>6. CASE LoginFails(w)
  <2>1. thread' = [thread EXCEPT ![w] = Idle] /\ UNCHANGED <<now, version, current, cache, token>>
        /\ thread[w].step \in LoggingIn /\ lock' = NoThread
    BY <1>6 DEF LoginFails, End, LoggingIn
  <2>2. Held(lock', token')
    BY <1>0, <2>1 DEF Held
  <2>3. Passes(w, Idle, lock, lock')
    BY <1>0, <2>1, AtHand DEF Passes, LoggingIn
  <2> QED BY <1>0, <2>1, <2>2, <2>3, AtHand, OneMoves
<1>7. CASE Serve(w)
  <2>1. PICK c : c = [thread[w] EXCEPT !.step = "served", !.value = version]
    OBVIOUS
  <2>2. thread' = [thread EXCEPT ![w] = c] /\ UNCHANGED <<now, version, current, cache, token, lock>>
        /\ thread[w].step = "read"
    BY <1>7, <2>1, Types DEF Serve
  <2>3. c \in Calls /\ c.step = "served" /\ c.sent = thread[w].sent /\ c.value = version
    BY <1>0, <2>1, Types DEF Calls, Steps
  <2>4. c.sent <= now /\ now <= c.sent + RequestTime /\ current[version] = now
    BY <1>0, <2>2, <2>3 DEF Placed, Asking, VaultInv, Dated
  <2>5. Placed(c)
    BY <2>3, <2>4, Types DEF Placed
  <2> QED BY <2>2, <2>3, <2>5, OneGoes DEF LoggingIn
<1>8. CASE Store(w)
  <2>1. thread' = [thread EXCEPT ![w] = Idle] /\ UNCHANGED <<now, version, current, token, lock>>
        /\ thread[w].step = "served" /\ cache' = [value |-> thread[w].value, at |-> now]
    BY <1>8 DEF Store, End
  <2>2. /\ thread[w].value \in 0 .. version /\ thread[w].sent <= current[thread[w].value]
        /\ now <= thread[w].sent + RequestTime
    BY <1>0, <2>1 DEF Placed, Asking
  <2>3. current[thread[w].value] \in Nat
    BY <2>2, Types
  <2>4. Cached(cache')
    BY <2>1, <2>2, <2>3, Types, SMTT(60) DEF Cached
  <2>5. Passes(w, Idle, lock, lock')
    BY <1>0, <2>1, AtHand DEF Passes, LoggingIn
  <2>6. Held(lock', token')
    BY <1>0, <2>1
  <2> QED BY <2>1, <2>4, <2>5, <2>6, AtHand, OneMoves
<1>9. CASE ReadFails(w)
  <2>1. thread' = [thread EXCEPT ![w] = Idle] /\ UNCHANGED <<now, version, current, cache, token, lock>>
        /\ thread[w].step \in {"read", "served"}
    BY <1>9 DEF ReadFails, End
  <2>2. Idle.step \in LoggingIn <=> thread[w].step \in LoggingIn
    BY <2>1, AtHand DEF LoggingIn
  <2> QED BY <2>1, <2>2, AtHand, OneGoes
<1>10. CASE Invalidate(w)
  <2>1. PICK c \in {thread[w], [thread[w] EXCEPT !.step = "forget"]} :
          thread' = [thread EXCEPT ![w] = c]
    BY <1>10, Types DEF Invalidate, Move
  <2>2. Placed(c) /\ c.step \in {"idle", "forget"}
    BY <1>0, <1>10, <2>1, Stepping DEF Calls, Invalidate
  <2>3. /\ cache' = Empty /\ UNCHANGED <<now, version, current, token, lock>>
        /\ thread[w].step = "idle"
    BY <1>10 DEF Invalidate
  <2>4. current[0] \in Nat /\ 0 \in 0 .. version
    BY Types
  <2>5. Cached(cache')
    BY <2>3, <2>4, Types DEF Empty, Cached
  <2>6. Passes(w, c, lock, lock') /\ Held(lock', token')
    BY <1>0, <2>2, <2>3 DEF Passes, LoggingIn
  <2> QED BY <2>1, <2>2, <2>3, <2>5, <2>6, OneMoves
<1>11. CASE ForgetToken(w)
  <2>1. thread' = [thread EXCEPT ![w] = Idle] /\ UNCHANGED <<now, version, current, cache, lock>>
        /\ thread[w].step = "forget" /\ lock = NoThread /\ token' = NoToken
    BY <1>11 DEF ForgetToken, End
  <2>2. Held(lock', token')
    BY <2>1 DEF Held, NoToken
  <2>3. Passes(w, Idle, lock, lock')
    BY <1>0, <2>1, AtHand DEF Passes, LoggingIn
  <2>4. Cached(cache')
    BY <1>0, <2>1
  <2> QED BY <2>1, <2>2, <2>3, <2>4, AtHand, OneMoves
<1> QED BY <1>1, <1>2, <1>3, <1>4, <1>5, <1>6, <1>7, <1>8, <1>9, <1>10, <1>11 DEF Call

(* Time passes, and the secret changes.                                     *)
LEMMA TickKeeps == ASSUME VaultInv, Tick PROVE VaultInv'
<1>0. /\ now < MaxTime /\ now' = now + 1 /\ (\A w \in Sent : now < thread[w].sent + RequestTime)
      /\ current' = [current EXCEPT ![version] = now + 1]
      /\ version' = version /\ cache' = cache /\ token' = token /\ lock' = lock /\ thread' = thread
  BY DEF Tick
<1>1. /\ now \in Nat /\ version \in 0 .. MaxVersion /\ current \in [0 .. MaxVersion -> 0 .. MaxTime]
      /\ MaxTime \in Nat /\ MaxVersion \in Nat /\ RequestTime \in Nat /\ cache.value \in 0 .. version /\ cache.at \in Int
  BY Types, TimeAssumption DEF VaultInv, TypeOK
<1>2. TypeOK'
  <2>1. now' \in 0 .. MaxTime /\ version' \in 0 .. MaxVersion /\ current' \in [0 .. MaxVersion -> 0 .. MaxTime]
    BY <1>0, <1>1
  <2>2. cache'.at \in {-Ttl} \cup (0 .. now') /\ \A w \in Threads : thread'[w].sent \in 0 .. now'
    BY <1>0, <1>1, TimeAssumption DEF VaultInv, TypeOK
  <2> QED BY <1>0, <2>1, <2>2 DEF VaultInv, TypeOK
<1>3. InTime'
  BY <1>0, <1>1, Types, SMTT(60) DEF InTime, Sent
<1>4. Dated'
  <2>1. current'[version] = now' /\ \A v \in 0 .. version : current[v] <= current'[v] /\ current'[v] <= now'
    <3>1. \A v \in 0 .. version : v \in 0 .. MaxVersion /\ current[v] \in Nat /\ current[v] <= now
      BY <1>1 DEF VaultInv, Dated
    <3>2. \A v \in 0 .. version : current'[v] = IF v = version THEN now + 1 ELSE current[v]
      BY <1>0, <1>1, <3>1
    <3>3. version \in 0 .. version
      BY <1>1
    <3> QED BY <1>0, <1>1, <3>1, <3>2, <3>3
  <2>2. \A v \in 0 .. version : current[v] \in Nat /\ current'[v] \in Int
    <3>1. \A v \in 0 .. version : v \in 0 .. MaxVersion
      BY <1>1
    <3> QED BY <1>0, <1>1, <3>1
  <2>3. cache.at <= current'[cache.value] + RequestTime
    BY <1>1, <2>1, <2>2, SMTT(60) DEF VaultInv, Dated
  <2>4. ASSUME NEW w \in Threads, thread[w].step = "served"
        PROVE  thread[w].value \in 0 .. version /\ thread[w].sent <= current'[thread[w].value]
    <3>1. /\ thread[w].value \in 0 .. version /\ thread[w].sent <= current[thread[w].value]
          /\ thread[w].sent \in Nat
      BY <2>4, Types DEF VaultInv, Dated
    <3> QED BY <2>1, <2>2, <3>1
  <2> QED BY <1>0, <2>1, <2>3, <2>4 DEF Dated
<1>5. NoNeedlessLogin'
  BY <1>0, <1>1, Types DEF VaultInv, NoNeedlessLogin, TokenFresh
<1> QED BY <1>0, <1>2, <1>3, <1>4, <1>5 DEF VaultInv

LEMMA UpdateKeeps == ASSUME VaultInv, Update PROVE VaultInv'
<1>0. /\ version < MaxVersion /\ version' = version + 1
      /\ current' = [current EXCEPT ![version + 1] = now]
      /\ now' = now /\ cache' = cache /\ token' = token /\ lock' = lock /\ thread' = thread
  BY DEF Update
<1>1. /\ now \in 0 .. MaxTime /\ version \in 0 .. MaxVersion /\ current \in [0 .. MaxVersion -> 0 .. MaxTime]
      /\ MaxVersion \in Nat /\ cache.value \in 0 .. version
  BY TimeAssumption DEF VaultInv, TypeOK
<1>2. /\ version + 1 \in 0 .. MaxVersion
      /\ \A v \in 0 .. version : v \in 0 .. version + 1 /\ v \in 0 .. MaxVersion /\ v # version + 1
      /\ \A v \in 0 .. version + 1 : v = version + 1 \/ v \in 0 .. version
  BY <1>0, <1>1
<1>3. current' \in [0 .. MaxVersion -> 0 .. MaxTime] /\ current'[version + 1] = now
      /\ \A v \in 0 .. version : current'[v] = current[v]
  BY <1>0, <1>1, <1>2
<1>4. TypeOK'
  BY <1>0, <1>1, <1>2, <1>3 DEF VaultInv, TypeOK
<1>5. Dated'
  BY <1>0, <1>1, <1>2, <1>3 DEF VaultInv, Dated
<1>6. InTime' /\ NoNeedlessLogin'
  BY <1>0 DEF VaultInv, InTime, Sent, NoNeedlessLogin, TokenFresh
<1> QED BY <1>0, <1>4, <1>5, <1>6 DEF VaultInv

LEMMA StepKeeps == ASSUME VaultInv, [Next]_vars PROVE VaultInv'
<1>1. CASE UNCHANGED vars
  BY <1>1 DEF vars, VaultInv, TypeOK, InTime, Sent, Dated, NoNeedlessLogin, TokenFresh
<1>2. CASE Next
  BY <1>1, <1>2, CallKeeps, TickKeeps, UpdateKeeps DEF Next, Rest
<1> QED BY <1>1, <1>2

LEMMA InitHolds == Init => VaultInv
<1> SUFFICES ASSUME Init PROVE VaultInv
  OBVIOUS
<1>1. thread \in [Threads -> Calls] /\ \A w \in Threads : thread[w] = Idle /\ thread[w].step = "idle"
  BY DEF Init, Idle, Calls, Steps
<1>2. TypeOK
  BY <1>1, TimeAssumption DEF Init, TypeOK, Empty, NoToken, Idle, Steps
<1>3. InTime /\ NoNeedlessLogin
  BY <1>1 DEF InTime, Sent, NoNeedlessLogin
<1>4. Dated
  BY <1>1, TimeAssumption DEF Init, Dated, Empty
<1> QED BY <1>1, <1>2, <1>3, <1>4 DEF VaultInv

LEMMA VaultHolds == Spec => []VaultInv
BY InitHolds, StepKeeps, PTL DEF Spec

(* The values stay in their ranges, and the auth lock is held exactly by    *)
(* the thread that logs in (vault.py:188-193).                             *)
THEOREM LockIsHeldByLogin == Spec => []TypeOK
<1>1. VaultInv => TypeOK
  BY DEF VaultInv
<1> QED BY <1>1, VaultHolds, PTL

(* Nobody logs in while there is a token to use, however many threads find  *)
(* none at once (vault.py:188-193).                                        *)
THEOREM LoginsAreShared == Spec => []NoNeedlessLogin
<1>1. VaultInv => NoNeedlessLogin
  BY DEF VaultInv
<1> QED BY <1>1, VaultHolds, PTL

(* What the cache serves is never older than the TTL and one request's      *)
(* time, whatever the two are (vault.py:109-159).                          *)
THEOREM StalenessIsBounded == Spec => []StalenessBounded
<1>1. VaultInv => StalenessBounded
  <2> SUFFICES ASSUME VaultInv, Fresh PROVE now - current[cache.value] < Ttl + RequestTime
    BY DEF StalenessBounded
  <2>1. cache.value \in 0 .. version /\ cache.at <= current[cache.value] + RequestTime
    BY DEF VaultInv, TypeOK, Dated
  <2>2. current[cache.value] \in Nat
    BY <2>1, Types
  <2> QED BY <2>1, <2>2, Types, SMTT(60) DEF Fresh
<1> QED BY <1>1, VaultHolds, PTL

(***************************************************************************)
(* Tokens, when the buffer covers a login's answer and a request, and no    *)
(* lease is shorter (the defaults: twice 5 s, 30 s, and leases of minutes). *)
(***************************************************************************)
BufferCovers ==
  /\ 2 * RequestTime <= Buffer
  /\ \A l \in Leases : l = 0 \/ 2 * RequestTime < l

(* A granted lease is reckoned from after the login was sent; a token is    *)
(* replaced a request's time before it expires; a request that is sent may *)
(* take all its time.                                                      *)
Lasts(c) ==
  /\ c.step = "granted" => \/ c.lease = 0 /\ c.value = Forever
                           \/ c.lease \in Leases \ {0} /\ c.sent + c.lease <= c.value
  /\ c.step = "read" => c.value = Forever \/ c.sent + RequestTime < c.value
LastsToken(t) == t.refresh = 0 \/ t.until = Forever \/ t.refresh + RequestTime <= t.until

TokenInv == VaultInv /\ LastsToken(token) /\ \A w \in Threads : Lasts(thread[w])

(* What follows for one thread follows for all.                             *)
LEMMA OneLasts ==
  ASSUME TokenInv, NEW w \in Threads, NEW c, thread' = [thread EXCEPT ![w] = c],
         Lasts(c), LastsToken(token'), VaultInv'
  PROVE  TokenInv'
<1>1. \A u \in Threads : Lasts(thread'[u])
  BY Types DEF TokenInv
<1> QED BY <1>1 DEF TokenInv, Lasts, LastsToken, Forever

LEMMA CallLasts ==
  ASSUME BufferCovers, TokenInv, NEW w \in Threads, Call(w), VaultInv'
  PROVE  TokenInv'
<1>0. /\ VaultInv /\ Lasts(thread[w]) /\ LastsToken(token) /\ Lasts(Idle)
      /\ Placed(thread[w]) /\ thread[w] \in Calls
  BY AtHand, Types DEF TokenInv, Lasts, Idle
<1>t. /\ now \in Nat /\ RequestTime \in Nat /\ Buffer \in Nat /\ MaxTime \in Nat
      /\ token.until \in Nat /\ token.refresh \in Nat
      /\ thread[w].value \in Nat /\ thread[w].lease \in Nat /\ thread[w].sent \in Nat
      /\ thread \in [Threads -> Calls]
  BY <1>0, Types, TimeAssumption
<1>1. CASE Miss(w)
  <2>1. PICK c : c = [thread[w] EXCEPT !.step = "auth"]
    OBVIOUS
  <2>2. thread' = [thread EXCEPT ![w] = c] /\ c.step = "auth" /\ token' = token
    BY <1>0, <1>1, <2>1 DEF Miss, Move, Calls
  <2>3. Lasts(c)
    BY <2>2 DEF Lasts
  <2> QED BY <1>0, <2>2, <2>3, OneLasts
<1>2. CASE UseToken(w)
  <2>1. PICK c : c = [step |-> "read", sent |-> now, value |-> token.until, lease |-> 0]
    OBVIOUS
  <2>2. thread' = [thread EXCEPT ![w] = c] /\ now < token.refresh /\ token' = token
    BY <1>2, <2>1 DEF UseToken, Send, TokenFresh
  <2>3. token.until = Forever \/ now + RequestTime < token.until
    BY <1>0, <1>t, <2>2 DEF LastsToken
  <2>4. Lasts(c)
    BY <2>1, <2>3 DEF Lasts
  <2> QED BY <1>0, <2>2, <2>4, OneLasts
<1>3. CASE Login(w)
  <2>1. PICK c : c = [step |-> "login", sent |-> now, value |-> 0, lease |-> 0]
    OBVIOUS
  <2>2. thread' = [thread EXCEPT ![w] = c] /\ token' = token
    BY <1>3, <2>1 DEF Login, Send
  <2>3. Lasts(c)
    BY <2>1 DEF Lasts
  <2> QED BY <1>0, <2>2, <2>3, OneLasts
<1>4. CASE Grant(w)
  <2>1. PICK lease \in Leases : thread' = [thread EXCEPT
         ![w].step = "granted", ![w].lease = lease,
         ![w].value = IF lease = 0 THEN Forever ELSE now + lease]
    BY <1>4 DEF Grant
  <2>2. PICK c : c = thread'[w]
    OBVIOUS
  <2>3. thread' = [thread EXCEPT ![w] = c] /\ token' = token
    BY <1>4, <1>t, <2>1, <2>2 DEF Grant
  <2>4. /\ c.step = "granted" /\ c.lease = lease /\ c.sent = thread[w].sent
        /\ c.value = IF lease = 0 THEN Forever ELSE now + lease
    BY <1>t, <2>1, <2>2 DEF Calls
  <2>5. thread[w].sent <= now /\ lease \in Nat
    BY <1>0, TimeAssumption DEF Placed
  <2>6. Lasts(c)
    BY <1>t, <2>4, <2>5 DEF Lasts
  <2> QED BY <1>0, <2>3, <2>6, OneLasts
<1>5. CASE LoggedIn(w)
  <2>1. PICK c : c = [step |-> "read", sent |-> now, value |-> thread[w].value, lease |-> 0]
    OBVIOUS
  <2>2. /\ thread' = [thread EXCEPT ![w] = c] /\ thread[w].step = "granted"
        /\ token' = [until |-> thread[w].value, refresh |-> RefreshAt(thread[w].lease)]
    BY <1>5, <2>1 DEF LoggedIn, Send
  <2>3. now <= thread[w].sent + RequestTime
    BY <1>0, <2>2 DEF Placed, Asking
  <2>4. \/ thread[w].value = Forever
        \/ /\ now + RequestTime < thread[w].value
           /\ RefreshAt(thread[w].lease) + RequestTime <= thread[w].value
    <3>1. CASE thread[w].value = Forever
      BY <3>1
    <3>2. CASE thread[w].lease \in Leases \ {0} /\ thread[w].sent + thread[w].lease <= thread[w].value
      <4>1. 2 * RequestTime <= Buffer /\ 2 * RequestTime < thread[w].lease
        BY <3>2 DEF BufferCovers
      <4>2. \/ RefreshAt(thread[w].lease) = now + (thread[w].lease - Buffer)
            \/ RefreshAt(thread[w].lease) = now + 1
        BY <3>2 DEF RefreshAt
      <4> QED BY <1>t, <2>3, <3>2, <4>1, <4>2
    <3> QED BY <1>0, <2>2, <3>1, <3>2 DEF Lasts
  <2>5. Lasts(c) /\ LastsToken(token')
    BY <2>1, <2>2, <2>4 DEF Lasts, LastsToken
  <2> QED BY <1>0, <2>2, <2>5, OneLasts
<1>6. CASE LoginFails(w)
  BY <1>0, <1>6, OneLasts DEF LoginFails, End
<1>7. CASE Serve(w)
  <2>1. PICK c : c = [thread[w] EXCEPT !.step = "served", !.value = version]
    OBVIOUS
  <2>2. thread' = [thread EXCEPT ![w] = c] /\ token' = token /\ c.step = "served"
    BY <1>7, <1>t, <2>1 DEF Serve, Calls
  <2>3. Lasts(c)
    BY <2>2 DEF Lasts
  <2> QED BY <1>0, <2>2, <2>3, OneLasts
<1>8. CASE Store(w)
  BY <1>0, <1>8, OneLasts DEF Store, End
<1>9. CASE ReadFails(w)
  BY <1>0, <1>9, OneLasts DEF ReadFails, End
<1>10. CASE Invalidate(w)
  <2>1. PICK c \in {thread[w], [thread[w] EXCEPT !.step = "forget"]} :
          thread' = [thread EXCEPT ![w] = c]
    BY <1>10, <1>t DEF Invalidate, Move
  <2>2. c = thread[w] \/ c.step = "forget"
    BY <1>0, <2>1 DEF Calls
  <2>3. Lasts(c) /\ token' = token
    BY <1>0, <1>10, <2>2 DEF Lasts, Invalidate
  <2> QED BY <1>0, <2>1, <2>3, OneLasts
<1>11. CASE ForgetToken(w)
  <2>1. thread' = [thread EXCEPT ![w] = Idle] /\ LastsToken(token')
    BY <1>11 DEF ForgetToken, End, NoToken, LastsToken
  <2> QED BY <1>0, <2>1, OneLasts
<1> QED BY <1>1, <1>2, <1>3, <1>4, <1>5, <1>6, <1>7, <1>8, <1>9, <1>10, <1>11 DEF Call

(* No request reaches Vault with an expired token: the buffer and the       *)
(* floor of one second are what it takes (vault.py:195-205).               *)
THEOREM TokensOutliveRequests ==
  ASSUME BufferCovers PROVE Spec => []TokenStillValid
<1>1. Init => TokenInv
  <2> SUFFICES ASSUME Init PROVE TokenInv
    OBVIOUS
  <2>1. LastsToken(token) /\ \A w \in Threads : Lasts(thread[w])
    BY DEF Init, NoToken, LastsToken, Idle, Lasts
  <2> QED BY <2>1, InitHolds DEF TokenInv
<1>2. TokenInv /\ [Next]_vars => TokenInv'
  <2> SUFFICES ASSUME TokenInv, [Next]_vars PROVE TokenInv'
    OBVIOUS
  <2>1. VaultInv'
    BY StepKeeps DEF TokenInv
  <2>2. CASE UNCHANGED <<token, thread>>
    BY <2>1, <2>2 DEF TokenInv, LastsToken, Lasts
  <2>3. CASE \E w \in Threads : Call(w)
    BY <2>1, <2>3, CallLasts
  <2> QED BY <2>2, <2>3 DEF Next, Update, Tick, Rest, vars
<1>3. TokenInv => TokenStillValid
  <2> SUFFICES ASSUME TokenInv, NEW w \in Threads, thread[w].step = "read"
               PROVE  now < thread[w].value
    BY DEF TokenStillValid
  <2>0. VaultInv /\ Lasts(thread[w])
    BY DEF TokenInv
  <2>1. now \in 0 .. MaxTime /\ now <= thread[w].sent + RequestTime
    BY <2>0 DEF VaultInv, TypeOK, InTime, Sent
  <2>2. thread[w].value = Forever \/ thread[w].sent + RequestTime < thread[w].value
    BY <2>0 DEF Lasts
  <2>3. thread[w].sent \in Nat /\ thread[w].value \in Nat
    BY <2>0, Types
  <2> QED BY <2>1, <2>2, <2>3, TimeAssumption DEF Forever
<1> QED BY <1>1, <1>2, <1>3, PTL DEF Spec
=============================================================================

