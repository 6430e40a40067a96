------------------------- MODULE RateLimiterProofs -------------------------
(* The limits of RateLimiter for every set of keys, every limit, every      *)
(* window and every length of time.                                        *)
EXTENDS RateLimiter, SequenceTheorems, FiniteSetTheorems, WellFoundedInduction, TLAPS

LEMMA LeastElement ==
  ASSUME NEW S \in SUBSET Nat, S # {}
  PROVE  \E m \in S : \A n \in S : m <= n
<1>1. PICK m \in S : \A n \in S : <<n, m>> \notin OpToRel(<, Nat)
  BY NatLessThanWellFounded, WFMin
<1>2. \A n \in S : ~(n < m)
  BY <1>1 DEF OpToRel
<1> QED BY <1>2

(* n times are popped from q: the while loop stops at the first later one.  *)
Popped(q, n, t) ==
  /\ n \in 0 .. Len(q)
  /\ \A i \in 1 .. n : q[i] <= t
  /\ n < Len(q) => q[n + 1] > t

LEMMA SomePopped ==
  ASSUME NEW q \in Seq(Int), NEW t \in Int
  PROVE  \E n : Popped(q, n, t)
<1> DEFINE Later == {i \in 1 .. Len(q) : q[i] > t}
<1>0. /\ Len(q) \in Nat /\ \A i \in 1 .. Len(q) : q[i] \in Int
  OBVIOUS
<1>1. CASE Later = {}
  <2>1. \A i \in 1 .. Len(q) : q[i] <= t
    BY <1>0, <1>1
  <2>2. Popped(q, Len(q), t)
    BY <1>0, <2>1 DEF Popped
  <2> QED BY <2>2
<1>2. CASE Later # {}
  <2>1. Later \in SUBSET Nat
    BY <1>0
  <2>2. \A i : i \in Later <=> i \in 1 .. Len(q) /\ q[i] > t
    OBVIOUS
  <2> HIDE DEF Later
  <2>3. PICK m \in Later : \A n \in Later : m <= n
    BY <1>2, <2>1, LeastElement
  <2>4. m \in 1 .. Len(q) /\ q[m] > t
    BY <2>2, <2>3
  <2>5. ASSUME NEW i \in 1 .. m - 1 PROVE q[i] <= t
    <3>1. i \in 1 .. Len(q) /\ ~(m <= i)
      BY <1>0, <2>4
    <3>2. i \notin Later
      BY <2>3, <3>1
    <3>3. ~(q[i] > t)
      BY <2>2, <3>1, <3>2
    <3>4. q[i] \in Int
      BY <1>0, <3>1
    <3> QED BY <3>3, <3>4
  <2>6. m - 1 \in 0 .. Len(q) /\ m - 1 + 1 = m
    BY <1>0, <2>4
  <2>7. Popped(q, m - 1, t)
    BY <2>4, <2>5, <2>6 DEF Popped
  <2> QED BY <2>7
<1> QED BY <1>1, <1>2

LEMMA OnePopped ==
  ASSUME NEW q \in Seq(Int), NEW t \in Int, NEW n, NEW m, Popped(q, n, t), Popped(q, m, t)
  PROVE  n = m
<1>1. n \in 0 .. Len(q) /\ m \in 0 .. Len(q) /\ Len(q) \in Nat
  BY DEF Popped
<1>2. \A i \in 1 .. Len(q) : q[i] \in Int
  OBVIOUS
<1>3. ~(n < m)
  <2> SUFFICES ASSUME n < m PROVE FALSE
    OBVIOUS
  <2>1. n + 1 \in 1 .. m /\ n + 1 \in 1 .. Len(q) /\ n < Len(q)
    BY <1>1
  <2> QED BY <1>2, <2>1 DEF Popped
<1>4. ~(m < n)
  <2> SUFFICES ASSUME m < n PROVE FALSE
    OBVIOUS
  <2>1. m + 1 \in 1 .. n /\ m + 1 \in 1 .. Len(q) /\ m < Len(q)
    BY <1>1
  <2> QED BY <1>2, <2>1 DEF Popped
<1> QED BY <1>1, <1>3, <1>4

LEMMA SinceIs ==
  ASSUME NEW q \in Seq(Int), NEW t \in Int, NEW n, Popped(q, n, t)
  PROVE  Since(q, t) = SubSeq(q, n + 1, Len(q))
<1> DEFINE c == CHOOSE m \in 0 .. Len(q) : /\ \A i \in 1 .. m : q[i] <= t
                                           /\ m < Len(q) => q[m + 1] > t
<1>1. Popped(q, c, t)
  BY DEF Popped
<1>2. c = n
  BY <1>1, OnePopped
<1> QED BY <1>2 DEF Since

(* What is left is a suffix.                                               *)
LEMMA SinceFacts ==
  ASSUME NEW q \in Seq(Int), NEW t \in Int, NEW n, Popped(q, n, t)
  PROVE  /\ Since(q, t) \in Seq(Int)
         /\ Len(Since(q, t)) = Len(q) - n
         /\ \A i \in 1 .. Len(q) - n : Since(q, t)[i] = q[n + i]
         /\ Len(q) \in Nat /\ n \in 0 .. Len(q)
<1>1. Since(q, t) = SubSeq(q, n + 1, Len(q))
  BY SinceIs
<1>2. n \in 0 .. Len(q) /\ Len(q) \in Nat /\ \A i \in n + 1 .. Len(q) : q[i] \in Int
  BY DEF Popped
<1>3. /\ SubSeq(q, n + 1, Len(q)) \in Seq(Int)
      /\ Len(SubSeq(q, n + 1, Len(q))) = IF n + 1 <= Len(q) THEN Len(q) - (n + 1) + 1 ELSE 0
      /\ \A i \in 1 .. Len(q) - (n + 1) + 1 : SubSeq(q, n + 1, Len(q))[i] = q[n + 1 + i - 1]
  BY <1>2, SubSeqProperties
<1> QED BY <1>1, <1>2, <1>3

(* Popping twice is popping once.                                          *)
LEMMA SinceTwice ==
  ASSUME NEW q \in Seq(Int), NEW t \in Int, NEW u \in Int, t <= u
  PROVE  Since(Since(q, t), u) = Since(q, u)
<1>1. PICK n : Popped(q, n, t)
  BY SomePopped
<1>2. PICK r : r = Since(q, t)
  OBVIOUS
<1>3. /\ r \in Seq(Int) /\ Len(r) = Len(q) - n /\ n \in 0 .. Len(q) /\ Len(q) \in Nat
      /\ \A i \in 1 .. Len(q) - n : r[i] = q[n + i]
  <2>1. /\ Since(q, t) \in Seq(Int) /\ Len(Since(q, t)) = Len(q) - n
        /\ n \in 0 .. Len(q) /\ Len(q) \in Nat
        /\ \A i \in 1 .. Len(q) - n : Since(q, t)[i] = q[n + i]
    BY <1>1, SinceFacts
  <2> QED BY <1>2, <2>1
<1>4. \A i \in 1 .. Len(q) : q[i] \in Int
  OBVIOUS
<1>5. PICK m : Popped(r, m, u)
  BY <1>3, SomePopped
<1>6. m \in 0 .. Len(q) - n /\ n + m \in 0 .. Len(q)
  BY <1>3, <1>5 DEF Popped
<1>7. ASSUME NEW i \in 1 .. n + m PROVE q[i] <= u
  <2>1. CASE i \in 1 .. n
    <3>1. q[i] <= t /\ q[i] \in Int
      BY <1>1, <1>3, <1>4, <2>1 DEF Popped
    <3> QED BY <3>1
  <2>2. CASE i \notin 1 .. n
    <3>1. i - n \in 1 .. m /\ i - n \in 1 .. Len(q) - n /\ n + (i - n) = i
      BY <1>3, <1>6, <2>2
    <3>2. r[i - n] = q[n + (i - n)]
      BY <1>3, <3>1
    <3> QED BY <1>5, <3>1, <3>2 DEF Popped
  <2> QED BY <2>1, <2>2
<1>8. ASSUME n + m < Len(q) PROVE q[n + m + 1] > u
  <2>1. m < Len(r) /\ m + 1 \in 1 .. Len(q) - n /\ n + (m + 1) = n + m + 1
    BY <1>3, <1>6, <1>8
  <2>2. r[m + 1] = q[n + (m + 1)]
    BY <1>3, <2>1
  <2>3. r[m + 1] > u
    BY <1>5, <2>1 DEF Popped
  <2> QED BY <2>1, <2>2, <2>3
<1>9. Popped(q, n + m, u)
  BY <1>6, <1>7, <1>8 DEF Popped
<1>10. PICK s : s = Since(q, u)
  OBVIOUS
<1>11. /\ s \in Seq(Int) /\ Len(s) = Len(q) - (n + m)
       /\ \A i \in 1 .. Len(q) - (n + m) : s[i] = q[n + m + i]
  <2>1. /\ Since(q, u) \in Seq(Int) /\ Len(Since(q, u)) = Len(q) - (n + m)
        /\ \A i \in 1 .. Len(q) - (n + m) : Since(q, u)[i] = q[n + m + i]
    BY <1>9, SinceFacts
  <2> QED BY <1>10, <2>1
<1>12. PICK z : z = Since(r, u)
  OBVIOUS
<1>13. /\ z \in Seq(Int) /\ Len(z) = Len(r) - m /\ \A i \in 1 .. Len(r) - m : z[i] = r[m + i]
  <2>1. r \in Seq(Int)
    BY <1>3
  <2>2. /\ Since(r, u) \in Seq(Int) /\ Len(Since(r, u)) = Len(r) - m
        /\ \A i \in 1 .. Len(r) - m : Since(r, u)[i] = r[m + i]
    BY <1>5, <2>1, SinceFacts
  <2> QED BY <1>12, <2>2
<1>14. Len(s) = Len(z)
  BY <1>3, <1>6, <1>11, <1>13
<1>15. ASSUME NEW i \in 1 .. Len(s) PROVE s[i] = z[i]
  <2>1. /\ i \in 1 .. Len(q) - (n + m) /\ i \in 1 .. Len(r) - m /\ m + i \in 1 .. Len(q) - n
        /\ n + (m + i) = n + m + i
    BY <1>3, <1>6, <1>11
  <2> QED BY <1>3, <1>11, <1>13, <2>1
<1> QED BY <1>2, <1>10, <1>11, <1>12, <1>13, <1>14, <1>15, SeqEqual

(* A later time is appended behind what is left.                           *)
LEMMA SinceAppend ==
  ASSUME NEW q \in Seq(Int), NEW t \in Int, NEW h \in Int, h > t
  PROVE  Since(Append(q, h), t) = Append(Since(q, t), h)
<1>1. PICK n : Popped(q, n, t)
  BY SomePopped
<1>2. PICK a : a = Append(q, h)
  OBVIOUS
<1>3. /\ a \in Seq(Int) /\ Len(a) = Len(q) + 1 /\ a[Len(q) + 1] = h
      /\ \A i \in 1 .. Len(q) : a[i] = q[i]
  BY <1>2, AppendProperties
<1>4. n \in 0 .. Len(q) /\ Len(q) \in Nat
  BY <1>1 DEF Popped
<1>5. Popped(a, n, t)
  <2>1. n \in 0 .. Len(a)
    BY <1>3, <1>4
  <2>2. \A i \in 1 .. n : i \in 1 .. Len(q) /\ a[i] = q[i]
    BY <1>3, <1>4
  <2>3. CASE n = Len(q)
    BY <1>1, <1>3, <2>1, <2>2, <2>3 DEF Popped
  <2>4. CASE n < Len(q)
    <3>1. n + 1 \in 1 .. Len(q)
      BY <1>4, <2>4
    <3> QED BY <1>1, <1>3, <2>1, <2>2, <2>4, <3>1 DEF Popped
  <2> QED BY <1>4, <2>3, <2>4
<1>6. PICK r : r = Since(q, t)
  OBVIOUS
<1>7. r \in Seq(Int) /\ Len(r) = Len(q) - n /\ \A i \in 1 .. Len(q) - n : r[i] = q[n + i]
  <2>1. /\ Since(q, t) \in Seq(Int) /\ Len(Since(q, t)) = Len(q) - n
        /\ \A i \in 1 .. Len(q) - n : Since(q, t)[i] = q[n + i]
    BY <1>1, SinceFacts
  <2> QED BY <1>6, <2>1
<1>8. PICK s : s = Since(a, t)
  OBVIOUS
<1>9. s \in Seq(Int) /\ Len(s) = Len(a) - n /\ \A i \in 1 .. Len(a) - n : s[i] = a[n + i]
  <2>1. a \in Seq(Int)
    BY <1>3
  <2>2. /\ Since(a, t) \in Seq(Int) /\ Len(Since(a, t)) = Len(a) - n
        /\ \A i \in 1 .. Len(a) - n : Since(a, t)[i] = a[n + i]
    BY <1>5, <2>1, SinceFacts
  <2> QED BY <1>8, <2>2
<1>10. PICK b : b = Append(r, h)
  OBVIOUS
<1>11. /\ b \in Seq(Int) /\ Len(b) = Len(r) + 1 /\ b[Len(r) + 1] = h
       /\ \A i \in 1 .. Len(r) : b[i] = r[i]
  BY <1>7, <1>10, AppendProperties
<1>12. Len(s) = Len(b)
  BY <1>3, <1>4, <1>7, <1>9, <1>11
<1>13. ASSUME NEW i \in 1 .. Len(s) PROVE s[i] = b[i]
  <2>1. s[i] = a[n + i] /\ n + i \in 1 .. Len(q) + 1
    BY <1>3, <1>4, <1>9
  <2>2. CASE n + i = Len(q) + 1
    <3>1. i = Len(r) + 1
      BY <1>4, <1>7, <2>2
    <3> QED BY <1>3, <1>11, <2>1, <2>2, <3>1
  <2>3. CASE n + i # Len(q) + 1
    <3>1. n + i \in 1 .. Len(q) /\ i \in 1 .. Len(q) - n
      BY <1>4, <2>1, <2>3
    <3> QED BY <1>3, <1>7, <1>11, <2>1, <3>1
  <2> QED BY <2>2, <2>3
<1> QED BY <1>2, <1>6, <1>8, <1>9, <1>10, <1>11, <1>12, <1>13, SeqEqual

-----------------------------------------------------------------------------
(* The history of admitted calls is what the deques say: this is what makes *)
(* the properties inductive.                                               *)
Recorded == \A k \in RateKeys : admitted[k] = Recent(k)
LimitInv == TypeOK /\ Recorded

Sorted(q) == \A i, j \in DOMAIN q : i < j => q[i] <= q[j]

LEMMA ClockType == TypeOK => /\ now \in Nat /\ now - Window \in Int /\ now > now - Window
                             /\ 0 .. now \subseteq Int /\ now \in 0 .. now
BY LimitAssumption DEF TypeOK

LEMMA LimitType ==
  ASSUME NEW k \in RateKeys, NEW r \in Roles
  PROVE  Limit(k, r) \in Nat
BY LimitAssumption DEF RateKeys, Limit

LEMMA HitsType ==
  ASSUME TypeOK, NEW k \in RateKeys
  PROVE  /\ hits[k] \in Seq(0 .. now) /\ hits[k] \in Seq(Int) /\ Len(hits[k]) \in Nat
         /\ \A i \in 1 .. Len(hits[k]) : hits[k][i] \in 0 .. now
         /\ Len(hits[k]) <= allowed[k] /\ Sorted(hits[k])
         /\ admitted[k] \in Seq(0 .. now) /\ admitted[k] \in Seq(Int)
         /\ allowed[k] \in Nat
<1>1. hits[k] \in Seq(0 .. now) /\ admitted[k] \in Seq(0 .. now)
  BY DEF TypeOK
<1>2. hits[k] \in Seq(Int) /\ admitted[k] \in Seq(Int)
  BY <1>1, ClockType, SeqMonotonic
<1>3. Len(hits[k]) \in Nat /\ \A i \in 1 .. Len(hits[k]) : hits[k][i] \in 0 .. now
  BY <1>1, LenProperties, ElementOfSeq
<1> QED BY <1>1, <1>2, <1>3, LimitAssumption DEF TypeOK, Sorted

(* What Since leaves of a sorted sequence of times is sorted, later than t, *)
(* and no longer.                                                          *)
LEMMA SinceSorted ==
  ASSUME NEW b \in Nat, NEW q \in Seq(0 .. b), NEW t \in Int, Sorted(q)
  PROVE  /\ Since(q, t) \in Seq(0 .. b) /\ Sorted(Since(q, t))
         /\ Len(Since(q, t)) \in Nat /\ Len(Since(q, t)) <= Len(q)
         /\ \A i \in 1 .. Len(Since(q, t)) : Since(q, t)[i] > t /\ Since(q, t)[i] \in 0 .. b
<1>0. 0 .. b \subseteq Int
  OBVIOUS
<1>1. q \in Seq(Int)
  BY <1>0, SeqMonotonic
<1>2. PICK n : Popped(q, n, t)
  BY <1>1, SomePopped
<1>3. PICK r : r = Since(q, t)
  OBVIOUS
<1>4. /\ r \in Seq(Int) /\ Len(r) = Len(q) - n /\ n \in 0 .. Len(q) /\ Len(q) \in Nat
      /\ \A i \in 1 .. Len(q) - n : r[i] = q[n + i]
  BY <1>1, <1>2, <1>3, SinceFacts
<1>5. DOMAIN q = 1 .. Len(q) /\ DOMAIN r = 1 .. Len(r) /\ \A i \in 1 .. Len(q) : q[i] \in 0 .. b
  BY <1>4, LenProperties, ElementOfSeq
<1>6. ASSUME NEW i \in 1 .. Len(r) PROVE r[i] > t /\ r[i] \in 0 .. b
  <2>1. /\ r[i] = q[n + i] /\ n + i \in 1 .. Len(q) /\ n + 1 \in 1 .. Len(q) /\ n < Len(q)
        /\ (n + 1 < n + i \/ n + 1 = n + i)
    BY <1>4
  <2>2. q[n + 1] > t
    BY <1>2, <2>1 DEF Popped
  <2>3. q[n + 1] <= q[n + i]
    BY <1>5, <2>1 DEF Sorted
  <2> QED BY <1>0, <1>5, <2>1, <2>2, <2>3
<1>7. ASSUME NEW i \in 1 .. Len(r), NEW j \in 1 .. Len(r), i < j PROVE r[i] <= r[j]
  <2>1. r[i] = q[n + i] /\ n + i \in 1 .. Len(q)
    BY <1>4
  <2>2. r[j] = q[n + j] /\ n + j \in 1 .. Len(q)
    BY <1>4
  <2>3. n + i < n + j
    BY <1>4, <1>7
  <2> QED BY <1>5, <2>1, <2>2, <2>3 DEF Sorted
<1>8. r \in Seq(0 .. b)
  <2>1. r \in [1 .. Len(r) -> 0 .. b] /\ Len(r) \in Nat
    BY <1>4, <1>6, LenProperties
  <2> QED BY <2>1, SeqDef
<1>9. Sorted(r)
  BY <1>5, <1>7 DEF Sorted
<1>10. Len(r) \in Nat /\ Len(r) <= Len(q)
  BY <1>4
<1> QED BY <1>3, <1>6, <1>8, <1>9, <1>10

LEMMA RecentFacts ==
  ASSUME TypeOK, NEW k \in RateKeys
  PROVE  /\ Recent(k) \in Seq(0 .. now) /\ Recent(k) \in Seq(Int) /\ Sorted(Recent(k))
         /\ Len(Recent(k)) \in Nat /\ Len(Recent(k)) <= allowed[k]
         /\ \A i \in 1 .. Len(Recent(k)) : /\ Recent(k)[i] > now - Window
                                           /\ Recent(k)[i] \in 0 .. now
         /\ Since(Recent(k), now - Window) = Recent(k)
<1>1. /\ hits[k] \in Seq(0 .. now) /\ Sorted(hits[k]) /\ Len(hits[k]) \in Nat
      /\ Len(hits[k]) <= allowed[k] /\ hits[k] \in Seq(Int) /\ allowed[k] \in Nat
  BY HitsType
<1>2. now \in Nat /\ now - Window \in Int /\ 0 .. now \subseteq Int
  BY ClockType
<1>3. /\ Recent(k) \in Seq(0 .. now) /\ Sorted(Recent(k))
      /\ Len(Recent(k)) \in Nat /\ Len(Recent(k)) <= Len(hits[k])
      /\ \A i \in 1 .. Len(Recent(k)) : /\ Recent(k)[i] > now - Window
                                        /\ Recent(k)[i] \in 0 .. now
  BY <1>1, <1>2, SinceSorted DEF Recent
<1>4. Since(Recent(k), now - Window) = Recent(k)
  BY <1>1, <1>2, SinceTwice DEF Recent
<1>5. Recent(k) \in Seq(Int)
  BY <1>2, <1>3, SeqMonotonic
<1> QED BY <1>1, <1>3, <1>4, <1>5

(* The deque of a key after a call now, and the limit it keeps to.          *)
Counted(k, r) == Limit(k, r) > 0 /\ ~Full(k, r)

LEMMA ChargeFacts ==
  ASSUME TypeOK, NEW k \in RateKeys, NEW r \in Roles
  PROVE  /\ Charge(k, r) \in Seq(0 .. now) /\ Sorted(Charge(k, r))
         /\ Len(Charge(k, r)) <= IF Counted(k, r) THEN Limit(k, r) ELSE allowed[k]
         /\ Since(Charge(k, r), now - Window) =
              IF Counted(k, r) THEN Append(Recent(k), now) ELSE Recent(k)
<1>0. Limit(k, r) \in Nat
  BY LimitType
<1>1. CASE Limit(k, r) = 0
  <2>1. Charge(k, r) = hits[k] /\ ~Counted(k, r)
    BY <1>1 DEF Charge, Counted
  <2> QED BY <2>1, HitsType DEF Recent
<1>2. CASE Limit(k, r) # 0 /\ Full(k, r)
  <2>1. Charge(k, r) = Recent(k) /\ ~Counted(k, r)
    BY <1>2 DEF Charge, Counted
  <2> QED BY <2>1, RecentFacts
<1>3. CASE Limit(k, r) # 0 /\ ~Full(k, r)
  <2>0. PICK q : q = Recent(k)
    OBVIOUS
  <2>1. /\ q \in Seq(0 .. now) /\ q \in Seq(Int) /\ Sorted(q) /\ Len(q) \in Nat
        /\ \A i \in 1 .. Len(q) : q[i] \in 0 .. now
        /\ Since(q, now - Window) = q
    BY <2>0, RecentFacts
  <2>b. Len(q) < Limit(k, r)
    BY <1>0, <1>3, <2>0, <2>1 DEF Full
  <2>2. PICK a : a = Append(q, now)
    OBVIOUS
  <2>3. /\ a \in Seq(0 .. now) /\ Len(a) = Len(q) + 1 /\ a[Len(q) + 1] = now
        /\ \A i \in 1 .. Len(q) : a[i] = q[i]
    BY <2>1, <2>2, ClockType, AppendProperties
  <2>4. DOMAIN a = 1 .. Len(q) + 1 /\ DOMAIN q = 1 .. Len(q)
    BY <2>1, <2>3, LenProperties
  <2>5. ASSUME NEW i \in DOMAIN a, NEW j \in DOMAIN a, i < j PROVE a[i] <= a[j]
    <3>1. i \in 1 .. Len(q) /\ a[i] = q[i] /\ q[i] \in 0 .. now
      BY <2>1, <2>3, <2>4, <2>5
    <3>2. CASE j = Len(q) + 1
      BY <2>3, <3>1, <3>2
    <3>3. CASE j # Len(q) + 1
      <4>1. j \in 1 .. Len(q)
        BY <2>1, <2>4, <3>3
      <4> QED BY <2>1, <2>3, <2>4, <2>5, <3>1, <4>1 DEF Sorted
    <3> QED BY <3>2, <3>3
  <2>6. Since(a, now - Window) = a
    BY <2>1, <2>2, ClockType, SinceAppend
  <2>7. Charge(k, r) = a /\ Counted(k, r)
    BY <1>0, <1>3, <2>0, <2>2 DEF Charge, Counted
  <2>8. Len(a) <= Limit(k, r)
    BY <1>0, <2>1, <2>3, <2>b
  <2> QED BY <2>0, <2>2, <2>3, <2>5, <2>6, <2>7, <2>8 DEF Sorted
<1> QED BY <1>1, <1>2, <1>3

(* A request charges the keys ks; those in js had room, the others are full. *)
LEMMA CallCounts ==
  ASSUME LimitInv, NEW r \in Roles, NEW ks \in SUBSET RateKeys, NEW js \in SUBSET ks,
         \A k \in js : ~Full(k, r), \A k \in ks \ js : Full(k, r),
         Call(ks, r), Admit(js, r), now' = now
  PROVE  LimitInv'
<1>0. TypeOK /\ Recorded
  BY DEF LimitInv
<1>1. ASSUME NEW k \in RateKeys
      PROVE  /\ hits'[k] \in Seq(0 .. now) /\ Sorted(hits'[k]) /\ Len(hits'[k]) <= allowed'[k]
             /\ admitted'[k] \in Seq(0 .. now) /\ allowed'[k] \in Nat
             /\ admitted'[k] = Since(hits'[k], now - Window)
  <2>0. Limit(k, r) \in Nat
    BY LimitType
  <2>1. /\ hits'[k] = IF k \in ks THEN Charge(k, r) ELSE hits[k]
        /\ admitted'[k] = IF k \in js /\ Limit(k, r) > 0 THEN Append(admitted[k], now)
                                                         ELSE admitted[k]
        /\ allowed'[k] = IF k \in js /\ Limit(k, r) > 0 THEN Limit(k, r) ELSE allowed[k]
    BY DEF Call, Admit
  <2>2. /\ Charge(k, r) \in Seq(0 .. now) /\ Sorted(Charge(k, r))
        /\ Len(Charge(k, r)) <= IF Counted(k, r) THEN Limit(k, r) ELSE allowed[k]
        /\ Since(Charge(k, r), now - Window) =
              IF Counted(k, r) THEN Append(Recent(k), now) ELSE Recent(k)
    BY <1>0, ChargeFacts
  <2>3. /\ hits[k] \in Seq(0 .. now) /\ Sorted(hits[k]) /\ Len(hits[k]) <= allowed[k]
        /\ admitted[k] \in Seq(0 .. now) /\ allowed[k] \in Nat
    BY <1>0, HitsType
  <2>4. Append(admitted[k], now) \in Seq(0 .. now)
    BY <1>0, <2>3, ClockType, AppendProperties
  <2>5. admitted[k] = Recent(k) /\ Recent(k) = Since(hits[k], now - Window)
    BY <1>0 DEF Recorded, Recent
  <2>6. CASE k \in js /\ Limit(k, r) > 0
    <3>1. k \in ks /\ Counted(k, r)
      BY <2>6 DEF Counted
    <3> QED BY <2>0, <2>1, <2>2, <2>4, <2>5, <2>6, <3>1
  <2>7. CASE k \in ks /\ ~(k \in js /\ Limit(k, r) > 0)
    <3>1. ~Counted(k, r)
      BY <2>7 DEF Counted
    <3> QED BY <2>1, <2>2, <2>3, <2>5, <2>7, <3>1
  <2>8. CASE k \notin ks
    BY <2>1, <2>3, <2>5, <2>8
  <2> QED BY <2>6, <2>7, <2>8
<1>2. /\ hits' = [k \in RateKeys |-> hits'[k]] /\ admitted' = [k \in RateKeys |-> admitted'[k]]
      /\ allowed' = [k \in RateKeys |-> allowed'[k]]
  BY DEF Call, Admit
<1>3. /\ hits' \in [RateKeys -> Seq(0 .. now)] /\ admitted' \in [RateKeys -> Seq(0 .. now)]
      /\ allowed' \in [RateKeys -> Nat]
  BY <1>1, <1>2
<1>4. TypeOK'
  BY <1>0, <1>1, <1>3 DEF TypeOK, Sorted
<1>5. Recorded'
  BY <1>1 DEF Recorded, Recent
<1> QED BY <1>4, <1>5 DEF LimitInv

LEMMA SinceType ==
  ASSUME NEW b \in Nat, NEW q \in Seq(0 .. b), NEW t \in Int
  PROVE  Since(q, t) \in Seq(0 .. b)
<1>1. q \in Seq(Int)
  BY SeqMonotonic
<1>2. PICK n : Popped(q, n, t)
  BY <1>1, SomePopped
<1>3. Since(q, t) = SubSeq(q, n + 1, Len(q))
  BY <1>1, <1>2, SinceIs
<1>4. n \in 0 .. Len(q) /\ Len(q) \in Nat
  BY <1>2, LenProperties DEF Popped
<1>5. \A i \in n + 1 .. Len(q) : q[i] \in 0 .. b
  BY <1>4, ElementOfSeq
<1>6. SubSeq(q, n + 1, Len(q)) \in Seq(0 .. b)
  BY <1>4, <1>5, SubSeqProperties
<1> QED BY <1>3, <1>6

LEMMA TickCounts == ASSUME LimitInv, Tick PROVE LimitInv'
<1>0. TypeOK /\ Recorded
  BY DEF LimitInv
<1>1. /\ now \in Nat /\ now' = now + 1 /\ now + 1 \in 0 .. MaxTime
      /\ hits' = hits /\ allowed' = allowed
      /\ 0 .. now \subseteq 0 .. now + 1 /\ now + 1 - Window \in Int /\ now - Window \in Int
      /\ now - Window <= now + 1 - Window
  BY <1>0, ClockType, LimitAssumption DEF Tick, TypeOK
<1>2. admitted' = [k \in RateKeys |-> Since(admitted[k], now + 1 - Window)]
  BY DEF Tick
<1>3. ASSUME NEW k \in RateKeys
      PROVE  /\ hits[k] \in Seq(0 .. now + 1)
             /\ admitted'[k] \in Seq(0 .. now + 1)
             /\ admitted'[k] = Since(hits[k], now + 1 - Window)
  <2>1. /\ hits[k] \in Seq(0 .. now) /\ hits[k] \in Seq(Int)
        /\ admitted[k] \in Seq(0 .. now) /\ admitted[k] \in Seq(Int)
    BY <1>0, HitsType
  <2>2. hits[k] \in Seq(0 .. now + 1) /\ admitted[k] \in Seq(0 .. now + 1)
    BY <1>1, <2>1, SeqMonotonic
  <2>3. admitted'[k] \in Seq(0 .. now + 1)
    BY <1>1, <1>2, <2>1, <2>2, SinceType
  <2>4. admitted'[k] = Since(hits[k], now + 1 - Window)
    <3>1. admitted[k] = Since(hits[k], now - Window)
      BY <1>0 DEF Recorded, Recent
    <3>2. Since(Since(hits[k], now - Window), now + 1 - Window) = Since(hits[k], now + 1 - Window)
      BY <1>1, <2>1, SinceTwice
    <3> QED BY <1>2, <3>1, <3>2
  <2> QED BY <2>2, <2>3, <2>4
<1>4. hits' \in [RateKeys -> Seq(0 .. now + 1)] /\ admitted' \in [RateKeys -> Seq(0 .. now + 1)]
  <2>1. hits = [k \in RateKeys |-> hits[k]]
    BY <1>0 DEF TypeOK
  <2>2. admitted' = [k \in RateKeys |-> admitted'[k]]
    BY <1>2
  <2> QED BY <1>1, <1>3, <2>1, <2>2
<1>5. TypeOK'
  BY <1>0, <1>1, <1>4 DEF TypeOK
<1>6. Recorded'
  <2> SUFFICES ASSUME NEW k \in RateKeys
               PROVE  admitted'[k] = Since(hits'[k], now' - Window)
    BY DEF Recorded, Recent
  <2>1. hits' = hits /\ now' = now + 1
    BY DEF Tick
  <2>2. hits'[k] = hits[k]
    BY <2>1
  <2>3. now' - Window = now + 1 - Window
    BY <1>1, <2>1, LimitAssumption
  <2> QED BY <1>3, <2>2, <2>3
<1> QED BY <1>5, <1>6 DEF LimitInv

LEMMA StepLimits == LimitInv /\ [Next]_vars => LimitInv'
<1> SUFFICES ASSUME LimitInv, [Next]_vars PROVE LimitInv'
  OBVIOUS
<1>a. Callers \subseteq RateKeys /\ Actions \subseteq RateKeys /\ Callers \cap Actions = {}
  BY LimitAssumption DEF RateKeys
<1>1. ASSUME NEW c \in Callers, NEW r \in Roles, CallerRefused(c, r) PROVE LimitInv'
  <2>1. /\ admitted = [k \in RateKeys |-> admitted[k]]
        /\ allowed = [k \in RateKeys |-> allowed[k]]
    BY DEF LimitInv, TypeOK
  <2>2. Admit({}, r) /\ Call({c}, r) /\ now' = now /\ Full(c, r)
    BY <1>1, <2>1 DEF CallerRefused, Admit
  <2>3. {c} \in SUBSET RateKeys /\ {} \in SUBSET {c}
    BY <1>a
  <2> QED BY <2>2, <2>3, CallCounts
<1>2. ASSUME NEW c \in Callers, NEW r \in Roles, UnknownAction(c, r) PROVE LimitInv'
  <2>1. {c} \in SUBSET RateKeys /\ {c} \in SUBSET {c}
    BY <1>a
  <2> QED BY <1>2, <2>1, CallCounts DEF UnknownAction
<1>3. ASSUME NEW c \in Callers, NEW a \in Actions, NEW r \in Roles, ActionRefused(c, a, r)
      PROVE  LimitInv'
  <2>1. {c, a} \in SUBSET RateKeys /\ {c} \in SUBSET {c, a}
    BY <1>a
  <2>2. /\ \A k \in {c} : ~Full(k, r)
        /\ \A k \in {c, a} \ {c} : Full(k, r)
        /\ Call({c, a}, r) /\ Admit({c}, r) /\ now' = now
    BY <1>3 DEF ActionRefused
  <2> QED BY <2>1, <2>2, CallCounts
<1>4. ASSUME NEW c \in Callers, NEW a \in Actions, NEW r \in Roles, Admitted(c, a, r)
      PROVE  LimitInv'
  <2>1. {c, a} \in SUBSET RateKeys /\ {c, a} \in SUBSET {c, a}
    BY <1>a
  <2>2. /\ \A k \in {c, a} : ~Full(k, r)
        /\ Call({c, a}, r) /\ Admit({c, a}, r) /\ now' = now
    BY <1>4 DEF Admitted
  <2> QED BY <2>1, <2>2, CallCounts
<1>5. CASE Tick
  BY <1>5, TickCounts
<1>6. CASE UNCHANGED vars
  BY <1>6 DEF vars, LimitInv, TypeOK, Recorded, Recent
<1> QED BY <1>1, <1>2, <1>3, <1>4, <1>5, <1>6 DEF Next

LEMMA InitLimits == Init => LimitInv
<1> SUFFICES ASSUME Init PROVE LimitInv
  OBVIOUS
<1>1. now = 0 /\ hits = [k \in RateKeys |-> <<>>] /\ admitted = [k \in RateKeys |-> <<>>]
      /\ allowed = [k \in RateKeys |-> 0]
  BY DEF Init
<1>2. <<>> \in Seq(0 .. 0) /\ <<>> \in Seq(Int) /\ Len(<<>>) = 0 /\ DOMAIN <<>> = {}
  BY EmptySeq
<1>3. TypeOK
  BY <1>1, <1>2, LimitAssumption DEF TypeOK
<1>4. Since(<<>>, 0 - Window) = <<>>
  <2>1. 0 - Window \in Int
    BY LimitAssumption
  <2>2. PICK e : e = <<>>
    OBVIOUS
  <2>3. e \in Seq(Int) /\ Len(e) = 0
    BY <1>2, <2>2
  <2>4. Popped(e, 0, 0 - Window)
    BY <2>3 DEF Popped
  <2>5. Since(e, 0 - Window) \in Seq(Int) /\ Len(Since(e, 0 - Window)) = Len(e) - 0
    BY <2>1, <2>3, <2>4, SinceFacts
  <2>6. Since(e, 0 - Window) = <<>>
    BY <2>3, <2>5, EmptySeq
  <2> QED BY <2>2, <2>6
<1>5. Recorded
  BY <1>1, <1>4 DEF Recorded, Recent
<1> QED BY <1>3, <1>5 DEF LimitInv

LEMMA LimitInvariant == Spec => []LimitInv
BY InitLimits, StepLimits, PTL DEF Spec

(* Hits are times of the past, in order, and no deque outgrows its limit    *)
(* (ratelimit.py:32-35, 80-90).                                            *)
THEOREM DequesAreBounded == Spec => []TypeOK
<1>1. LimitInv => TypeOK
  BY DEF LimitInv
<1> QED BY <1>1, LimitInvariant, PTL

(* From the moment the oldest of its n calls has left the window, a key has *)
(* room for a call; until then all it holds are in the window.             *)
LEMMA FreeFrom ==
  ASSUME TypeOK, Recorded, NEW k \in RateKeys, NEW n \in Nat \ {0}, NEW t \in Int,
         Len(admitted[k]) >= n
  PROVE  /\ Head(Recent(k)) \in Int
         /\ t < Head(Recent(k)) + Window => FullAt(k, n, t)
         /\ (Len(admitted[k]) = n /\ t >= Head(Recent(k)) + Window) => ~FullAt(k, n, t)
<1>1. PICK q : q = Recent(k)
  OBVIOUS
<1>2. PICK m : m = Len(q)
  OBVIOUS
<1>3. /\ admitted[k] = q /\ Sorted(q) /\ q \in Seq(Int) /\ m \in Nat /\ m >= n
      /\ \A i \in 1 .. m : q[i] \in 0 .. now
  BY <1>1, <1>2, RecentFacts DEF Recorded
<1>4. DOMAIN q = 1 .. m /\ 1 \in 1 .. m /\ Head(q) = q[1]
  BY <1>2, <1>3, LenProperties
<1>5. now \in Nat /\ 0 .. now \subseteq Int /\ Window \in Int
  BY ClockType, LimitAssumption
<1>6. q[1] \in Int /\ \A i \in 1 .. m : q[i] \in Int /\ q[1] <= q[i]
  BY <1>3, <1>4, <1>5 DEF Sorted
<1>7. PICK S : S = {j \in 1 .. m : q[j] > t - Window}
  OBVIOUS
<1>8. FullAt(k, n, t) <=> Cardinality(S) >= n
  BY <1>3, <1>4, <1>7 DEF FullAt
<1>9. ASSUME t < q[1] + Window PROVE Cardinality(S) >= n
  <2>1. S = 1 .. m
    BY <1>5, <1>6, <1>7, <1>9
  <2>2. Cardinality(1 .. m) = m
    BY <1>3, FS_Interval
  <2> QED BY <1>3, <2>1, <2>2
<1>10. ASSUME m = n, t >= q[1] + Window PROVE ~(Cardinality(S) >= n)
  <2>1. S \in SUBSET (2 .. n)
    <3>1. ASSUME NEW j \in S PROVE j \in 2 .. n
      <4>1. j \in 1 .. m /\ q[j] > t - Window
        BY <1>7
      <4>2. j # 1
        BY <1>5, <1>6, <1>10, <4>1
      <4> QED BY <1>3, <1>10, <4>1, <4>2
    <3> QED BY <3>1
  <2>2. IsFiniteSet(2 .. n) /\ Cardinality(2 .. n) = n - 1
    <3>1. IsFiniteSet(2 .. n) /\ Cardinality(2 .. n) = IF 2 > n THEN 0 ELSE n - 2 + 1
      BY FS_Interval
    <3> QED BY <3>1
  <2>3. IsFiniteSet(S) /\ Cardinality(S) <= Cardinality(2 .. n)
    BY <2>1, <2>2, FS_Subset
  <2>4. Cardinality(S) \in Nat
    BY <2>3, FS_CardinalityType
  <2> QED BY <2>2, <2>3, <2>4
<1> QED BY <1>1, <1>2, <1>3, <1>4, <1>6, <1>8, <1>9, <1>10

(* What a refused caller is told covers what check found.                   *)
LEMMA WaitFacts ==
  ASSUME TypeOK, Recorded, NEW k \in RateKeys, Len(admitted[k]) >= 1
  PROVE  /\ RetryAfter(k) \in Nat /\ Header(k) \in Int /\ Header(k) > RetryAfter(k)
         /\ RetryAfter(k) >= Head(Recent(k)) + Window - now
         /\ RetryAfter(k) > Floor => RetryAfter(k) = Head(Recent(k)) + Window - now
         /\ \A b \in Body(k) : /\ b + Floor \div 2 \in Int
                               /\ b + Floor \div 2 >= RetryAfter(k)
<1>1. /\ now \in Nat /\ Window \in Nat \ {0} /\ Floor \in Nat \ {0} /\ Second \in Nat \ {0}
  BY ClockType, LimitAssumption
<1>2. Head(Recent(k)) \in Int
  BY <1>1, FreeFrom
<1>3. PICK h \in Int : h = Head(Recent(k))
  BY <1>2
<1>4. PICK w : w = RetryAfter(k)
  OBVIOUS
<1>5. w = IF h + Window - now >= Floor THEN h + Window - now ELSE Floor
  BY <1>3, <1>4 DEF RetryAfter, LongerOf
<1>6. w \in Nat /\ w >= h + Window - now /\ (w > Floor => w = h + Window - now)
  BY <1>1, <1>5
<1>7. Header(k) \in Int /\ Header(k) > w
  <2>1. PICK d : d = w \div Second
    OBVIOUS
  <2>2. d \in Int /\ w = Second * d + (w % Second) /\ w % Second \in 0 .. Second - 1
    BY <1>1, <1>6, <2>1
  <2>3. (d + 1) * Second = Second * d + Second /\ Second * d \in Int
    BY <1>1, <2>2
  <2>4. Header(k) = (d + 1) * Second
    BY <1>4, <2>1 DEF Header
  <2>5. PICK x \in Int : x = Second * d
    BY <2>3
  <2> QED BY <1>1, <1>6, <2>2, <2>3, <2>4, <2>5
<1>8. ASSUME NEW b \in Body(k) PROVE b + Floor \div 2 \in Int /\ b + Floor \div 2 >= w
  <2>1. b \in Int /\ 2 * (w - b) <= Floor
    BY <1>1, <1>4, <1>6 DEF Body
  <2> QED BY <1>1, <1>6, <2>1
<1> QED BY <1>3, <1>4, <1>6, <1>7, <1>8

LEMMA LimitFacts ==
  ASSUME LimitInv
  PROVE  LimitHolds /\ RefusedOnlyWhenFull /\ RetryAfterHonest
<1>0. TypeOK /\ Recorded
  BY DEF LimitInv
<1>1. ASSUME NEW k \in RateKeys
      PROVE  /\ admitted[k] = Recent(k) /\ Len(Recent(k)) <= allowed[k]
             /\ Len(Recent(k)) \in Nat /\ now \in Nat
  BY <1>0, <1>1, RecentFacts, ClockType DEF Recorded
<1>2. LimitHolds
  BY <1>1 DEF LimitHolds
<1>3. RefusedOnlyWhenFull
  BY <1>1 DEF RefusedOnlyWhenFull, Full
<1>4. ASSUME NEW k \in RateKeys, NEW r \in Roles, Full(k, r)
      PROVE  LET n == Limit(k, r)  wait == RetryAfter(k) IN
             /\ wait > Floor => \A t \in now .. now + wait - 1 : FullAt(k, n, t)
             /\ Len(admitted[k]) = n =>
                  /\ ~FullAt(k, n, now + wait)
                  /\ ~FullAt(k, n, now + Header(k))
                  /\ \A b \in Body(k) : ~FullAt(k, n, now + b + Floor \div 2)
  <2>1. PICK n : n = Limit(k, r)
    OBVIOUS
  <2>2. n \in Nat \ {0} /\ Len(admitted[k]) >= n /\ Len(admitted[k]) >= 1
    BY <1>1, <1>4, <2>1, LimitType DEF Full
  <2>3. PICK w : w = RetryAfter(k)
    OBVIOUS
  <2>4. PICK h : h = Head(Recent(k))
    OBVIOUS
  <2>5. /\ w \in Nat /\ Header(k) \in Int /\ Header(k) > w
        /\ w >= h + Window - now
        /\ w > Floor => w = h + Window - now
        /\ \A b \in Body(k) : b + Floor \div 2 \in Int /\ b + Floor \div 2 >= w
    BY <1>0, <2>2, <2>3, <2>4, WaitFacts
  <2>6. \A t \in Int : /\ h \in Int
                       /\ t < h + Window => FullAt(k, n, t)
                       /\ (Len(admitted[k]) = n /\ t >= h + Window) => ~FullAt(k, n, t)
    BY <1>0, <2>2, <2>4, FreeFrom
  <2>7. h \in Int /\ Window \in Int /\ now \in Nat
    <3>1. h \in Int
      BY <1>0, <2>2, <2>4, FreeFrom
    <3> QED BY <1>0, <3>1, ClockType, LimitAssumption
  <2>8. ASSUME w > Floor, NEW t \in now .. now + w - 1 PROVE FullAt(k, n, t)
    <3>1. t \in Int /\ w = h + Window - now /\ t <= now + w - 1
      BY <2>5, <2>7, <2>8
    <3>2. t < h + Window
      BY <2>7, <3>1
    <3> QED BY <2>6, <3>1, <3>2
  <2>9. ASSUME Len(admitted[k]) = n, NEW x \in Int, x >= w PROVE ~FullAt(k, n, now + x)
    <3>1. w \in Int /\ w >= h + Window - now
      BY <2>5
    <3>2. now + x \in Int /\ now + x >= h + Window
      BY <2>7, <2>9, <3>1
    <3> QED BY <2>6, <2>9, <3>2
  <2>10. ASSUME Len(admitted[k]) = n, NEW b \in Body(k)
         PROVE  ~FullAt(k, n, now + b + Floor \div 2)
    <3>1. PICK d : d = Floor \div 2
      OBVIOUS
    <3>2. b + d \in Int /\ b + d >= w
      BY <2>5, <3>1
    <3>3. ~FullAt(k, n, now + (b + d))
      BY <2>9, <2>10, <3>2
    <3>4. b \in Int /\ d \in Int
      <4>1. Floor \in Nat /\ d \in Int
        BY <3>1, LimitAssumption
      <4> QED BY <2>3, <2>5, <4>1 DEF Body
    <3>5. now + (b + d) = now + b + d
      BY <2>7, <3>4
    <3> QED BY <3>1, <3>3, <3>5
  <2>11. Len(admitted[k]) = n => ~FullAt(k, n, now + w) /\ ~FullAt(k, n, now + Header(k))
    BY <2>5, <2>9
  <2> QED BY <2>1, <2>3, <2>8, <2>10, <2>11
<1>5. RetryAfterHonest
  BY <1>4 DEF RetryAfterHonest
<1> QED BY <1>2, <1>3, <1>5

(* The last window never holds more admitted calls than the limit the last  *)
(* of them was checked against, whatever roles a key has had meanwhile     *)
(* (ratelimit.py:68-90).                                                   *)
THEOREM LimitsHold == Spec => []LimitHolds
BY LimitInvariant, LimitFacts, PTL

(* A refused call never counts against its key: whoever is refused has used *)
(* up the limit with admitted calls (ratelimit.py:71-76).                  *)
THEOREM RefusalsAreFree == Spec => []RefusedOnlyWhenFull
BY LimitInvariant, LimitFacts, PTL

(* The wait a refused caller is told is not too long, beyond the tenth of a *)
(* second every wait lasts; the header's is never too short, and the       *)
(* body's by half a tenth at most, unless the role of the key was lowered  *)
(* (ratelimit.py:86-88, main.py:340-346).                                  *)
THEOREM RetryAfterIsHonest == Spec => []RetryAfterHonest
BY LimitInvariant, LimitFacts, PTL
=============================================================================
