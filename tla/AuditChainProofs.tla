-------------------------- MODULE AuditChainProofs --------------------------
(* The audit log, for any number of writes, rotations, interruptions and    *)
(* lines older than the chain.                                             *)
EXTENDS AuditChain, SequenceTheorems, FiniteSetTheorems, TLAPS

(***************************************************************************)
(* Lines and files.                                                        *)
(***************************************************************************)
(* The lines l are the first k of the log, and then x.                      *)
Puts(l, k, x) ==
  l \in Seq(Shapes) /\ Len(l) = k + 1 /\ (\A i \in 1 .. k : l[i] = log[i]) /\ l[k + 1] = x

(* The last line lacks its newline.                                         *)
Open == log # <<>> /\ ~log[Len(log)].ended

LEMMA LineType ==
  ASSUME NEW n \in Hashes, NEW q \in 0 .. MaxWrites, NEW p \in Hashes,
         NEW f \in 0 .. MaxWrites
  PROVE  /\ Line(n, q, p, f) \in Shapes
         /\ Line(n, q, p, f).shape = "entry" /\ Line(n, q, p, f).id = n
         /\ Line(n, q, p, f).seq = q /\ Line(n, q, p, f).prev = p
         /\ Line(n, q, p, f).from = f /\ Line(n, q, p, f).sound /\ Line(n, q, p, f).ended
BY DEF Line, Shapes

LEMMA GarbageType ==
  ASSUME NEW e \in BOOLEAN
  PROVE  Garbage(e) \in Shapes /\ Garbage(e).shape = "garbage" /\ Garbage(e).ended = e
<1>1. PICK l \in Shapes : l = Line(Genesis, 0, Genesis, 0)
  BY LineType, BoundsAssumption DEF Genesis, Hashes
<1>2. Garbage(e) = [l EXCEPT !.shape = "garbage", !.ended = e]
  BY <1>1 DEF Garbage
<1> QED BY <1>2 DEF Shapes

LEMMA LegacyType == LegacyLine \in Shapes /\ LegacyLine.shape = "legacy" /\ LegacyLine.ended
<1>1. PICK l \in Shapes : l = Line(Genesis, 0, Genesis, 0) /\ l.ended
  BY LineType, BoundsAssumption DEF Genesis, Hashes
<1>2. LegacyLine = [l EXCEPT !.shape = "legacy"]
  BY <1>1 DEF LegacyLine
<1> QED BY <1>1, <1>2 DEF Shapes

(* Appending text to the file.                                              *)
LEMMA ExtendPuts ==
  ASSUME log \in Seq(Shapes), NEW x \in Shapes
  PROVE  IF Open THEN Puts(Extend(x), Len(log) - 1, Garbage(x.ended))
                 ELSE Puts(Extend(x), Len(log), x)
<1>1. x.ended \in BOOLEAN
  BY DEF Shapes
<1>2. CASE Open
  <2>1. PICK f : f = Front(log)
    OBVIOUS
  <2>2. log # <<>> /\ Len(log) \in Nat \ {0} /\ \A i \in 1 .. Len(log) : log[i] \in Shapes
    BY <1>2 DEF Open
  <2>3. /\ f \in Seq(Shapes) /\ Len(f) = Len(log) - 1
        /\ \A i \in 1 .. Len(log) - 1 : f[i] = log[i]
    <3>1. f = SubSeq(log, 1, Len(log) - 1)
      BY <2>1 DEF Front
    <3>2. \A i \in 1 .. Len(log) - 1 : log[i] \in Shapes
      BY <2>2
    <3>3. /\ f \in Seq(Shapes) /\ Len(f) = IF 1 <= Len(log) - 1 THEN Len(log) - 1 - 1 + 1 ELSE 0
          /\ \A i \in 1 .. Len(log) - 1 - 1 + 1 : f[i] = log[1 + i - 1]
      BY <2>2, <3>1, <3>2, SubSeqProperties
    <3>4. Len(f) = Len(log) - 1
      <4>1. PICK n \in Nat \ {0} : n = Len(log)
        BY <2>2
      <4>2. Len(f) = IF 1 <= n - 1 THEN n - 1 - 1 + 1 ELSE 0
        BY <3>3, <4>1
      <4> QED BY <4>1, <4>2
    <3>5. ASSUME NEW i \in 1 .. Len(log) - 1 PROVE f[i] = log[i]
      <4>1. i \in 1 .. Len(log) - 1 - 1 + 1 /\ 1 + i - 1 = i
        BY <2>2
      <4> QED BY <3>3, <4>1
    <3> QED BY <3>3, <3>4, <3>5
  <2>4. PICK g \in Shapes : g = Garbage(x.ended)
    BY <1>1, GarbageType
  <2>5. Extend(x) = Append(f, g)
    BY <1>2, <2>1, <2>4 DEF Open, Extend, Last
  <2>6. /\ Append(f, g) \in Seq(Shapes) /\ Len(Append(f, g)) = Len(f) + 1
        /\ \A i \in 1 .. Len(f) : Append(f, g)[i] = f[i]
        /\ Append(f, g)[Len(f) + 1] = g
    BY <2>3, AppendProperties
  <2>7. Puts(Extend(x), Len(log) - 1, g)
    BY <2>2, <2>3, <2>5, <2>6 DEF Puts
  <2> QED BY <1>2, <2>4, <2>7
<1>3. CASE ~Open
  <2>1. Extend(x) = Append(log, x)
    BY <1>3 DEF Open, Extend, Last
  <2> QED BY <1>3, <2>1, AppendProperties DEF Puts
<1> QED BY <1>2, <1>3

(***************************************************************************)
(* Types.                                                                  *)
(***************************************************************************)
(* An entry is no further in its chain than w, the writes begun; and its    *)
(* number is that of one of them.                                          *)
Numbered(x, w) == x.shape = "entry" => x.seq \in 1 .. w
Genuine(x, w) == x.shape = "entry" => x.id \in 1 .. w

LogInv ==
  /\ TypeOK
  /\ \A l \in Kept : \A i \in DOMAIN l : Numbered(l[i], written)
  /\ tampers = 0 => \A l \in Kept : \A i \in DOMAIN l : Genuine(l[i], written)

(* A line of the write that is due.                                         *)
Fresh(y, from) ==
  /\ y \in Shapes /\ y.shape = "entry" /\ y.sound
  /\ y.id = written + 1 /\ y.seq = LastSeq + 1 /\ y.prev = LastHash /\ y.from = from

(* A write is completed: its line is the last, unless half a line was there *)
(* before it.                                                              *)
Completes(from) ==
  /\ done' = done \cup {written + 1} /\ UNCHANGED interrupted
  /\ \/ Open /\ Puts(log', Len(log) - 1, Garbage(TRUE))
     \/ ~Open /\ \E y : Fresh(y, from) /\ y.ended /\ Puts(log', Len(log), y)

(* A write stops on its way, and leaves nothing, or a line without newline. *)
Breaks(from) ==
  /\ UNCHANGED done /\ interrupted' = interrupted + 1
  /\ \/ log' = log
     \/ Open /\ Puts(log', Len(log) - 1, Garbage(FALSE))
     \/ ~Open /\ \E y : (y = Garbage(FALSE) \/ Fresh(y, from)) /\ ~y.ended /\ Puts(log', Len(log), y)

LEMMA LastKnown ==
  ASSUME LogInv
  PROVE  /\ LastSeq \in 0 .. written /\ LastHash \in Hashes
         /\ written \in Nat /\ written <= MaxWrites
<1>1. written \in Nat /\ written <= MaxWrites /\ log \in Seq(Shapes) /\ MaxWrites \in Nat
  BY BoundsAssumption DEF LogInv, TypeOK
<1>2. CASE log # <<>> /\ log[Len(log)].shape = "entry"
  <2>1. Len(log) \in DOMAIN log /\ log \in Kept
    BY <1>1, <1>2 DEF Kept
  <2>2. Numbered(log[Len(log)], written)
    BY <2>1 DEF LogInv
  <2>4. log[Len(log)].id \in Hashes
    <3>1. log[Len(log)] \in Shapes
      BY <1>1, <2>1
    <3> QED BY <3>1 DEF Shapes
  <2>3. LastSeq = log[Len(log)].seq /\ LastHash = log[Len(log)].id
    BY <1>2 DEF LastSeq, LastHash, Last
  <2> QED BY <1>1, <1>2, <2>2, <2>3, <2>4 DEF Numbered
<1>3. CASE ~(log # <<>> /\ log[Len(log)].shape = "entry")
  <2>1. LastSeq = 0 /\ LastHash = 0
    BY <1>3 DEF LastSeq, LastHash, Last, Genesis
  <2> QED BY <1>1, <2>1, BoundsAssumption DEF Hashes
<1> QED BY <1>2, <1>3

LEMMA WriteDoes ==
  ASSUME LogInv, NEW from \in 0 .. MaxWrites, NEW next, WriteLine(from, next)
  PROVE  /\ written' = written + 1 /\ written < MaxWrites
         /\ \/ Completes(from) /\ stage' = next
            \/ Breaks(from) /\ stage' = "idle" /\ "io" \in Faults
         /\ \E y : Fresh(y, from)
<1>0. /\ written' = written + 1 /\ written < MaxWrites /\ written \in Nat /\ MaxWrites \in Nat
      /\ log \in Seq(Shapes)
  BY LastKnown, BoundsAssumption DEF WriteLine, LogInv, TypeOK
<1>1. PICK x \in Shapes : x = NewLine(from) /\ Fresh(x, from) /\ x.ended
  <2>1. written + 1 \in Hashes /\ LastSeq + 1 \in 0 .. MaxWrites /\ LastHash \in Hashes
    BY <1>0, LastKnown, BoundsAssumption DEF Hashes
  <2> QED BY <2>1, LineType DEF NewLine, Fresh
<1>2. CASE /\ log' = Extend(x) /\ done' = done \cup {written + 1} /\ stage' = next
           /\ UNCHANGED interrupted
  <2>1. Completes(from)
    BY <1>0, <1>1, <1>2, ExtendPuts DEF Completes
  <2> QED BY <1>0, <1>1, <1>2, <2>1
<1>3. CASE /\ "io" \in Faults /\ log' \in Torn(x) /\ stage' = "idle"
           /\ interrupted' = interrupted + 1 /\ UNCHANGED done
  <2>1. PICK y : y = [x EXCEPT !.ended = FALSE]
    OBVIOUS
  <2>2. Fresh(y, from) /\ ~y.ended /\ y.ended = FALSE
    BY <1>1, <2>1 DEF Fresh, Shapes
  <2>3. PICK g \in Shapes : g = Garbage(FALSE) /\ ~g.ended /\ g.ended = FALSE
    BY GarbageType
  <2>4. ASSUME log' = log PROVE Breaks(from)
    BY <1>3, <2>4 DEF Breaks
  <2>5. ASSUME log' = Extend(g) PROVE Breaks(from)
    BY <1>0, <1>3, <2>3, <2>5, ExtendPuts DEF Breaks
  <2>6. ASSUME log' = Extend(y) PROVE Breaks(from)
    <3>1. y \in Shapes
      BY <2>2 DEF Fresh
    <3>2. IF Open THEN Puts(log', Len(log) - 1, Garbage(FALSE)) ELSE Puts(log', Len(log), y)
      BY <1>0, <2>2, <2>6, <3>1, ExtendPuts
    <3> QED BY <1>3, <2>2, <3>2 DEF Breaks
  <2>7. log' = log \/ log' = Extend(g) \/ log' = Extend(y)
    BY <1>3, <2>1, <2>3 DEF Torn
  <2>8. Breaks(from)
    BY <1>3, <2>2, <2>3, <2>4, <2>5, <2>6, <2>7 DEF Breaks
  <2> QED BY <1>0, <1>1, <1>3, <2>8
<1> QED BY <1>1, <1>2, <1>3 DEF WriteLine

(* What taking a line out of a sequence leaves.                             *)
LEMMA RemovesLine ==
  ASSUME NEW S, NEW s \in Seq(S), NEW k \in 1 .. Len(s)
  PROVE  /\ RemoveAt(s, k) \in Seq(S) /\ Len(RemoveAt(s, k)) = Len(s) - 1
         /\ \A i \in 1 .. Len(s) - 1 : RemoveAt(s, k)[i] = IF i < k THEN s[i] ELSE s[i + 1]
<1>1. PICK n \in Nat : n = Len(s)
  OBVIOUS
<1>2. k \in Nat /\ 1 <= k /\ k <= n /\ \A i \in 1 .. n : s[i] \in S
  BY <1>1
<1>3. PICK a : a = SubSeq(s, 1, k - 1)
  OBVIOUS
<1>4. PICK b : b = SubSeq(s, k + 1, n)
  OBVIOUS
<1>5. /\ a \in Seq(S) /\ Len(a) = k - 1 /\ \A i \in 1 .. k - 1 : a[i] = s[i]
  <2>1. \A i \in 1 .. k - 1 : s[i] \in S
    BY <1>2
  <2>2. /\ a \in Seq(S) /\ Len(a) = IF 1 <= k - 1 THEN (k - 1) - 1 + 1 ELSE 0
        /\ \A i \in 1 .. (k - 1) - 1 + 1 : a[i] = s[1 + i - 1]
    BY <1>2, <1>3, <2>1, SubSeqProperties
  <2>3. Len(a) = k - 1
    BY <1>2, <2>2
  <2>4. ASSUME NEW i \in 1 .. k - 1 PROVE a[i] = s[i]
    <3>1. i \in 1 .. (k - 1) - 1 + 1 /\ 1 + i - 1 = i
      BY <1>2
    <3> QED BY <2>2, <3>1
  <2> QED BY <2>2, <2>3, <2>4
<1>6. /\ b \in Seq(S) /\ Len(b) = n - k /\ \A i \in 1 .. n - k : b[i] = s[k + i]
  <2>1. \A i \in k + 1 .. n : s[i] \in S
    BY <1>2
  <2>2. /\ b \in Seq(S) /\ Len(b) = IF k + 1 <= n THEN n - (k + 1) + 1 ELSE 0
        /\ \A i \in 1 .. n - (k + 1) + 1 : b[i] = s[(k + 1) + i - 1]
    BY <1>2, <1>4, <2>1, SubSeqProperties
  <2>3. Len(b) = n - k
    BY <1>2, <2>2
  <2>4. ASSUME NEW i \in 1 .. n - k PROVE b[i] = s[k + i]
    <3>1. i \in 1 .. n - (k + 1) + 1 /\ (k + 1) + i - 1 = k + i
      BY <1>2
    <3> QED BY <2>2, <3>1
  <2> QED BY <2>2, <2>3, <2>4
<1>7. RemoveAt(s, k) = a \o b
  BY <1>1, <1>3, <1>4 DEF RemoveAt
<1>8. /\ a \o b \in Seq(S) /\ Len(a \o b) = Len(a) + Len(b)
      /\ \A i \in 1 .. Len(a) + Len(b) : (a \o b)[i] = IF i <= Len(a) THEN a[i] ELSE b[i - Len(a)]
  BY <1>5, <1>6, ConcatProperties
<1>9. Len(a) + Len(b) = n - 1
  BY <1>2, <1>5, <1>6
<1>10. ASSUME NEW i \in 1 .. n - 1 PROVE (a \o b)[i] = IF i < k THEN s[i] ELSE s[i + 1]
  <2>1. (a \o b)[i] = IF i <= k - 1 THEN a[i] ELSE b[i - (k - 1)]
    BY <1>5, <1>8, <1>9
  <2>2. CASE i < k
    BY <1>2, <1>5, <2>1, <2>2
  <2>3. CASE ~(i < k)
    <3>1. i - (k - 1) \in 1 .. n - k /\ k + (i - (k - 1)) = i + 1
      BY <1>2, <2>3
    <3>2. b[i - (k - 1)] = s[i + 1]
      BY <1>6, <3>1
    <3> QED BY <1>2, <2>1, <2>3, <3>2
  <2> QED BY <2>2, <2>3
<1> QED BY <1>1, <1>7, <1>8, <1>9, <1>10

(* An edited line.                                                          *)
LEMMA EditsDo ==
  ASSUME NEW x \in Shapes, x.shape = "entry", Numbered(x, written), written \in Nat,
         written <= MaxWrites, tampers \in Nat, tampers < MaxTampers, NEW y \in Edits(x)
  PROVE  /\ y \in Shapes /\ Numbered(y, written) /\ y.ended = x.ended
         /\ \/ y.shape = "entry" /\ ~y.sound
            \/ y.shape = "entry" /\ y.id = Forged
            \/ y.shape = "legacy"
<1>0. /\ Forged \in Hashes /\ 1 \in 1 .. written /\ 1 \in 0 .. MaxWrites /\ Genesis \in Hashes
      /\ MaxWrites \in Nat
  BY BoundsAssumption DEF Forged, Hashes, Genesis, Numbered
<1>1. CASE y = [x EXCEPT !.sound = FALSE]
  BY <1>0, <1>1 DEF Shapes, Numbered
<1>2. CASE y = [x EXCEPT !.id = Forged, !.sound = TRUE]
  BY <1>0, <1>2 DEF Shapes, Numbered
<1>3. CASE y = [x EXCEPT !.id = Forged, !.sound = TRUE, !.seq = 1, !.prev = Genesis]
  BY <1>0, <1>3 DEF Shapes, Numbered
<1>4. CASE y = [LegacyLine EXCEPT !.ended = x.ended]
  <2>1. PICK l \in Shapes : l = LegacyLine /\ l.shape = "legacy"
    BY LegacyType
  <2> QED BY <1>4, <2>1 DEF Shapes, Numbered
<1> QED BY <1>1, <1>2, <1>3, <1>4 DEF Edits

(* What tampering makes of the log: its lines are lines, and have their     *)
(* newlines if they had them before.                                       *)
LEMMA TamperDoes ==
  ASSUME LogInv, NEW i \in DOMAIN log,
         Edit(i) \/ Delete(i) \/ \E j \in DOMAIN log : Swap(i, j)
  PROVE  /\ log' \in Seq(Shapes) /\ stage = "idle" /\ tampers' = tampers + 1 /\ tampers < MaxTampers
         /\ endings' = endings \/ endings' = endings + 1
         /\ UNCHANGED <<archives, stage, deleted, written, done, swept, recorded, interrupted>>
         /\ \A k \in DOMAIN log' :
              /\ Numbered(log'[k], written)
              /\ \E j \in DOMAIN log : log'[k].ended = log[j].ended
<1>0. PICK n \in Nat : n = Len(log) /\ DOMAIN log = 1 .. n /\ i \in 1 .. n /\ log \in Seq(Shapes)
  BY DEF LogInv, TypeOK
<1>1. /\ stage = "idle" /\ tampers' = tampers + 1 /\ tampers < MaxTampers
      /\ endings' = endings \/ endings' = endings + 1
      /\ UNCHANGED <<archives, stage, deleted, written, done, swept, recorded, interrupted>>
  BY DEF Edit, Delete, Swap, Tampered
<1>5. \A k \in DOMAIN log : log[k] \in Shapes /\ Numbered(log[k], written)
  BY <1>0 DEF LogInv, Kept
<1>2. CASE Edit(i)
  <2>1. PICK x \in Shapes : x = log[i] /\ x.shape = "entry" /\ Numbered(x, written)
    BY <1>2, <1>5 DEF Edit, IsEntry
  <2>2. PICK y \in Edits(x) : log' = [log EXCEPT ![i] = y]
    BY <1>2, <2>1 DEF Edit, Tampered
  <2>3. y \in Shapes /\ Numbered(y, written) /\ y.ended = x.ended
    BY <1>1, <2>1, EditsDo, LastKnown DEF LogInv, TypeOK
  <2>5. log' \in Seq(Shapes) /\ DOMAIN log' = DOMAIN log
    BY <1>0, <2>2, <2>3, ExceptSeq
  <2>6. log'[i] = y /\ \A k \in DOMAIN log \ {i} : log'[k] = log[k]
    BY <2>2
  <2> QED BY <1>1, <1>5, <2>1, <2>3, <2>5, <2>6
<1>3. CASE Delete(i)
  <2>1. log' = RemoveAt(log, i)
    BY <1>3 DEF Delete, Tampered
  <2>2. /\ log' \in Seq(Shapes) /\ Len(log') = n - 1
        /\ \A k \in 1 .. n - 1 : log'[k] = IF k < i THEN log[k] ELSE log[k + 1]
    BY <1>0, <2>1, RemovesLine
  <2>3. DOMAIN log' = 1 .. n - 1
    BY <2>2
  <2>4. \A k \in 1 .. n - 1 : k \in 1 .. n /\ k + 1 \in 1 .. n
    BY <1>0
  <2> QED BY <1>0, <1>1, <1>5, <2>2, <2>3, <2>4
<1>4. ASSUME NEW j \in DOMAIN log, Swap(i, j)
      PROVE  /\ log' \in Seq(Shapes)
             /\ \A k \in DOMAIN log' : \E m \in DOMAIN log : log'[k] = log[m]
  <2>1. log' = [log EXCEPT ![i] = log[j], ![j] = log[i]]
    BY <1>4 DEF Swap, Tampered
  <2>2. PICK s : s = [log EXCEPT ![i] = log[j]]
    OBVIOUS
  <2>3. s \in Seq(Shapes) /\ DOMAIN s = DOMAIN log /\ s[i] = log[j]
        /\ \A k \in DOMAIN log \ {i} : s[k] = log[k]
    BY <1>0, <2>2, ExceptSeq
  <2>4. log' = [s EXCEPT ![j] = log[i]]
    BY <2>1, <2>2
  <2>5. log' \in Seq(Shapes) /\ DOMAIN log' = DOMAIN log /\ log'[j] = log[i]
        /\ \A k \in DOMAIN log \ {j} : log'[k] = s[k]
    <3>1. j \in DOMAIN s /\ log[i] \in Shapes
      BY <1>5, <2>3
    <3>2. [s EXCEPT ![j] = log[i]] \in Seq(Shapes)
      BY <2>3, <3>1, ExceptSeq
    <3> QED BY <2>3, <2>4, <3>1, <3>2
  <2> QED BY <2>3, <2>5
<1> QED BY <1>1, <1>2, <1>3, <1>4, <1>5

(* Either way, a write keeps all lines, or all but one without newline, and *)
(* puts one after them.                                                    *)
LEMMA Written ==
  ASSUME LogInv, NEW from, Completes(from) \/ Breaks(from)
  PROVE  \/ log' = log /\ Breaks(from)
         \/ \E k \in Nat, x \in Shapes :
              /\ Puts(log', k, x) /\ DOMAIN log' = 1 .. k + 1
              /\ \A i \in 1 .. k : i \in DOMAIN log
              /\ \/ k = Len(log) /\ ~Open /\ (Fresh(x, from) \/ x.shape = "garbage")
                 \/ k = Len(log) - 1 /\ Open /\ x.shape = "garbage"
<1>0. log \in Seq(Shapes) /\ Len(log) \in Nat /\ DOMAIN log = 1 .. Len(log)
  BY DEF LogInv, TypeOK
<1>1. ASSUME NEW k \in Nat, NEW x \in Shapes, Puts(log', k, x) PROVE DOMAIN log' = 1 .. k + 1
  BY <1>1 DEF Puts
<1>2. CASE Open /\ \E e \in BOOLEAN : Puts(log', Len(log) - 1, Garbage(e))
  <2>1. PICK e \in BOOLEAN : Puts(log', Len(log) - 1, Garbage(e))
    BY <1>2
  <2>2. PICK x \in Shapes : x = Garbage(e) /\ x.shape = "garbage"
    BY GarbageType
  <2>0. log # <<>> /\ Open
    BY <1>2 DEF Open
  <2>4. Len(log) # 0
    BY <1>0, <2>0
  <2>3. PICK k \in Nat : k = Len(log) - 1 /\ \A i \in 1 .. k : i \in DOMAIN log
    <3>1. PICK k : k = Len(log) - 1
      OBVIOUS
    <3>2. k \in Nat /\ \A i \in 1 .. k : i \in 1 .. Len(log)
      BY <1>0, <2>4, <3>1
    <3> QED BY <1>0, <3>1, <3>2
  <2> QED BY <1>1, <1>2, <2>1, <2>2, <2>3
<1>3. CASE ~Open /\ \E x : (x = Garbage(FALSE) \/ Fresh(x, from)) /\ Puts(log', Len(log), x)
  <2>1. PICK x : (x = Garbage(FALSE) \/ Fresh(x, from)) /\ Puts(log', Len(log), x)
    BY <1>3
  <2>2. x \in Shapes /\ (Fresh(x, from) \/ x.shape = "garbage")
    BY <2>1, GarbageType DEF Fresh
  <2> QED BY <1>0, <1>1, <1>3, <2>1, <2>2
<1>4. CASE log' = log /\ Breaks(from)
  BY <1>4
<1> QED BY <1>2, <1>3, <1>4 DEF Completes, Breaks

LEMMA WriteType ==
  ASSUME LogInv, NEW from \in 0 .. MaxWrites, Completes(from) \/ Breaks(from),
         UNCHANGED <<archives, tampers>>, written' = written + 1
  PROVE  /\ log' \in Seq(Shapes)
         /\ tampers' = 0 => \A i \in 1 .. Len(log') - 1 : log'[i].ended
         /\ \A l \in Kept' : \A i \in DOMAIN l : Numbered(l[i], written')
         /\ tampers' = 0 => \A l \in Kept' : \A i \in DOMAIN l : Genuine(l[i], written')
<1>0. /\ log \in Seq(Shapes) /\ written \in Nat /\ DOMAIN log = 1 .. Len(log) /\ Len(log) \in Nat
      /\ tampers = 0 => \A i \in 1 .. Len(log) - 1 : log[i].ended
  BY LastKnown DEF LogInv, TypeOK
<1>1. ASSUME NEW x
      PROVE  /\ Numbered(x, written) => Numbered(x, written')
             /\ Genuine(x, written) => Genuine(x, written')
  BY <1>0, <1>1 DEF Numbered, Genuine
<1>2. ASSUME NEW l \in {a.lines : a \in archives'}, NEW i \in DOMAIN l
      PROVE  Numbered(l[i], written') /\ (tampers' = 0 => Genuine(l[i], written'))
  BY <1>1 DEF LogInv, Kept
<1>3. ASSUME NEW i \in DOMAIN log
      PROVE  Numbered(log[i], written') /\ (tampers' = 0 => Genuine(log[i], written'))
  BY <1>1 DEF LogInv, Kept
<1>4. CASE log' = log
  BY <1>0, <1>2, <1>3, <1>4 DEF Kept
<1>5. ASSUME NEW k \in Nat, NEW x \in Shapes, Puts(log', k, x), DOMAIN log' = 1 .. k + 1,
             \A i \in 1 .. k : i \in DOMAIN log,
             \/ k = Len(log) /\ ~Open /\ (Fresh(x, from) \/ x.shape = "garbage")
             \/ k = Len(log) - 1 /\ Open /\ x.shape = "garbage"
      PROVE  /\ log' \in Seq(Shapes)
             /\ tampers' = 0 => \A i \in 1 .. Len(log') - 1 : log'[i].ended
             /\ \A l \in Kept' : \A i \in DOMAIN l : Numbered(l[i], written')
             /\ tampers' = 0 => \A l \in Kept' : \A i \in DOMAIN l : Genuine(l[i], written')
  <2>1. log' \in Seq(Shapes) /\ Len(log') = k + 1 /\ log'[k + 1] = x
        /\ \A i \in 1 .. k : log'[i] = log[i]
    BY <1>5 DEF Puts
  <2>2. Numbered(x, written') /\ Genuine(x, written')
    <3>1. CASE Fresh(x, from)
      <4>1. x.seq = LastSeq + 1 /\ x.id = written + 1 /\ LastSeq \in 0 .. written
        BY <3>1, LastKnown DEF Fresh
      <4>2. LastSeq + 1 \in 1 .. written + 1 /\ written + 1 \in 1 .. written + 1
        BY <1>0, <4>1
      <4>3. x.seq \in 1 .. written' /\ x.id \in 1 .. written'
        BY <4>1, <4>2
      <4> QED BY <4>3 DEF Numbered, Genuine
    <3>2. CASE x.shape = "garbage"
      BY <3>2 DEF Numbered, Genuine
    <3> QED BY <1>5, <3>1, <3>2
  <2>3. \A i \in DOMAIN log' :
          Numbered(log'[i], written') /\ (tampers' = 0 => Genuine(log'[i], written'))
    BY <1>3, <1>5, <2>1, <2>2
  <2>4. ASSUME tampers' = 0, NEW i \in 1 .. Len(log') - 1 PROVE log'[i].ended
    <3>1. i \in 1 .. k /\ i \in DOMAIN log /\ log'[i] = log[i]
      BY <1>5, <2>1
    <3>2. CASE i \in 1 .. Len(log) - 1
      BY <1>0, <2>4, <3>1, <3>2
    <3>3. CASE i \notin 1 .. Len(log) - 1
      <4>1. i = Len(log) /\ k = Len(log)
        <5>1. PICK n \in Nat : n = Len(log)
          BY <1>0
        <5>2. i \in 1 .. n /\ i \in 1 .. k /\ i \notin 1 .. n - 1 /\ (k = n \/ k = n - 1)
          BY <1>0, <1>5, <3>1, <3>3, <5>1
        <5> QED BY <5>1, <5>2
      <4>2. log # <<>>
        BY <1>0, <3>1
      <4>3. ~Open
        <5>1. \A n \in Nat : n # n - 1
          OBVIOUS
        <5>2. Len(log) # Len(log) - 1
          BY <1>0, <5>1
        <5> QED BY <1>5, <4>1, <5>2
      <4>4. log[Len(log)].ended
        BY <4>2, <4>3 DEF Open
      <4> QED BY <3>1, <4>1, <4>4
    <3> QED BY <3>2, <3>3
  <2> QED BY <1>2, <2>1, <2>3, <2>4 DEF Kept
<1> QED BY <1>4, <1>5, Written

LEMMA WriteActions ==
  ASSUME LogInv, AppendEntry \/ Mark \/ AppendAfterRotation
  PROVE  /\ written' = written + 1 /\ written < MaxWrites /\ written \in Nat
         /\ UNCHANGED <<archives, swept, tampers, endings>>
         /\ \E from \in 0 .. MaxWrites : Completes(from) \/ Breaks(from)
<1>1. 0 \in 0 .. MaxWrites /\ (written < MaxWrites => written + 1 \in 0 .. MaxWrites)
      /\ written \in Nat /\ MaxWrites \in Nat
  BY LastKnown, BoundsAssumption
<1>2. CASE AppendEntry \/ AppendAfterRotation
  BY <1>1, <1>2, WriteDoes DEF AppendEntry, AppendAfterRotation
<1>3. CASE Mark
  <2>1. written + 1 \in 0 .. MaxWrites
    BY <1>1, <1>3 DEF Mark, WriteLine
  <2> QED BY <1>1, <1>3, <2>1, WriteDoes DEF Mark
<1> QED BY <1>2, <1>3

(* What rotating, removing and ageing archives does to the lines there are. *)
LEMMA ArchiveDoes ==
  ASSUME LogInv
  PROVE  /\ Rotate => Kept' = Kept \cup {<<>>} /\ archives' \subseteq Files
                      /\ \A a \in archives' : a \in archives \/ (a.lines = log /\ a.name = written + 1)
         /\ \A a \in archives : Sweep(a) => Kept' \subseteq Kept
         /\ \A a \in archives : Expire(a) =>
              /\ Kept' = Kept /\ archives' \subseteq Files
              /\ \A b \in archives' : \E c \in archives : b.lines = c.lines /\ b.name = c.name
<1>1. /\ written \in Nat /\ log \in Seq(Shapes) /\ archives \subseteq Files /\ MaxWrites \in Nat
  BY BoundsAssumption DEF LogInv, TypeOK
<1>2. ASSUME Rotate
      PROVE  /\ Kept' = Kept \cup {<<>>} /\ archives' \subseteq Files
             /\ \A a \in archives' : a \in archives \/ (a.lines = log /\ a.name = written + 1)
  <2>1. PICK b : (\E e \in BOOLEAN : b = Archived(e)) /\ archives' = archives \cup {b} /\ log' = <<>>
                 /\ written + 1 < MaxWrites
    BY <1>2 DEF Rotate
  <2>2. b.lines = log /\ b.name = written + 1 /\ b \in Files
    BY <1>1, <2>1 DEF Archived, Files, Rotations
  <2> QED BY <1>1, <2>1, <2>2 DEF Kept
<1>3. ASSUME NEW a \in archives, Sweep(a) PROVE Kept' \subseteq Kept
  BY <1>3 DEF Sweep, Kept
<1>4. ASSUME NEW a \in archives, Expire(a)
      PROVE  /\ Kept' = Kept /\ archives' \subseteq Files
             /\ \A b \in archives' : \E c \in archives : b.lines = c.lines /\ b.name = c.name
  <2>1. PICK b : b = [a EXCEPT !.expired = TRUE]
    OBVIOUS
  <2>2. b \in Files /\ b.lines = a.lines /\ b.name = a.name
    BY <1>1, <2>1 DEF Files
  <2>3. archives' = (archives \ {a}) \cup {b} /\ log' = log
    BY <1>4, <2>1 DEF Expire
  <2> QED BY <1>1, <2>2, <2>3 DEF Kept
<1> QED BY <1>2, <1>3, <1>4

LEMMA LogSteps == LogInv /\ [Next]_vars => LogInv'
<1> SUFFICES ASSUME LogInv, [Next]_vars PROVE LogInv'
  OBVIOUS
<1>0. /\ written \in Nat /\ MaxWrites \in Nat /\ MaxTampers \in Nat /\ interrupted \in Nat
      /\ tampers \in 0 .. MaxTampers /\ endings \in 0 .. tampers /\ done \subseteq 1 .. written
      /\ deleted \subseteq swept /\ recorded \subseteq swept /\ swept \subseteq Rotations
      /\ written <= MaxWrites /\ archives \subseteq Files /\ \A a \in archives : a.lines # <<>>
      /\ log \in Seq(Shapes) /\ stage \in {"idle", "sweep", "entry"}
      /\ tampers = 0 => \A i \in 1 .. Len(log) - 1 : log[i].ended
      /\ \A l \in Kept : \A i \in DOMAIN l : Numbered(l[i], written)
      /\ tampers = 0 => \A l \in Kept : \A i \in DOMAIN l : Genuine(l[i], written)
  BY BoundsAssumption DEF LogInv, TypeOK
<1>1. CASE AppendEntry \/ Mark \/ AppendAfterRotation
  <2>1. PICK from \in 0 .. MaxWrites : Completes(from) \/ Breaks(from)
    BY <1>1, WriteActions
  <2>2. written' = written + 1 /\ written < MaxWrites /\ UNCHANGED <<archives, swept, tampers, endings>>
    BY <1>1, WriteActions
  <2>3. /\ log' \in Seq(Shapes)
        /\ tampers' = 0 => \A i \in 1 .. Len(log') - 1 : log'[i].ended
        /\ \A l \in Kept' : \A i \in DOMAIN l : Numbered(l[i], written')
        /\ tampers' = 0 => \A l \in Kept' : \A i \in DOMAIN l : Genuine(l[i], written')
    BY <2>1, <2>2, WriteType
  <2>4. done' \subseteq 1 .. written' /\ interrupted' \in Nat
    <3>1. written + 1 \in 1 .. written + 1 /\ \A n \in 1 .. written : n \in 1 .. written + 1
      BY <1>0
    <3>2. done' = done \cup {written + 1} \/ done' = done
      BY <2>1 DEF Completes, Breaks
    <3>3. done' \subseteq 1 .. written'
      BY <1>0, <2>2, <3>1, <3>2
    <3>4. interrupted' = interrupted \/ interrupted' = interrupted + 1
      BY <2>1 DEF Completes, Breaks
    <3> QED BY <1>0, <3>3, <3>4
  <2>5. stage' \in {"idle", "sweep", "entry"} /\ deleted' \subseteq swept /\ recorded' \subseteq swept
    BY <1>0, <1>1 DEF AppendEntry, Mark, AppendAfterRotation, WriteLine
  <2>6. written' \in 0 .. MaxWrites
    BY <1>0, <2>2
  <2>7. TypeOK'
    BY <1>0, <2>2, <2>3, <2>4, <2>5, <2>6 DEF TypeOK
  <2> QED BY <2>3, <2>7 DEF LogInv
<1>2. CASE Rotate
  <2>1. /\ Kept' = Kept \cup {<<>>} /\ archives' \subseteq Files
        /\ \A a \in archives' : a \in archives \/ a.lines = log
    BY <1>2, ArchiveDoes
  <2>2. /\ log' = <<>> /\ log # <<>> /\ stage' = "sweep" /\ deleted' = {}
        /\ UNCHANGED <<written, done, swept, recorded, tampers, endings, interrupted>>
    BY <1>2 DEF Rotate
  <2>3. log' \in Seq(Shapes) /\ \A i \in 1 .. Len(log') - 1 : log'[i].ended
    BY <2>2
  <2>4. \A a \in archives' : a.lines # <<>>
    BY <1>0, <2>1, <2>2
  <2>5. /\ \A l \in Kept' : \A i \in DOMAIN l : Numbered(l[i], written')
        /\ tampers' = 0 => \A l \in Kept' : \A i \in DOMAIN l : Genuine(l[i], written')
    BY <1>0, <2>1, <2>2
  <2>6. TypeOK'
    BY <1>0, <2>1, <2>2, <2>3, <2>4 DEF TypeOK
  <2> QED BY <2>5, <2>6 DEF LogInv
<1>3. ASSUME NEW a \in archives, Sweep(a) PROVE LogInv'
  <2>1. /\ archives' = archives \ {a} /\ deleted' = deleted \cup {a.name} /\ swept' = swept \cup {a.name}
        /\ UNCHANGED <<log, stage, written, done, recorded, tampers, endings, interrupted>>
    BY <1>3 DEF Sweep
  <2>2. a.name \in Rotations
    BY <1>0 DEF Files
  <2>3. /\ \A l \in Kept' : \A i \in DOMAIN l : Numbered(l[i], written')
        /\ tampers' = 0 => \A l \in Kept' : \A i \in DOMAIN l : Genuine(l[i], written')
    BY <1>0, <1>3, <2>1, ArchiveDoes
  <2>4. TypeOK'
    BY <1>0, <2>1, <2>2 DEF TypeOK
  <2> QED BY <2>3, <2>4 DEF LogInv
<1>4. ASSUME NEW a \in archives, Expire(a) PROVE LogInv'
  <2>1. UNCHANGED <<log, stage, deleted, written, done, swept, recorded, tampers, endings, interrupted>>
    BY <1>4 DEF Expire
  <2>2. /\ Kept' = Kept /\ archives' \subseteq Files
        /\ \A b \in archives' : \E c \in archives : b.lines = c.lines
    BY <1>4, ArchiveDoes
  <2>3. TypeOK'
    BY <1>0, <2>1, <2>2 DEF TypeOK
  <2> QED BY <1>0, <2>1, <2>2, <2>3 DEF LogInv
<1>5. ASSUME NEW i \in DOMAIN log, Edit(i) \/ Delete(i) \/ \E j \in DOMAIN log : Swap(i, j)
      PROVE  LogInv'
  <2>1. /\ log' \in Seq(Shapes) /\ tampers' = tampers + 1 /\ tampers < MaxTampers
        /\ endings' = endings \/ endings' = endings + 1
        /\ UNCHANGED <<archives, stage, deleted, written, done, swept, recorded, interrupted>>
        /\ \A k \in DOMAIN log' : Numbered(log'[k], written)
    BY <1>5, TamperDoes
  <2>2. tampers' \in 0 .. MaxTampers /\ tampers' # 0 /\ endings' \in 0 .. tampers'
    BY <1>0, <2>1
  <2>4. \A k \in DOMAIN log' : Numbered(log'[k], written')
    BY <2>1
  <2>5. \A l \in Kept' : \A k \in DOMAIN l : Numbered(l[k], written')
    BY <1>0, <2>1, <2>4 DEF Kept
  <2>6. TypeOK'
    BY <1>0, <2>1, <2>2 DEF TypeOK
  <2> QED BY <2>2, <2>5, <2>6 DEF LogInv
<1>6. CASE Crash \/ UNCHANGED vars
  <2>1. /\ UNCHANGED <<log, archives, written, done, swept, recorded, tampers, endings>>
        /\ stage' \in {"idle", "sweep", "entry"} /\ deleted' \subseteq swept /\ interrupted' \in Nat
    BY <1>0, <1>6 DEF Crash, vars
  <2>2. TypeOK'
    BY <1>0, <2>1 DEF TypeOK
  <2>3. /\ \A l \in Kept' : \A i \in DOMAIN l : Numbered(l[i], written')
        /\ tampers' = 0 => \A l \in Kept' : \A i \in DOMAIN l : Genuine(l[i], written')
    BY <1>0, <2>1 DEF Kept
  <2> QED BY <2>2, <2>3 DEF LogInv
<1> QED BY <1>1, <1>2, <1>3, <1>4, <1>5, <1>6 DEF Next, Rest

LEMMA LogInit == Init => LogInv
<1> SUFFICES ASSUME Init PROVE LogInv
  OBVIOUS
<1>1. PICK n \in 0 .. Legacy : log = [i \in 1 .. n |-> LegacyLine]
  BY DEF Init
<1>2. n \in Nat
  BY <1>1, BoundsAssumption
<1>3. log \in Seq(Shapes) /\ DOMAIN log = 1 .. n /\ Len(log) = n /\ \A i \in 1 .. n : log[i] = LegacyLine
  BY <1>1, <1>2, LegacyType, IsASeq
<1>4. \A i \in 1 .. Len(log) - 1 : log[i].ended
  BY <1>2, <1>3, LegacyType
<1>5. TypeOK
  BY <1>3, <1>4, BoundsAssumption DEF Init, TypeOK
<1>6. \A l \in Kept : \A i \in DOMAIN l : Numbered(l[i], written) /\ Genuine(l[i], written)
  BY <1>3, LegacyType DEF Init, Kept, Numbered, Genuine
<1> QED BY <1>5, <1>6 DEF LogInv

(* Whatever is written, rotated, interrupted or tampered with, only the     *)
(* last line can lack its newline, and no rotated file is empty            *)
(* (audit.py:191-248).                                                     *)
THEOREM LogIsWellFormed == Spec => []TypeOK
<1>1. LogInv => TypeOK
  BY DEF LogInv
<1> QED BY <1>1, LogInit, LogSteps, PTL DEF Spec

(***************************************************************************)
(* The order of the entries.                                               *)
(***************************************************************************)
(* An entry in the log after a write was there before, or is the new line.  *)
LEMMA WrittenEntries ==
  ASSUME LogInv, NEW from, Completes(from) \/ Breaks(from)
  PROVE  \A i \in Chained(log') :
           \/ i \in Chained(log) /\ log'[i] = log[i]
           \/ Fresh(log'[i], from) /\ \A j \in Chained(log') \ {i} : j \in 1 .. i - 1
<1>1. CASE log' = log
  BY <1>1
<1>2. ASSUME NEW k \in Nat, NEW x \in Shapes, Puts(log', k, x), DOMAIN log' = 1 .. k + 1,
             \A i \in 1 .. k : i \in DOMAIN log, Fresh(x, from) \/ x.shape = "garbage",
             NEW i \in Chained(log')
      PROVE  \/ i \in Chained(log) /\ log'[i] = log[i]
             \/ Fresh(log'[i], from) /\ \A j \in Chained(log') \ {i} : j \in 1 .. i - 1
  <2>1. i \in 1 .. k + 1 /\ log'[i].shape = "entry" /\ \A j \in Chained(log') : j \in 1 .. k + 1
    BY <1>2 DEF Chained
  <2>2. CASE i \in 1 .. k
    BY <1>2, <2>1, <2>2 DEF Chained, Puts
  <2>3. CASE i \notin 1 .. k
    <3>1. i = k + 1
      BY <2>1, <2>3
    <3>2. log'[i] = x
      BY <1>2, <3>1 DEF Puts
    <3>3. Fresh(log'[i], from)
      BY <1>2, <2>1, <3>2
    <3> QED BY <2>1, <3>1, <3>3
  <2> QED BY <2>2, <2>3
<1> QED BY <1>1, <1>2, Written

LEMMA OrderSteps == LogInv /\ InOrder /\ [Next]_vars => InOrder'
<1> SUFFICES ASSUME LogInv, InOrder, [Next]_vars, tampers' = 0 PROVE InOrder'
  BY DEF InOrder
<1>0. /\ written \in Nat /\ tampers \in Nat
      /\ tampers = 0 => \A l \in Kept : \A i \in Chained(l) : l[i].id \in 1 .. written
      /\ tampers' = tampers + 1 => FALSE
  <2>1. \A n \in Nat : n + 1 # 0
    OBVIOUS
  <2> QED BY <2>1, BoundsAssumption DEF LogInv, TypeOK, Chained, Genuine
<1>1. CASE AppendEntry \/ Mark \/ AppendAfterRotation
  <2>1. PICK from \in 0 .. MaxWrites : Completes(from) \/ Breaks(from)
    BY <1>1, WriteActions
  <2>2. archives' = archives /\ tampers = 0
    BY <1>1, WriteActions
  <2>3. \A i \in Chained(log') :
           \/ i \in Chained(log) /\ log'[i] = log[i]
           \/ Fresh(log'[i], from) /\ \A j \in Chained(log') \ {i} : j \in 1 .. i - 1
    BY <2>1, WrittenEntries
  <2>4. log \in Kept /\ \A a \in archives : a.lines \in Kept
    BY DEF Kept
  <2>5. ASSUME NEW i \in Chained(log'), NEW j \in Chained(log'), i < j
        PROVE  log'[i].id < log'[j].id
    <3>0. i \in Nat /\ j \in Nat
      <4>1. log' \in Seq(Shapes)
        BY <1>1, <2>1, WriteType, WriteActions
      <4> QED BY <4>1 DEF Chained
    <3>1. i \in Chained(log) /\ log'[i] = log[i]
      <4>1. CASE Fresh(log'[i], from) /\ \A h \in Chained(log') \ {i} : h \in 1 .. i - 1
        <5>1. j \in 1 .. i - 1
          BY <2>5, <3>0, <4>1
        <5> QED BY <2>5, <3>0, <5>1
      <4> QED BY <2>3, <4>1
    <3>2. CASE j \in Chained(log) /\ log'[j] = log[j]
      BY <2>2, <2>4, <2>5, <3>1, <3>2 DEF InOrder
    <3>3. CASE Fresh(log'[j], from)
      <4>1. log'[j].id = written + 1 /\ log'[i].id \in 1 .. written
        BY <1>0, <2>2, <2>4, <3>1, <3>3 DEF Fresh
      <4> QED BY <1>0, <4>1
    <3> QED BY <2>3, <3>2, <3>3
  <2>6. ASSUME NEW l \in Kept', NEW i \in Chained(l), NEW j \in Chained(l), i < j
        PROVE  l[i].id < l[j].id
    <3>1. CASE l = log'
      BY <2>5, <2>6, <3>1
    <3>2. CASE l # log'
      <4>1. l \in Kept
        BY <2>2, <3>2 DEF Kept
      <4> QED BY <2>2, <2>6, <4>1 DEF InOrder
    <3> QED BY <3>1, <3>2
  <2>7. ASSUME NEW a \in archives', NEW i \in Chained(log'), NEW j \in Chained(a.lines)
        PROVE  a.lines[j].id < log'[i].id
    <3>1. CASE i \in Chained(log) /\ log'[i] = log[i]
      BY <2>2, <3>1 DEF InOrder
    <3>2. CASE Fresh(log'[i], from)
      <4>1. log'[i].id = written + 1 /\ a.lines[j].id \in 1 .. written
        BY <1>0, <2>2, <2>4, <3>2 DEF Fresh
      <4> QED BY <1>0, <4>1
    <3> QED BY <2>3, <3>1, <3>2
  <2> QED BY <2>6, <2>7 DEF InOrder
<1>2. CASE Rotate
  <2>1. Kept' = Kept \cup {<<>>}
    BY <1>2, ArchiveDoes
  <2>2. log' = <<>> /\ tampers = 0 /\ Chained(<<>>) = {}
    BY <1>2 DEF Rotate, Chained
  <2> QED BY <2>1, <2>2 DEF InOrder
<1>3. ASSUME NEW a \in archives, Sweep(a) PROVE InOrder'
  <2>1. Kept' \subseteq Kept
    BY <1>3, ArchiveDoes
  <2>2. log' = log /\ tampers = 0 /\ archives' \subseteq archives
    BY <1>3 DEF Sweep
  <2> QED BY <2>1, <2>2 DEF InOrder
<1>4. ASSUME NEW a \in archives, Expire(a) PROVE InOrder'
  <2>1. Kept' = Kept /\ \A b \in archives' : \E c \in archives : b.lines = c.lines
    BY <1>4, ArchiveDoes
  <2>2. log' = log /\ tampers = 0
    BY <1>4 DEF Expire
  <2>3. ASSUME NEW b \in archives', NEW i \in Chained(log'), NEW j \in Chained(b.lines)
        PROVE  b.lines[j].id < log'[i].id
    BY <2>1, <2>2 DEF InOrder
  <2>4. ASSUME NEW l \in Kept', NEW i \in Chained(l), NEW j \in Chained(l), i < j
        PROVE  l[i].id < l[j].id
    BY <2>1, <2>2, <2>4 DEF InOrder
  <2> QED BY <2>3, <2>4 DEF InOrder
<1>5. ASSUME NEW i \in DOMAIN log, Edit(i) \/ Delete(i) \/ \E j \in DOMAIN log : Swap(i, j)
      PROVE  FALSE
  BY <1>0, <1>5, TamperDoes
<1>6. CASE Crash \/ UNCHANGED vars
  <2>1. UNCHANGED <<log, archives, tampers>>
    BY <1>6 DEF Crash, vars
  <2> QED BY <2>1 DEF InOrder, Kept
<1> QED BY <1>1, <1>2, <1>3, <1>4, <1>5, <1>6 DEF Next, Rest

LEMMA OrderInit == Init => InOrder
<1> SUFFICES ASSUME Init PROVE InOrder
  OBVIOUS
<1>1. LogInv /\ written = 0 /\ \A l \in Kept : l = log
  BY LogInit DEF Init, Kept
<1>2. Chained(log) = {}
  BY <1>1 DEF LogInv, Chained, Numbered, Kept
<1> QED BY <1>1, <1>2 DEF InOrder, Init

(* Entries stand in the order of their writes, within a file and from the   *)
(* rotated files to the active one, whatever appends were interrupted       *)
(* (audit.py:202-206).                                                     *)
THEOREM EntriesStayInOrder == Spec => []InOrder
BY LogInit, LogSteps, OrderInit, OrderSteps, PTL DEF Spec

(***************************************************************************)
(* The chain.                                                              *)
(***************************************************************************)
(* The line x starts the chain of l, or goes on from the line before i.     *)
Follows(x, l, i) ==
  IF i = 1 \/ l[i - 1].shape = "legacy"
  THEN x.seq = 1 /\ x.prev = Genesis
  ELSE x.seq = l[i - 1].seq + 1 /\ x.prev = l[i - 1].id

(* Lines older than the chain, and then one chain without a gap.            *)
Linked(l) ==
  \A i \in DOMAIN l :
    /\ l[i].ended
    /\ \/ l[i].shape = "legacy" /\ \A h \in 1 .. i - 1 : l[h].shape = "legacy"
       \/ l[i].shape = "entry" /\ l[i].sound /\ Follows(l[i], l, i)

LinkInv == Clean => \A l \in Kept : Linked(l)

(* Where no append was interrupted, every line of the log has its newline.  *)
AllEnded == interrupted = 0 => \A i \in DOMAIN log : log[i].ended

(* At a rotation the log is empty until its first entry is written; what    *)
(* was deleted is on record, or about to be.                               *)
Named ==
  Clean =>
    /\ stage = "sweep" => log = <<>> /\ swept \subseteq recorded \cup deleted
    /\ stage = "sweep" => \A a \in archives : a.name <= written + 1
    /\ stage # "sweep" => swept \subseteq recorded
    /\ stage # "sweep" => \A a \in archives :
         a.name <= written /\ log # <<>> /\ log[1].from >= a.name

(* An interrupted append accounts for every lost entry, and for the half    *)
(* line that may cost the next one; an entry without newline was no        *)
(* completed write.                                                        *)
OpenLine == IF Open THEN 1 ELSE 0
Cost ==
  tampers = 0 /\ swept = {} =>
    /\ Cardinality(Lost) + OpenLine <= interrupted
    /\ Open /\ log[Len(log)].shape = "entry" => log[Len(log)].id \notin done

(* A clean chain goes on with the next entry.                               *)
LEMMA LinkGrows ==
  ASSUME LogInv, Linked(log), NEW from, NEW y, Fresh(y, from), y.ended, Puts(log', Len(log), y)
  PROVE  Linked(log')
<1>1. PICK n \in Nat : n = Len(log) /\ DOMAIN log = 1 .. n /\ DOMAIN log' = 1 .. n + 1
  BY DEF LogInv, TypeOK, Puts
<1>2. log'[n + 1] = y /\ \A i \in 1 .. n : log'[i] = log[i]
  BY <1>1 DEF Puts
<1>3. ASSUME NEW i \in 1 .. n
      PROVE  /\ log'[i].ended
             /\ \/ log'[i].shape = "legacy" /\ \A h \in 1 .. i - 1 : log'[h].shape = "legacy"
                \/ log'[i].shape = "entry" /\ log'[i].sound /\ Follows(log'[i], log', i)
  <2>1. log'[i] = log[i] /\ \A h \in 1 .. i - 1 : log'[h] = log[h]
    BY <1>2
  <2>2. i # 1 => log'[i - 1] = log[i - 1]
    BY <2>1
  <2>3. Follows(log[i], log, i) => Follows(log'[i], log', i)
    BY <2>1, <2>2 DEF Follows
  <2> QED BY <1>1, <2>1, <2>3 DEF Linked
<1>4. y.shape = "entry" /\ y.sound /\ y.seq = LastSeq + 1 /\ y.prev = LastHash
  BY DEF Fresh
<1>5. Follows(y, log', n + 1)
  <2>1. CASE n = 0
    <3>1. LastSeq = 0 /\ LastHash = Genesis
      BY <1>1, <2>1 DEF LastSeq, LastHash
    <3> QED BY <1>4, <2>1, <3>1 DEF Follows
  <2>2. CASE n # 0
    <3>1. log # <<>> /\ n \in 1 .. n /\ n \in DOMAIN log /\ n + 1 # 1 /\ (n + 1) - 1 = n /\ log'[n] = log[n]
      BY <1>1, <1>2, <2>2
    <3>2. CASE log[n].shape = "entry"
      <4>1. LastSeq = log[n].seq /\ LastHash = log[n].id
        BY <1>1, <3>1, <3>2 DEF LastSeq, LastHash, Last
      <4> QED BY <1>4, <3>1, <3>2, <4>1 DEF Follows
    <3>3. CASE log[n].shape = "legacy"
      <4>1. LastSeq = 0 /\ LastHash = Genesis
        BY <1>1, <3>1, <3>3 DEF LastSeq, LastHash, Last
      <4> QED BY <1>4, <3>1, <3>3, <4>1 DEF Follows
    <3> QED BY <3>1, <3>2, <3>3 DEF Linked
  <2> QED BY <2>1, <2>2
<1>6. ASSUME NEW i \in DOMAIN log'
      PROVE  /\ log'[i].ended
             /\ \/ log'[i].shape = "legacy" /\ \A h \in 1 .. i - 1 : log'[h].shape = "legacy"
                \/ log'[i].shape = "entry" /\ log'[i].sound /\ Follows(log'[i], log', i)
  <2>1. i \in 1 .. n \/ i = n + 1
    BY <1>1
  <2> QED BY <1>2, <1>3, <1>4, <1>5, <2>1
<1> QED BY <1>6 DEF Linked

(* A step that leaves the log clean interrupts no append, and finds it so.  *)
LEMMA CleanBefore ==
  ASSUME LogInv, [Next]_vars, Clean'
  PROVE  /\ Clean
         /\ \A from \in 0 .. MaxWrites : ~Breaks(from)
         /\ ~Crash /\ \A i \in DOMAIN log : ~(Edit(i) \/ Delete(i) \/ \E j \in DOMAIN log : Swap(i, j))
<1>0. /\ tampers \in Nat /\ interrupted \in Nat /\ tampers' = 0 /\ interrupted' = 0
      /\ log \in Seq(Shapes)
  BY BoundsAssumption DEF LogInv, TypeOK, Clean
<1>1. interrupted' # interrupted + 1 /\ tampers' # tampers + 1
  <2>1. \A n \in Nat : n + 1 # 0
    OBVIOUS
  <2> QED BY <1>0, <2>1
<1>2. \A from \in 0 .. MaxWrites : ~Breaks(from)
  BY <1>1 DEF Breaks
<1>3. ~Crash
  BY <1>1 DEF Crash
<1>4. \A i \in DOMAIN log : ~(Edit(i) \/ Delete(i) \/ \E j \in DOMAIN log : Swap(i, j))
  BY <1>0, <1>1, TamperDoes
<1>5. CASE AppendEntry \/ Mark \/ AppendAfterRotation
  <2>1. tampers' = tampers /\ \E from \in 0 .. MaxWrites : Completes(from) \/ Breaks(from)
    BY <1>5, WriteActions
  <2>2. interrupted' = interrupted
    BY <1>2, <2>1 DEF Completes
  <2> QED BY <1>0, <1>2, <1>3, <1>4, <2>1, <2>2 DEF Clean
<1>6. CASE Rotate \/ (\E a \in archives : Sweep(a) \/ Expire(a)) \/ UNCHANGED vars
  <2>1. tampers' = tampers /\ interrupted' = interrupted
    BY <1>6 DEF Rotate, Sweep, Expire, vars
  <2> QED BY <1>0, <1>2, <1>3, <1>4, <2>1 DEF Clean
<1> QED BY <1>3, <1>4, <1>5, <1>6 DEF Next, Rest

(* A completed write on a clean log.                                        *)
LEMMA CleanWrite ==
  ASSUME LogInv, LinkInv, Clean, NEW from, Completes(from)
  PROVE  ~Open /\ Linked(log) /\ \E y : Fresh(y, from) /\ y.ended /\ Puts(log', Len(log), y)
<1>1. Linked(log) /\ log \in Seq(Shapes)
  BY DEF LinkInv, Kept, LogInv, TypeOK
<1>2. ~Open
  <2>1. log # <<>> => Len(log) \in DOMAIN log
    BY <1>1
  <2> QED BY <1>1, <2>1 DEF Linked, Open
<1> QED BY <1>1, <1>2 DEF Completes

LEMMA LinkSteps == LogInv /\ LinkInv /\ [Next]_vars => LinkInv'
<1> SUFFICES ASSUME LogInv, LinkInv, [Next]_vars, Clean', NEW l \in Kept' PROVE Linked(l)
  BY DEF LinkInv
<1>0. Clean /\ \A k \in Kept : Linked(k)
  BY CleanBefore DEF LinkInv
<1>1. CASE AppendEntry \/ Mark \/ AppendAfterRotation
  <2>1. PICK from \in 0 .. MaxWrites : Completes(from)
    BY <1>1, WriteActions, CleanBefore
  <2>2. archives' = archives
    BY <1>1, WriteActions
  <2>3. Linked(log')
    BY <1>0, <2>1, CleanWrite, LinkGrows
  <2> QED BY <1>0, <2>2, <2>3 DEF Kept
<1>2. CASE Rotate
  <2>1. l \in Kept \/ l = <<>>
    BY <1>2, ArchiveDoes
  <2> QED BY <1>0, <2>1 DEF Linked
<1>3. CASE \E a \in archives : Sweep(a) \/ Expire(a)
  BY <1>0, <1>3, ArchiveDoes
<1>4. CASE UNCHANGED vars
  BY <1>0, <1>4 DEF vars, Kept
<1> QED BY <1>1, <1>2, <1>3, <1>4, CleanBefore DEF Next, Rest

LEMMA LinkInit == Init => LinkInv
<1> SUFFICES ASSUME Init PROVE LinkInv
  OBVIOUS
<1>1. PICK n \in 0 .. Legacy : log = [i \in 1 .. n |-> LegacyLine]
  BY DEF Init
<1>2. n \in Nat
  BY <1>1, BoundsAssumption
<1>3. \A i \in DOMAIN log : log[i].ended /\ log[i].shape = "legacy" /\ \A h \in 1 .. i - 1 : h \in DOMAIN log
  BY <1>1, <1>2, LegacyType
<1>4. Linked(log)
  BY <1>3 DEF Linked
<1> QED BY <1>4 DEF LinkInv, Init, Kept

LEMMA KeptAreLogs == ASSUME LogInv PROVE \A l \in Kept : l \in Seq(Shapes)
BY DEF LogInv, TypeOK, Kept, Files

(* From its first entry on, a chain has only entries.                       *)
LEMMA EntriesFollow ==
  ASSUME NEW l \in Seq(Shapes), Linked(l), NEW i \in Chained(l), NEW m \in DOMAIN l, i <= m
  PROVE  m \in Chained(l)
<1>1. i \in 1 .. Len(l) /\ m \in 1 .. Len(l) /\ l[i].shape = "entry"
  BY DEF Chained
<1>2. CASE l[m].shape = "legacy"
  <2>1. i # m /\ i \in 1 .. m - 1
    BY <1>1, <1>2
  <2> QED BY <1>1, <1>2, <2>1 DEF Linked
<1> QED BY <1>2 DEF Linked, Chained

LEMMA LinkedVerifies == ASSUME NEW l \in Seq(Shapes), Linked(l) PROVE VerifyOK(l)
<1> SUFFICES ASSUME NEW i \in DOMAIN l PROVE LineOK(l, i)
  BY DEF VerifyOK
<1>1. i \in 1 .. Len(l) /\ i \in Nat
  OBVIOUS
<1>2. CASE l[i].shape = "legacy"
  BY <1>2 DEF LineOK
<1>3. CASE l[i].shape = "entry"
  <2>1. l[i].sound /\ Follows(l[i], l, i)
    BY <1>3 DEF Linked
  <2>2. CASE i = 1 \/ l[i - 1].shape = "legacy"
    BY <1>3, <2>1, <2>2 DEF LineOK, NewSegment, Follows
  <2>3. CASE ~(i = 1 \/ l[i - 1].shape = "legacy")
    <3>1. PICK h : h = i - 1
      OBVIOUS
    <3>2. h \in 1 .. Len(l) /\ h \in DOMAIN l /\ h < i
      BY <1>1, <2>3, <3>1
    <3>3. h \in Chained(l)
      BY <2>3, <3>1, <3>2 DEF Linked, Chained
    <3>4. \A g \in Chained(l) : g < i => g <= h
      BY <1>1, <3>1 DEF Chained
    <3>5. l[i].seq = l[h].seq + 1 /\ l[i].prev = l[h].id
      BY <2>1, <2>3, <3>1 DEF Follows
    <3>6. Continues(l, i)
      BY <3>2, <3>3, <3>4, <3>5 DEF Continues
    <3> QED BY <1>3, <2>1, <3>6 DEF LineOK
  <2> QED BY <2>2, <2>3
<1> QED BY <1>2, <1>3 DEF Linked

(* Past the first entry of a chain, no line starts a segment.               *)
LEMMA LinkedGoesOn ==
  ASSUME LogInv, NEW l \in Kept, Linked(l), NEW i \in Chained(l), NEW h \in Chained(l), h < i
  PROVE  /\ i - 1 \in Chained(l) /\ l[i].prev = l[i - 1].id /\ ~NewSegment(l[i])
<1>1. l \in Seq(Shapes) /\ i \in 1 .. Len(l) /\ h \in 1 .. Len(l) /\ l[i].shape = "entry"
  BY KeptAreLogs DEF Chained
<1>2. i - 1 \in DOMAIN l /\ h <= i - 1 /\ i # 1
  BY <1>1
<1>3. i - 1 \in Chained(l)
  BY <1>1, <1>2, EntriesFollow
<1>4. l[i].seq = l[i - 1].seq + 1 /\ l[i].prev = l[i - 1].id
  BY <1>1, <1>2, <1>3 DEF Linked, Follows, Chained
<1>5. l[i - 1].seq \in 1 .. written /\ written \in Nat
  BY <1>2, <1>3, LastKnown DEF LogInv, Numbered, Chained
<1>6. l[i].seq # 1
  BY <1>4, <1>5
<1> QED BY <1>3, <1>4, <1>6 DEF NewSegment

(* A log nobody touched verifies at every moment a reader can look, in the  *)
(* middle of a rotation too, and so does every rotated file by itself      *)
(* (audit.py:143-149, 297-394).                                            *)
THEOREM UntouchedLogVerifies == Spec => []UntouchedVerifies
<1>1. LogInv /\ LinkInv => UntouchedVerifies
  BY KeptAreLogs, LinkedVerifies DEF LinkInv, UntouchedVerifies
<1> QED BY <1>1, LogInit, LogSteps, LinkInit, LinkSteps, PTL DEF Spec

(* Within a file an untouched chain shows no segment boundary: those are    *)
(* for concatenated files (audit.py:310-317).                              *)
THEOREM FilesAreOneSegment == Spec => []NoBoundaryInside
<1>1. LogInv /\ LinkInv => NoBoundaryInside
  <2> SUFFICES ASSUME LogInv, LinkInv, Clean, NEW l \in Kept, NEW i \in Boundaries(l) PROVE FALSE
    BY DEF NoBoundaryInside
  <2>1. PICK h \in Chained(l) : h < i
    BY DEF Boundaries
  <2>2. Linked(l) /\ i \in Chained(l) /\ NewSegment(l[i])
    BY DEF LinkInv, Boundaries
  <2> QED BY <2>1, <2>2, LinkedGoesOn
<1> QED BY <1>1, LogInit, LogSteps, LinkInit, LinkSteps, PTL DEF Spec

(***************************************************************************)
(* What is on record of the rotations.                                     *)
(***************************************************************************)
LEMMA NamedSteps == LogInv /\ LinkInv /\ Named /\ [Next]_vars => Named'
<1> SUFFICES ASSUME LogInv, LinkInv, Named, [Next]_vars, Clean' PROVE Named'
  BY DEF Named
<1>0. /\ Clean /\ written \in Nat /\ archives \subseteq Files /\ log \in Seq(Shapes)
      /\ \A a \in archives : a.name \in Nat
  <2>1. archives \subseteq Files /\ log \in Seq(Shapes)
    BY DEF LogInv, TypeOK
  <2> QED BY <2>1, CleanBefore, LastKnown DEF Files, Rotations
<1>1. CASE AppendEntry \/ AppendAfterRotation
  <2>1. /\ written' = written + 1 /\ stage # "sweep"
        /\ UNCHANGED <<archives, swept, recorded>>
    BY <1>1, WriteActions DEF AppendEntry, AppendAfterRotation
  <2>2. stage' = "idle"
    BY <1>1 DEF AppendEntry, AppendAfterRotation, WriteLine
  <2>3. PICK from \in 0 .. MaxWrites : Completes(from)
    BY <1>1, WriteActions, CleanBefore
  <2>4. PICK y : Puts(log', Len(log), y)
    BY <1>0, <2>3, CleanWrite
  <2>5. ASSUME NEW a \in archives'
        PROVE  a.name <= written' /\ log' # <<>> /\ log'[1].from >= a.name
    <3>1. a \in archives /\ a.name <= written /\ log # <<>> /\ log[1].from >= a.name
      BY <1>0, <2>1 DEF Named
    <3>2. PICK n \in Nat : n = Len(log)
      BY <1>0
    <3>3. n # 0
      BY <1>0, <3>1, <3>2
    <3>4. 1 \in 1 .. n /\ n + 1 # 0
      BY <3>2, <3>3
    <3>5. log'[1] = log[1] /\ Len(log') # 0
      BY <2>4, <3>2, <3>4 DEF Puts
    <3>6. log' # <<>>
      BY <3>5
    <3> QED BY <1>0, <2>1, <3>1, <3>5, <3>6
  <2>6. swept' \subseteq recorded'
    BY <1>0, <2>1 DEF Named
  <2> QED BY <2>2, <2>5, <2>6 DEF Named
<1>2. CASE Mark
  <2>1. /\ stage = "sweep" /\ written' = written + 1 /\ UNCHANGED <<archives, swept>>
        /\ recorded' = IF written + 1 \in done' THEN recorded \cup deleted ELSE recorded
    BY <1>2, WriteActions DEF Mark
  <2>2. written + 1 \in 0 .. MaxWrites
    BY <1>0, <1>2, BoundsAssumption DEF Mark, WriteLine
  <2>3. Completes(written + 1) /\ stage' = "entry"
    <3>1. WriteLine(written + 1, "entry")
      BY <1>2 DEF Mark
    <3> QED BY <2>2, <3>1, WriteDoes, CleanBefore
  <2>4. log = <<>> /\ swept \subseteq recorded \cup deleted /\ \A a \in archives : a.name <= written + 1
    BY <1>0, <2>1 DEF Named
  <2>5. PICK y : Fresh(y, written + 1) /\ Puts(log', Len(log), y)
    BY <1>0, <2>3, CleanWrite
  <2>6. Len(log) = 0 /\ 0 + 1 = 1
    BY <2>4
  <2>7. Len(log') = 1 /\ log'[1] = y /\ y.from = written + 1
    BY <2>5, <2>6 DEF Puts, Fresh
  <2>8. log' # <<>>
    BY <2>7
  <2>9. swept' \subseteq recorded'
    BY <2>1, <2>3, <2>4 DEF Completes
  <2>10. \A a \in archives' : a.name <= written' /\ log' # <<>> /\ log'[1].from >= a.name
    BY <1>0, <2>1, <2>4, <2>7, <2>8
  <2> QED BY <2>3, <2>9, <2>10 DEF Named
<1>3. CASE Rotate
  <2>1. /\ stage = "idle" /\ stage' = "sweep" /\ log' = <<>> /\ deleted' = {}
        /\ UNCHANGED <<written, swept, recorded>>
    BY <1>3 DEF Rotate
  <2>2. \A a \in archives' : a \in archives \/ a.name = written + 1
    BY <1>3, ArchiveDoes
  <2>3. swept \subseteq recorded /\ \A a \in archives : a.name <= written
    BY <1>0, <2>1 DEF Named
  <2>4. \A a \in archives' : a.name <= written' + 1
    BY <1>0, <2>1, <2>2, <2>3
  <2> QED BY <2>1, <2>3, <2>4 DEF Named
<1>4. ASSUME NEW a \in archives, Sweep(a) PROVE Named'
  <2>1. /\ stage = "sweep" /\ archives' \subseteq archives
        /\ deleted' = deleted \cup {a.name} /\ swept' = swept \cup {a.name}
        /\ UNCHANGED <<log, stage, written, recorded>>
    BY <1>4 DEF Sweep
  <2>2. log = <<>> /\ swept \subseteq recorded \cup deleted /\ \A b \in archives : b.name <= written + 1
    BY <1>0, <2>1 DEF Named
  <2> QED BY <2>1, <2>2 DEF Named
<1>5. ASSUME NEW a \in archives, Expire(a) PROVE Named'
  <2>1. stage = "idle" /\ UNCHANGED <<log, stage, written, swept, recorded>>
    BY <1>5 DEF Expire
  <2>2. \A b \in archives' : \E c \in archives : b.name = c.name
    BY <1>5, ArchiveDoes
  <2>3. /\ swept \subseteq recorded
        /\ \A c \in archives : c.name <= written /\ log # <<>> /\ log[1].from >= c.name
    BY <1>0, <2>1 DEF Named
  <2>4. \A b \in archives' : b.name <= written /\ log # <<>> /\ log[1].from >= b.name
    BY <2>2, <2>3
  <2> QED BY <2>1, <2>3, <2>4 DEF Named
<1>6. CASE UNCHANGED vars
  <2>1. UNCHANGED <<log, archives, stage, deleted, written, swept, recorded>>
    BY <1>6 DEF vars
  <2> QED BY <1>0, <2>1 DEF Named
<1> QED BY <1>1, <1>2, <1>3, <1>4, <1>5, <1>6, CleanBefore DEF Next, Rest

(* A rotation is itself on record once the append that made it is over: the *)
(* active file opens with an entry naming the newest archive, and every     *)
(* archive that was deleted is listed (audit.py:149-154).                  *)
THEOREM RotationsAreRecorded == Spec => []RotationRecorded
<1>1. Init => Named
  BY DEF Init, Named
<1>2. Named => RotationRecorded
  BY DEF Named, RotationRecorded
<1> QED BY <1>1, <1>2, LogInit, LogSteps, LinkInit, LinkSteps, NamedSteps, PTL DEF Spec

(***************************************************************************)
(* What tampering does to the chain.                                       *)
(***************************************************************************)
LEMMA EndedSteps == LogInv /\ AllEnded /\ [Next]_vars => AllEnded'
<1> SUFFICES ASSUME LogInv, AllEnded, [Next]_vars, interrupted' = 0, NEW i \in DOMAIN log'
             PROVE  log'[i].ended
  BY DEF AllEnded
<1>0. log \in Seq(Shapes) /\ interrupted \in Nat /\ interrupted' # interrupted + 1
  <2>1. \A n \in Nat : n + 1 # 0
    OBVIOUS
  <2> QED BY <2>1 DEF LogInv, TypeOK
<1>1. CASE AppendEntry \/ Mark \/ AppendAfterRotation
  <2>1. PICK from \in 0 .. MaxWrites : Completes(from)
    BY <1>0, <1>1, WriteActions DEF Breaks
  <2>2. \A k \in DOMAIN log : log[k].ended
    BY <2>1 DEF AllEnded, Completes
  <2>3. ~Open
    <3>1. log # <<>> => Len(log) \in DOMAIN log
      BY <1>0
    <3> QED BY <2>2, <3>1 DEF Open
  <2>4. PICK y : y.ended /\ Puts(log', Len(log), y)
    BY <2>1, <2>3 DEF Completes
  <2>5. PICK n \in Nat : n = Len(log) /\ DOMAIN log = 1 .. n
    BY <1>0
  <2>6. DOMAIN log' = 1 .. n + 1 /\ log'[n + 1] = y /\ \A k \in 1 .. n : log'[k] = log[k]
    BY <2>4, <2>5 DEF Puts
  <2>7. i \in 1 .. n \/ i = n + 1
    BY <2>6
  <2> QED BY <2>2, <2>4, <2>5, <2>6, <2>7
<1>2. CASE Rotate
  BY <1>2 DEF Rotate
<1>3. CASE (\E a \in archives : Sweep(a) \/ Expire(a)) \/ UNCHANGED vars
  BY <1>3 DEF Sweep, Expire, vars, AllEnded
<1>4. ASSUME NEW k \in DOMAIN log, Edit(k) \/ Delete(k) \/ \E j \in DOMAIN log : Swap(k, j)
      PROVE  log'[i].ended
  <2>1. interrupted' = interrupted /\ \E j \in DOMAIN log : log'[i].ended = log[j].ended
    BY <1>0, <1>4, TamperDoes
  <2> QED BY <2>1 DEF AllEnded
<1>5. CASE Crash
  BY <1>0, <1>5 DEF Crash
<1> QED BY <1>1, <1>2, <1>3, <1>4, <1>5 DEF Next, Rest

(* A line that continues a chain in one file continues it in every file     *)
(* that begins in the same way.                                            *)
LEMMA SameBeginning ==
  ASSUME NEW l \in Seq(Shapes), NEW s \in Seq(Shapes), NEW i \in DOMAIN l, i \in DOMAIN s,
         \A k \in 1 .. i : s[k] = l[k], LineOK(s, i)
  PROVE  LineOK(l, i)
<1>1. i \in Nat /\ s[i] = l[i] /\ i \in 1 .. Len(l) /\ i \in 1 .. Len(s)
  OBVIOUS
<1>2. \A h \in Nat : h < i => (h \in Chained(s) <=> h \in Chained(l))
  BY <1>1 DEF Chained
<1>3. ASSUME Continues(s, i) PROVE Continues(l, i)
  <2>1. PICK h \in Chained(s) :
          /\ h < i /\ \A g \in Chained(s) : g < i => g <= h
          /\ s[i].seq = s[h].seq + 1 /\ s[i].prev = s[h].id
    BY <1>3 DEF Continues
  <2>2. h \in 1 .. i /\ h \in Nat
    BY <1>1, <2>1 DEF Chained
  <2>3. h \in Chained(l) /\ s[h] = l[h]
    BY <1>2, <2>1, <2>2
  <2>4. \A g \in Chained(l) : g < i => g <= h
    <3>1. Chained(l) \subseteq Nat
      BY DEF Chained
    <3> QED BY <1>2, <2>1, <3>1
  <2> QED BY <1>1, <2>1, <2>3, <2>4 DEF Continues
<1> QED BY <1>1, <1>3 DEF LineOK

(* A later entry in an earlier entry's place is found out.                  *)
LEMMA Misplaced ==
  ASSUME LogInv, InOrder, tampers = 0, Linked(log), NEW i \in Chained(log), NEW m \in Chained(log),
         i < m, NEW s \in Seq(Shapes), s[i] = log[m], \A h \in 1 .. i - 1 : s[h] = log[h]
  PROVE  ~LineOK(s, i)
<1>0. log \in Kept /\ log \in Seq(Shapes)
  BY DEF Kept, LogInv, TypeOK
<1>1. m - 1 \in Chained(log) /\ log[m].prev = log[m - 1].id /\ ~NewSegment(log[m])
  BY <1>0, LinkedGoesOn
<1>2. log[m].shape = "entry"
  BY DEF Chained
<1>3. ASSUME Continues(s, i) PROVE FALSE
  <2>1. PICK h \in Chained(s) : h < i /\ s[i].prev = s[h].id
    BY <1>3 DEF Continues
  <2>2. i \in Nat /\ m \in Nat /\ h \in Nat \ {0} /\ i \in 1 .. Len(log)
    BY <1>0, <2>1 DEF Chained
  <2>3. h \in 1 .. i - 1 /\ h \in 1 .. Len(log) /\ h < m - 1
    BY <1>0, <2>1, <2>2
  <2>4. h \in Chained(log) /\ s[h] = log[h]
    BY <1>0, <2>1, <2>3 DEF Chained
  <2>5. log[h].id < log[m - 1].id
    BY <1>0, <1>1, <2>3, <2>4 DEF InOrder
  <2>6. log[h].id \in Nat /\ log[h].id = log[m - 1].id
    BY <1>0, <1>1, <2>1, <2>4, LastKnown DEF LogInv, Genuine, Chained
  <2> QED BY <2>5, <2>6
<1> QED BY <1>1, <1>2, <1>3 DEF LineOK

(* The line after i no longer continues the chain, once line i is forged,   *)
(* or is no entry any more.                                                *)
LEMMA Orphaned ==
  ASSUME LogInv, InOrder, tampers = 0, Linked(log), NEW i \in Chained(log), i < Len(log),
         NEW s \in Seq(Shapes), Len(s) = Len(log), \A k \in DOMAIN log \ {i} : s[k] = log[k],
         s[i].shape # "entry" \/ s[i].id = Forged
  PROVE  \E k \in DOMAIN s : ~LineOK(s, k)
<1>0. log \in Kept /\ log \in Seq(Shapes)
  BY DEF Kept, LogInv, TypeOK
<1>1. PICK n \in Nat : n = Len(log) /\ DOMAIN log = 1 .. n /\ DOMAIN s = 1 .. n /\ i \in 1 .. n /\ i < n
  BY <1>0 DEF Chained
<1>2. PICK m : m = i + 1
  OBVIOUS
<1>3. m \in 1 .. n /\ m \in Nat /\ i \in Nat /\ i < m /\ i <= m /\ m - 1 = i /\ m # i
  BY <1>1, <1>2
<1>4. m \in Chained(log)
  BY <1>0, <1>1, <1>3, EntriesFollow
<1>5. log[m].prev = log[i].id /\ ~NewSegment(log[m]) /\ s[m] = log[m] /\ log[m].shape = "entry"
  BY <1>0, <1>1, <1>3, <1>4, LinkedGoesOn DEF Chained
<1>6. ASSUME Continues(s, m) PROVE FALSE
  <2>1. PICK h \in Chained(s) : /\ h < m /\ \A g \in Chained(s) : g < m => g <= h
                                /\ log[m].prev = s[h].id
    BY <1>5, <1>6 DEF Continues
  <2>2. h \in 1 .. n /\ s[h].shape = "entry" /\ h <= i
    BY <1>1, <1>2, <2>1 DEF Chained
  <2>3. log[i].id \in 1 .. written /\ written \in Nat /\ written <= MaxWrites
    BY <1>0, LastKnown DEF LogInv, Genuine, Chained
  <2>4. CASE h = i
    <3>1. log[i].id = MaxWrites + tampers + 1
      BY <1>5, <2>1, <2>2, <2>4 DEF Forged
    <3> QED BY <2>3, <3>1, BoundsAssumption
  <2>5. CASE h # i
    <3>1. s[h] = log[h] /\ h \in Chained(log) /\ h < i
      BY <1>1, <2>2, <2>5 DEF Chained
    <3>2. log[h].id < log[i].id
      BY <1>0, <3>1 DEF InOrder
    <3>3. log[h].id = log[i].id
      BY <1>5, <2>1, <3>1
    <3> QED BY <2>3, <3>2, <3>3
  <2> QED BY <2>4, <2>5
<1>7. ~LineOK(s, m)
  BY <1>5, <1>6 DEF LineOK
<1> QED BY <1>1, <1>3, <1>7

LEMMA TamperShows ==
  ASSUME LogInv, LinkInv, InOrder, Clean, NEW i \in DOMAIN log,
         Edit(i) \/ Delete(i) \/ \E j \in DOMAIN log : Swap(i, j), endings' = endings
  PROVE  ~VerifyOK(log')
<1>0. PICK n \in Nat : n = Len(log) /\ DOMAIN log = 1 .. n /\ i \in 1 .. n /\ log \in Seq(Shapes)
  BY DEF LogInv, TypeOK
<1>1. Linked(log) /\ tampers = 0 /\ log' \in Seq(Shapes) /\ tampers < MaxTampers
  BY <1>0, TamperDoes DEF LinkInv, Kept, Clean
<1>2. i \in Chained(log)
  BY DEF Edit, Delete, Swap, IsEntry, Chained
<1>6. endings' # endings + 1
  BY DEF LogInv, TypeOK
<1>3. CASE Edit(i)
  <2>0. log[i] \in Shapes /\ log[i].shape = "entry" /\ Numbered(log[i], written)
    BY <1>0, <1>2 DEF Chained, LogInv, Kept
  <2>1. PICK x \in Shapes : x = log[i] /\ x.shape = "entry" /\ Numbered(x, written)
    BY <2>0
  <2>2. PICK y \in Edits(x) : /\ log' = [log EXCEPT ![i] = y]
                              /\ endings' = IF i = n /\ y.sound THEN endings + 1 ELSE endings
    BY <1>0, <1>3, <2>1 DEF Edit, Tampered
  <2>3. /\ y \in Shapes
        /\ \/ y.shape = "entry" /\ ~y.sound
           \/ y.shape = "entry" /\ y.id = Forged
           \/ y.shape = "legacy"
    BY <1>1, <2>1, EditsDo, LastKnown DEF LogInv, TypeOK
  <2>4. /\ DOMAIN log' = 1 .. n /\ Len(log') = n /\ log'[i] = y
        /\ \A k \in DOMAIN log \ {i} : log'[k] = log[k]
    BY <1>0, <2>2, <2>3, ExceptSeq
  <2>5. CASE y.shape = "entry" /\ ~y.sound
    <3>1. ~LineOK(log', i)
      BY <2>4, <2>5 DEF LineOK
    <3> QED BY <1>0, <2>4, <3>1 DEF VerifyOK
  <2>6. CASE ~(y.shape = "entry" /\ ~y.sound)
    <3>1. y.shape = "legacy" => y.sound
      <4>1. PICK l \in Shapes : l = LegacyLine /\ l.sound
        BY LegacyType DEF LegacyLine, Line, Shapes
      <4> QED BY <2>0, <2>1, <2>2, <4>1 DEF Edits, Shapes
    <3>2. y.sound
      BY <2>3, <2>6, <3>1
    <3>3. i < n
      BY <1>0, <1>6, <2>2, <3>2
    <3>4. y.shape # "entry" \/ y.id = Forged
      BY <2>3, <2>6
    <3>5. \E k \in DOMAIN log' : ~LineOK(log', k)
      BY <1>0, <1>1, <1>2, <2>4, <3>3, <3>4, Orphaned
    <3> QED BY <3>5 DEF VerifyOK
  <2> QED BY <2>5, <2>6
<1>4. CASE Delete(i)
  <2>1. log' = RemoveAt(log, i) /\ i < n
    BY <1>0, <1>4, <1>6 DEF Delete, Tampered
  <2>2. /\ Len(log') = n - 1
        /\ \A k \in 1 .. n - 1 : log'[k] = IF k < i THEN log[k] ELSE log[k + 1]
    BY <1>0, <2>1, RemovesLine
  <2>3. i + 1 \in DOMAIN log /\ i < i + 1 /\ i \in 1 .. n - 1 /\ i <= i + 1
    BY <1>0, <2>1
  <2>4. i + 1 \in Chained(log)
    BY <1>0, <1>1, <1>2, <2>3, EntriesFollow
  <2>5. log'[i] = log[i + 1] /\ \A h \in 1 .. i - 1 : log'[h] = log[h]
    <3>1. log'[i] = log[i + 1]
      BY <2>2, <2>3
    <3>2. \A h \in 1 .. i - 1 : h \in 1 .. n - 1 /\ h < i
      BY <1>0
    <3> QED BY <2>2, <3>1, <3>2
  <2>6. ~LineOK(log', i)
    BY <1>1, <1>2, <2>3, <2>4, <2>5, Misplaced
  <2>7. i \in DOMAIN log'
    BY <1>1, <2>2, <2>3
  <2> QED BY <2>6, <2>7 DEF VerifyOK
<1>5. ASSUME NEW j \in DOMAIN log, Swap(i, j) PROVE ~VerifyOK(log')
  <2>1. log' = [log EXCEPT ![i] = log[j], ![j] = log[i]] /\ i < j /\ j \in Chained(log)
    BY <1>5 DEF Swap, Tampered, IsEntry, Chained
  <2>2. i \in DOMAIN log' /\ log'[i] = log[j] /\ \A h \in 1 .. i - 1 : log'[h] = log[h]
    <3>1. j # i /\ \A h \in 1 .. i - 1 : h # i /\ h # j /\ h \in 1 .. n
      BY <1>0, <2>1
    <3> QED BY <1>0, <2>1, <3>1
  <2>3. ~LineOK(log', i)
    BY <1>1, <1>2, <2>1, <2>2, Misplaced
  <2> QED BY <2>2, <2>3 DEF VerifyOK
<1> QED BY <1>3, <1>4, <1>5

LEMMA TamperSteps ==
  LogInv /\ LinkInv /\ InOrder /\ AllEnded /\ TamperEvident /\ [Next]_vars => TamperEvident'
<1> SUFFICES ASSUME LogInv, LinkInv, InOrder, AllEnded, TamperEvident, [Next]_vars,
                    tampers' = 1, endings' = 0, interrupted' = 0, swept' = {}
             PROVE  \E l \in Kept' : ~VerifyOK(l)
  BY DEF TamperEvident, Shows
<1>0. /\ tampers \in Nat /\ endings \in 0 .. tampers /\ interrupted \in Nat /\ log \in Seq(Shapes)
      /\ interrupted' # interrupted + 1 /\ archives \subseteq Files
  <2>1. \A n \in Nat : n + 1 # 0
    OBVIOUS
  <2> QED BY <2>1, BoundsAssumption DEF LogInv, TypeOK
<1>1. CASE AppendEntry \/ Mark \/ AppendAfterRotation
  <2>1. PICK from \in 0 .. MaxWrites : Completes(from)
    BY <1>0, <1>1, WriteActions DEF Breaks
  <2>2. /\ UNCHANGED <<archives, tampers, endings, swept>> /\ interrupted' = interrupted
    BY <1>1, <2>1, WriteActions DEF Completes
  <2>3. PICK l \in Kept : ~VerifyOK(l)
    BY <2>2 DEF TamperEvident, Shows
  <2>4. CASE l = log
    <3>1. PICK i \in DOMAIN log : ~LineOK(log, i)
      BY <2>3, <2>4 DEF VerifyOK
    <3>2. PICK n \in Nat : n = Len(log) /\ DOMAIN log = 1 .. n /\ i \in 1 .. n
      BY <1>0
    <3>3. ~Open
      <4>1. \A k \in DOMAIN log : log[k].ended
        BY <2>2 DEF AllEnded
      <4>2. log # <<>> => Len(log) \in DOMAIN log
        BY <1>0
      <4> QED BY <4>1, <4>2 DEF Open
    <3>4. PICK y : Puts(log', Len(log), y)
      BY <2>1, <3>3 DEF Completes
    <3>5. log' \in Seq(Shapes) /\ i \in DOMAIN log' /\ \A k \in 1 .. i : log'[k] = log[k]
      BY <3>2, <3>4 DEF Puts
    <3>6. ~LineOK(log', i)
      BY <1>0, <3>1, <3>5, SameBeginning
    <3> QED BY <3>5, <3>6 DEF VerifyOK, Kept
  <2>5. CASE l # log
    BY <2>2, <2>3, <2>5 DEF Kept
  <2> QED BY <2>4, <2>5
<1>2. CASE Rotate
  <2>1. Kept' = Kept \cup {<<>>} /\ UNCHANGED <<tampers, endings, swept, interrupted>>
    BY <1>2, ArchiveDoes DEF Rotate
  <2> QED BY <2>1 DEF TamperEvident, Shows
<1>3. ASSUME NEW a \in archives, Sweep(a) PROVE FALSE
  BY <1>3 DEF Sweep
<1>4. ASSUME NEW a \in archives, Expire(a) PROVE \E l \in Kept' : ~VerifyOK(l)
  <2>1. Kept' = Kept /\ UNCHANGED <<tampers, endings, swept, interrupted>>
    BY <1>4, ArchiveDoes DEF Expire
  <2> QED BY <2>1 DEF TamperEvident, Shows
<1>5. ASSUME NEW i \in DOMAIN log, Edit(i) \/ Delete(i) \/ \E j \in DOMAIN log : Swap(i, j)
      PROVE  \E l \in Kept' : ~VerifyOK(l)
  <2>1. tampers' = tampers + 1 /\ interrupted' = interrupted /\ (endings' = endings \/ endings' = endings + 1)
    BY <1>5, TamperDoes
  <2>2. tampers = 0 /\ endings' = endings
    BY <1>0, <2>1
  <2>3. Clean
    BY <2>1, <2>2 DEF Clean
  <2>4. ~VerifyOK(log')
    BY <1>5, <2>2, <2>3, TamperShows
  <2> QED BY <2>4 DEF Kept
<1>6. CASE Crash
  BY <1>0, <1>6 DEF Crash
<1>7. CASE UNCHANGED vars
  BY <1>7 DEF vars, TamperEvident, Shows, Kept
<1> QED BY <1>1, <1>2, <1>3, <1>4, <1>5, <1>6, <1>7 DEF Next, Rest

(* One line edited, with the old hash or with one reckoned anew, made the   *)
(* first of a segment, stripped of its chain fields, deleted or moved makes *)
(* verify fail at once, unless it was the last line of the file; and for as *)
(* long as no archive is removed, however many entries are appended after  *)
(* it, and wherever rotations move its file (audit.py:112-118, 343-386).    *)
THEOREM TamperingShows == Spec => []TamperEvident
<1>1. Init => TamperEvident /\ AllEnded
  <2> SUFFICES ASSUME Init PROVE TamperEvident /\ AllEnded
    OBVIOUS
  <2>1. LinkInv /\ Clean
    BY LinkInit DEF Init, Clean
  <2> QED BY <2>1 DEF Init, TamperEvident, AllEnded, LinkInv, Linked, Kept
<1> QED
  BY <1>1, LogInit, LogSteps, LinkInit, LinkSteps, OrderInit, OrderSteps, EndedSteps, TamperSteps,
     PTL DEF Spec

(***************************************************************************)
(* What an interruption costs.                                             *)
(***************************************************************************)
(* A write costs no completed entry but, on half a line, its own.           *)
LEMMA WriteLoses ==
  ASSUME LogInv, Cost, tampers = 0, swept = {}, NEW from, Completes(from) \/ Breaks(from),
         archives' = archives
  PROVE  Lost' \subseteq Lost \cup (done' \ done)
<1>0. log \in Seq(Shapes)
  BY DEF LogInv, TypeOK
<1>1. SUFFICES ASSUME NEW n \in done, NEW l \in Kept, NEW i \in Chained(l), l[i].id = n
               PROVE  \E k \in Kept' : \E j \in Chained(k) : k[j].id = n
  BY DEF Lost
<1>2. CASE l # log
  BY <1>1, <1>2 DEF Kept
<1>3. CASE l = log
  <2>1. i \in 1 .. Len(log) /\ log[i].shape = "entry"
    BY <1>0, <1>3 DEF Chained
  <2>2. CASE log' = log
    BY <1>1, <1>3, <2>2 DEF Kept
  <2>3. ASSUME NEW k \in Nat, NEW x \in Shapes, Puts(log', k, x), DOMAIN log' = 1 .. k + 1,
               \/ k = Len(log) /\ ~Open
               \/ k = Len(log) - 1 /\ Open
        PROVE  \E h \in Kept' : \E j \in Chained(h) : h[j].id = n
    <3>1. CASE i \in 1 .. k
      <4>1. log'[i] = log[i] /\ i \in DOMAIN log'
        BY <2>3, <3>1 DEF Puts
      <4>2. i \in Chained(log') /\ log'[i].id = n /\ log' \in Kept'
        BY <1>1, <1>3, <2>1, <4>1 DEF Chained, Kept
      <4> QED BY <4>2
    <3>2. CASE i \notin 1 .. k
      <4>1. PICK m \in Nat : m = Len(log)
        BY <1>0
      <4>2. i = m /\ k # m
        BY <2>1, <2>3, <3>2, <4>1
      <4>3. Open /\ i = Len(log)
        BY <2>3, <4>1, <4>2
      <4>4. log[Len(log)].id \notin done
        BY <2>1, <4>3 DEF Cost
      <4> QED BY <1>1, <1>3, <4>3, <4>4
    <3> QED BY <3>1, <3>2
  <2> QED BY <2>2, <2>3, Written
<1> QED BY <1>2, <1>3

(* The last line after a write.                                             *)
LEMMA WriteOpens ==
  ASSUME LogInv, NEW from, written + 1 \notin done
  PROVE  /\ Completes(from) => ~Open'
         /\ Completes(from) /\ ~Open => \E i \in Chained(log') : log'[i].id = written + 1
         /\ Breaks(from) /\ log' # log /\ Open' /\ log'[Len(log')].shape = "entry"
              => log'[Len(log')].id \notin done
<1>0. Len(log) \in Nat /\ log \in Seq(Shapes)
  BY DEF LogInv, TypeOK
<1>1. ASSUME NEW k, NEW x, Puts(log', k, x) PROVE Len(log') = k + 1 /\ log'[Len(log')] = x
  BY <1>1 DEF Puts
<1>2. Garbage(TRUE).ended /\ Garbage(FALSE).shape = "garbage"
  BY GarbageType
<1>3. ASSUME Completes(from), Open PROVE ~Open'
  <2>1. log'[Len(log')] = Garbage(TRUE)
    BY <1>1, <1>3 DEF Completes
  <2> QED BY <1>2, <2>1 DEF Open
<1>4. ASSUME Completes(from), ~Open
      PROVE  ~Open' /\ \E i \in Chained(log') : log'[i].id = written + 1
  <2>1. PICK y : Fresh(y, from) /\ y.ended /\ Puts(log', Len(log), y)
    BY <1>4 DEF Completes
  <2>2. log'[Len(log')] = y /\ Len(log') = Len(log) + 1 /\ log' \in Seq(Shapes)
    BY <1>1, <2>1 DEF Puts
  <2>3. Len(log') \in DOMAIN log'
    <3>1. \A n \in Nat : n + 1 \in 1 .. n + 1
      OBVIOUS
    <3> QED BY <1>0, <2>2, <3>1
  <2> QED BY <2>1, <2>2, <2>3 DEF Open, Chained, Fresh
<1>5. ASSUME Breaks(from), log' # log, log'[Len(log')].shape = "entry"
      PROVE  log'[Len(log')].id \notin done
  <2>1. CASE Puts(log', Len(log) - 1, Garbage(FALSE))
    BY <1>1, <1>2, <1>5, <2>1
  <2>2. CASE \E y : (y = Garbage(FALSE) \/ Fresh(y, from)) /\ Puts(log', Len(log), y)
    <3>1. PICK y : (y = Garbage(FALSE) \/ Fresh(y, from)) /\ Puts(log', Len(log), y)
      BY <2>2
    <3>2. log'[Len(log')] = y
      BY <1>1, <3>1
    <3> QED BY <1>2, <1>5, <3>1, <3>2 DEF Fresh
  <2> QED BY <1>5, <2>1, <2>2 DEF Breaks
<1> QED BY <1>3, <1>4, <1>5

LEMMA CostSteps == LogInv /\ Cost /\ [Next]_vars => Cost'
<1> SUFFICES ASSUME LogInv, Cost, [Next]_vars, tampers' = 0, swept' = {} PROVE Cost'
  BY DEF Cost
<1>0. /\ tampers \in Nat /\ interrupted \in Nat /\ written \in Nat /\ log \in Seq(Shapes)
      /\ done \subseteq 1 .. written /\ tampers' # tampers + 1
  <2>1. \A n \in Nat : n + 1 # 0
    OBVIOUS
  <2> QED BY <2>1, BoundsAssumption DEF LogInv, TypeOK
<1>1. /\ IsFiniteSet(Lost) /\ Cardinality(Lost) \in Nat /\ written + 1 \notin done
      /\ OpenLine \in {0, 1}
  <2>1. IsFiniteSet(1 .. written) /\ Lost \in SUBSET (1 .. written)
    <3>1. IsFiniteSet(1 .. written)
      BY <1>0, FS_Interval
    <3>2. Lost \subseteq done
      BY DEF Lost
    <3> QED BY <1>0, <3>1, <3>2
  <2>2. written + 1 \notin 1 .. written
    BY <1>0
  <2> QED BY <1>0, <2>1, <2>2, FS_Subset, FS_CardinalityType DEF OpenLine
<1>2. ASSUME NEW S \in SUBSET Lost PROVE Cardinality(S) \in Nat /\ Cardinality(S) <= Cardinality(Lost)
  BY <1>1, <1>2, FS_Subset, FS_CardinalityType
<1>3. CASE AppendEntry \/ Mark \/ AppendAfterRotation
  <2>1. PICK from \in 0 .. MaxWrites : Completes(from) \/ Breaks(from)
    BY <1>3, WriteActions
  <2>2. archives' = archives /\ tampers = 0 /\ swept = {}
    BY <1>3, WriteActions
  <2>3. /\ Cardinality(Lost) + OpenLine <= interrupted
        /\ Open /\ log[Len(log)].shape = "entry" => log[Len(log)].id \notin done
    BY <2>2 DEF Cost
  <2>4. Lost' \subseteq Lost \cup (done' \ done)
    BY <2>1, <2>2, WriteLoses
  <2>5. CASE Breaks(from)
    <3>1. done' = done /\ interrupted' = interrupted + 1 /\ Lost' \subseteq Lost
      BY <2>4, <2>5 DEF Breaks
    <3>2. OpenLine' \in {0, 1}
      BY DEF OpenLine
    <3>3. Cardinality(Lost') + OpenLine' <= interrupted'
      <4>1. PICK c : c = Cardinality(Lost')
        OBVIOUS
      <4>2. c \in Nat /\ c <= Cardinality(Lost)
        BY <1>2, <3>1, <4>1
      <4>3. PICK d \in Nat : d = Cardinality(Lost) /\ c <= d /\ d <= interrupted
        BY <1>0, <1>1, <2>3, <4>2
      <4>4. PICK o \in {0, 1} : o = OpenLine'
        BY <3>2
      <4>5. c + o <= interrupted + 1
        BY <1>0, <4>2, <4>3
      <4> QED BY <3>1, <4>1, <4>4, <4>5
    <3>4. Open' /\ log'[Len(log')].shape = "entry" => log'[Len(log')].id \notin done'
      <4>1. CASE log' = log
        BY <2>3, <3>1, <4>1 DEF Open
      <4>2. CASE log' # log
        BY <1>1, <2>5, <3>1, <4>2, WriteOpens
      <4> QED BY <4>1, <4>2
    <3> QED BY <3>3, <3>4 DEF Cost
  <2>6. CASE Completes(from)
    <3>1. interrupted' = interrupted /\ done' = done \cup {written + 1} /\ ~Open'
      BY <1>1, <2>6, WriteOpens DEF Completes
    <3>2. OpenLine' = 0
      BY <3>1 DEF OpenLine
    <3>3. CASE Open
      <4>1. Lost' \in SUBSET (Lost \cup {written + 1})
        BY <2>4, <3>1
      <4>2. /\ IsFiniteSet(Lost \cup {written + 1})
            /\ \/ Cardinality(Lost \cup {written + 1}) = Cardinality(Lost) + 1
               \/ Cardinality(Lost \cup {written + 1}) = Cardinality(Lost)
        BY <1>1, FS_AddElement
      <4>3. PICK c : c = Cardinality(Lost')
        OBVIOUS
      <4>4. c \in Nat /\ c <= Cardinality(Lost \cup {written + 1})
        BY <4>1, <4>2, <4>3, FS_Subset, FS_CardinalityType
      <4>5. c <= Cardinality(Lost) + 1
        BY <1>1, <4>2, <4>4
      <4>6. OpenLine = 1
        BY <3>3 DEF OpenLine
      <4>7. c + OpenLine' <= interrupted'
        BY <1>0, <1>1, <2>3, <3>1, <3>2, <4>4, <4>5, <4>6
      <4> QED BY <3>1, <4>3, <4>7 DEF Cost
    <3>4. CASE ~Open
      <4>1. PICK i \in Chained(log') : log'[i].id = written + 1
        BY <1>1, <2>6, <3>4, WriteOpens
      <4>2. written + 1 \notin Lost'
        BY <4>1 DEF Lost, Kept
      <4>3. Lost' \in SUBSET Lost
        BY <2>4, <3>1, <4>2
      <4>4. PICK c : c = Cardinality(Lost')
        OBVIOUS
      <4>5. c \in Nat /\ c <= Cardinality(Lost)
        BY <1>2, <4>3, <4>4
      <4>6. c + OpenLine' <= interrupted'
        BY <1>0, <1>1, <2>3, <3>1, <3>2, <4>5
      <4> QED BY <3>1, <4>4, <4>6 DEF Cost
    <3> QED BY <3>3, <3>4
  <2> QED BY <2>1, <2>5, <2>6
<1>4. ASSUME UNCHANGED done, Kept' = Kept \/ Kept' = Kept \cup {<<>>} PROVE Lost' = Lost
  <2>1. Chained(<<>>) = {}
    BY DEF Chained
  <2>2. ASSUME NEW n
        PROVE  (\A l \in Kept' : \A i \in Chained(l) : l[i].id # n)
                 <=> (\A l \in Kept : \A i \in Chained(l) : l[i].id # n)
    BY <1>4, <2>1
  <2> QED BY <1>4, <2>2 DEF Lost
<1>5. CASE Rotate
  <2>1. log' = <<>> /\ UNCHANGED <<tampers, swept, interrupted, done>>
    BY <1>5 DEF Rotate
  <2>2. Lost' = Lost
    BY <1>4, <1>5, <2>1, ArchiveDoes
  <2>3. ~Open' /\ OpenLine' = 0
    BY <2>1 DEF Open, OpenLine
  <2>4. Cardinality(Lost) + OpenLine <= interrupted
    BY <2>1 DEF Cost
  <2>5. Cardinality(Lost) + 0 <= interrupted
    BY <1>0, <1>1, <2>4
  <2> QED BY <2>1, <2>2, <2>3, <2>5 DEF Cost
<1>6. ASSUME NEW a \in archives, Sweep(a) PROVE FALSE
  BY <1>6 DEF Sweep
<1>7. ASSUME (\E a \in archives : Expire(a)) \/ Crash \/ UNCHANGED vars PROVE Cost'
  <2>1. /\ UNCHANGED <<log, tampers, swept, done>> /\ Kept' = Kept
        /\ interrupted' = interrupted \/ interrupted' = interrupted + 1
    <3>1. CASE \E a \in archives : Expire(a)
      BY <3>1, ArchiveDoes DEF Expire
    <3>2. CASE Crash \/ UNCHANGED vars
      BY <3>2 DEF Crash, vars, Kept
    <3> QED BY <1>7, <3>1, <3>2
  <2>2. Lost' = Lost /\ OpenLine' = OpenLine /\ (Open' <=> Open)
    BY <1>4, <2>1 DEF OpenLine, Open
  <2>3. Cardinality(Lost) + OpenLine <= interrupted
    BY <2>1 DEF Cost
  <2>4. Cardinality(Lost) + OpenLine <= interrupted'
    BY <1>0, <1>1, <2>1, <2>3
  <2> QED BY <2>1, <2>2, <2>4 DEF Cost
<1>8. ASSUME NEW i \in DOMAIN log, Edit(i) \/ Delete(i) \/ \E j \in DOMAIN log : Swap(i, j)
      PROVE  FALSE
  BY <1>0, <1>8, TamperDoes
<1> QED BY <1>3, <1>5, <1>6, <1>7, <1>8 DEF Next, Rest

(* As long as no archive is removed, an append that stopped on its way costs *)
(* at most one completed entry of another: the one whose text lands on its *)
(* half line (audit.py:133-139, 191-200).                                  *)
THEOREM InterruptionsCostOne == Spec => []InterruptionCostsOne
<1>1. Init => Cost
  <2> SUFFICES ASSUME Init PROVE Cost
    OBVIOUS
  <2>1. Lost = {} /\ Cardinality(Lost) = 0
    BY FS_EmptySet DEF Init, Lost
  <2>2. \A i \in DOMAIN log : log[i].ended
    BY LinkInit DEF Init, Clean, LinkInv, Linked, Kept
  <2>3. log # <<>> => Len(log) \in DOMAIN log
    BY LogInit DEF LogInv, TypeOK
  <2>4. ~Open
    BY <2>2, <2>3 DEF Open
  <2> QED BY <2>1, <2>4 DEF Cost, OpenLine, Init
<1>2. LogInv /\ Cost => InterruptionCostsOne
  <2> SUFFICES ASSUME LogInv, Cost, tampers = 0, swept = {} PROVE Cardinality(Lost) <= interrupted
    BY DEF InterruptionCostsOne
  <2>1. written \in Nat /\ interrupted \in Nat /\ done \subseteq 1 .. written
    BY DEF LogInv, TypeOK
  <2>2. Cardinality(Lost) \in Nat
    <3>1. IsFiniteSet(1 .. written)
      BY <2>1, FS_Interval
    <3>2. Lost \subseteq done
      BY DEF Lost
    <3>3. Lost \in SUBSET (1 .. written)
      BY <2>1, <3>2
    <3>4. IsFiniteSet(Lost)
      BY <3>1, <3>3, FS_Subset
    <3> QED BY <3>4, FS_CardinalityType
  <2>3. Cardinality(Lost) + OpenLine <= interrupted /\ OpenLine \in {0, 1}
    BY DEF Cost, OpenLine
  <2> QED BY <2>1, <2>2, <2>3
<1> QED BY <1>1, <1>2, LogInit, LogSteps, CostSteps, PTL DEF Spec
=============================================================================
