----------------------------- MODULE AuditChain -----------------------------
(***************************************************************************)
(* src/audit.py: the hash-chained log, its rotation and retention, and     *)
(* verify_chain.  All writes hold the chain's lock, so one append is under *)
(* way at a time; a reader (GET /audit/verify) may come between any two of *)
(* its steps.  The writer keeps no state between appends: a crash and an   *)
(* OSError in the middle of a write both end the append where it is.       *)
(*                                                                         *)
(* A line is known by the number of the write that made it, and that       *)
(* number stands for its entry_hash: SHA-256 tells different entries       *)
(* apart.  A line whose hash was reckoned anew after an edit has a number  *)
(* that no write has.  `sound` says that the stored hash is that of the    *)
(* content.                                                                *)
(***************************************************************************)
EXTENDS Naturals, Sequences, SequencesExt

CONSTANTS
  MaxWrites,     \* bound: lines ever written
  MaxTampers,    \* bound: lines edited, deleted or moved behind its back
  Legacy,        \* lines of an audit.log older than the chain
  Retention,     \* whether config/audit.yaml enables rotation
  Faults         \* "io": an append may stop anywhere, the removal of an
                 \* archive may fail

ASSUME BoundsAssumption == MaxWrites \in Nat /\ MaxTampers \in Nat /\ Legacy \in Nat
ASSUME ModeAssumption == Retention \in BOOLEAN /\ Faults \subseteq {"io"}

VARIABLES
  log,       \* the active file; <<>> when it does not exist
  archives,  \* rotated files: [name, lines, expired]
  stage,     \* where the append under way is
  deleted,   \* its list of archives deleted so far
  written,   \* writes begun
  done,      \* history: lines whose write was completed
  swept,     \* history: archives ever deleted
  recorded,  \* history: those of them a rotation entry lists
  tampers,   \* history: how often the active file was tampered with
  endings,   \* history: how often so that its last line was lost or forged
  interrupted  \* history: appends that stopped on their way

vars == <<log, archives, stage, deleted, written, done, swept, recorded, tampers, endings,
          interrupted>>

Genesis == 0
Writes == 1 .. MaxWrites
Rotations == 1 .. MaxWrites

(* shape: a chained entry, a JSON line without chain fields, or a line that *)
(* is not JSON.  ended: its newline was written.  from: the archive a      *)
(* rotation entry names, 0 for any other entry.                            *)
Line(n, seq, prev, from) ==
  [shape |-> "entry", id |-> n, seq |-> seq, prev |-> prev, from |-> from,
   sound |-> TRUE, ended |-> TRUE]
LegacyLine == [Line(Genesis, 0, Genesis, 0) EXCEPT !.shape = "legacy"]
Garbage(ended) == [Line(Genesis, 0, Genesis, 0) EXCEPT !.shape = "garbage", !.ended = ended]

Init ==
  /\ log \in {[i \in 1 .. n |-> LegacyLine] : n \in 0 .. Legacy}
  /\ archives = {} /\ stage = "idle" /\ deleted = {}
  /\ written = 0 /\ done = {} /\ swept = {} /\ recorded = {} /\ tampers = 0
  /\ endings = 0 /\ interrupted = 0

-----------------------------------------------------------------------------
(* _current_state: sequence and hash of the last line, if it is an entry.  *)
LastSeq == IF log # <<>> /\ Last(log).shape = "entry" THEN Last(log).seq ELSE 0
LastHash == IF log # <<>> /\ Last(log).shape = "entry" THEN Last(log).id ELSE Genesis

(* Mutants: the sequence goes on from the last line, but not the hash;      *)
(* every entry starts a segment of its own.                                *)
NewLineUnlinked(from) == Line(written + 1, LastSeq + 1, Genesis, from)
NewLineAlone(from) == Line(written + 1, 1, Genesis, from)

NewLine(from) == Line(written + 1, LastSeq + 1, LastHash, from)

(* Appending text to the file: after a line without a newline it becomes    *)
(* part of that line, and two entries on a line are not JSON.              *)
Extend(line) ==
  IF log # <<>> /\ ~Last(log).ended
  THEN Append(Front(log), Garbage(line.ended))
  ELSE Append(log, line)

(* What a write that stops halfway leaves: nothing, half an entry, or an    *)
(* entry without its newline.                                              *)
Torn(line) == {log, Extend(Garbage(FALSE)), Extend([line EXCEPT !.ended = FALSE])}

(* _write_locked.  A torn write ends the append.                           *)
WriteLine(from, next) ==
  /\ written < MaxWrites
  /\ written' = written + 1
  /\ \/ /\ log' = Extend(NewLine(from))
        /\ done' = done \cup {written + 1}
        /\ stage' = next
        /\ UNCHANGED interrupted
     \/ /\ "io" \in Faults
        /\ log' \in Torn(NewLine(from))
        /\ stage' = "idle"
        /\ interrupted' = interrupted + 1
        /\ UNCHANGED done

(* append, when nothing is due for rotation.                               *)
AppendEntry ==
  /\ stage = "idle"
  /\ WriteLine(0, "idle")
  /\ UNCHANGED <<archives, deleted, swept, recorded, tampers, endings>>

(* The active file under its archive name; when nothing was written for    *)
(* retention_days it is expired at once.                                   *)
Archived(expired) == [name |-> written + 1, lines |-> log, expired |-> expired]

(* Mutants: the file is copied, and goes on being written; the archive's    *)
(* name is not a fresh one; a missing file is rotated, too.                *)
RotateCopy ==
  /\ Retention /\ stage = "idle" /\ log # <<>> /\ written + 1 < MaxWrites
  /\ \E expired \in BOOLEAN : archives' = archives \cup {Archived(expired)}
  /\ deleted' = {} /\ stage' = "sweep"
  /\ UNCHANGED <<log, written, done, swept, recorded, tampers, endings, interrupted>>
RotateOver ==
  /\ Retention /\ stage = "idle" /\ log # <<>> /\ written + 1 < MaxWrites
  /\ \E expired \in BOOLEAN : archives' = {Archived(expired)}
  /\ log' = <<>> /\ deleted' = {} /\ stage' = "sweep"
  /\ UNCHANGED <<written, done, swept, recorded, tampers, endings, interrupted>>
RotateMissing ==
  /\ Retention /\ stage = "idle" /\ written + 1 < MaxWrites
  /\ \E expired \in BOOLEAN : archives' = archives \cup {Archived(expired)}
  /\ log' = <<>> /\ deleted' = {} /\ stage' = "sweep"
  /\ UNCHANGED <<written, done, swept, recorded, tampers, endings, interrupted>>

(* append, when the file is old or large enough: it is renamed first.  The  *)
(* bound leaves room for the two entries that follow.                      *)
Rotate ==
  /\ Retention /\ stage = "idle" /\ log # <<>> /\ written + 1 < MaxWrites
  /\ \E expired \in BOOLEAN : archives' = archives \cup {Archived(expired)}
  /\ log' = <<>> /\ deleted' = {} /\ stage' = "sweep"
  /\ UNCHANGED <<written, done, swept, recorded, tampers, endings, interrupted>>

(* _sweep_retention_locked: one expired archive is removed.                *)
Sweep(a) ==
  /\ stage = "sweep" /\ a.expired
  /\ archives' = archives \ {a}
  /\ deleted' = deleted \cup {a.name} /\ swept' = swept \cup {a.name}
  /\ UNCHANGED <<log, stage, written, done, recorded, tampers, endings, interrupted>>

(* Mutant: the list of what was deleted starts anew at the rotation entry.  *)
MarkNothing ==
  /\ stage = "sweep" /\ \A a \in archives : ~a.expired
  /\ WriteLine(written + 1, "entry")
  /\ deleted' = {}
  /\ UNCHANGED <<archives, swept, recorded, tampers, endings>>

(* When none is left, the rotation entry opens the new file and lists them. *)
Mark ==
  /\ stage = "sweep" /\ ("io" \in Faults \/ \A a \in archives : ~a.expired)
  /\ WriteLine(written + 1, "entry")
  /\ recorded' = IF written + 1 \in done' THEN recorded \cup deleted ELSE recorded
  /\ deleted' = {}
  /\ UNCHANGED <<archives, swept, tampers, endings>>

(* ... followed by the entry that was to be appended.                      *)
AppendAfterRotation ==
  /\ stage = "entry"
  /\ WriteLine(0, "idle")
  /\ UNCHANGED <<archives, deleted, swept, recorded, tampers, endings>>

(* The process dies between two steps of a rotation.                       *)
Crash ==
  /\ "io" \in Faults /\ stage # "idle"
  /\ stage' = "idle" /\ deleted' = {}
  /\ interrupted' = interrupted + 1
  /\ UNCHANGED <<log, archives, written, done, swept, recorded, tampers, endings>>

(* An archive grows older than retention_days.                             *)
Expire(a) ==
  /\ stage = "idle" /\ ~a.expired
  /\ archives' = (archives \ {a}) \cup {[a EXCEPT !.expired = TRUE]}
  /\ UNCHANGED <<log, stage, deleted, written, done, swept, recorded, tampers, endings, interrupted>>

-----------------------------------------------------------------------------
(* Somebody edits, deletes or moves a chained line of the active file       *)
(* (legacy lines are not verified).  Without its last line a chain is just *)
(* a shorter one, and nothing is chained yet to the hash of that line.     *)
Tampered(lines, ending) ==
  /\ stage = "idle" /\ tampers < MaxTampers
  /\ log' = lines /\ log' # log
  /\ tampers' = tampers + 1 /\ endings' = IF ending THEN endings + 1 ELSE endings
  /\ UNCHANGED <<archives, stage, deleted, written, done, swept, recorded, interrupted>>

(* What an edit makes of a line: its content is another, with the old hash  *)
(* or with the right one; it claims to be the first of a segment; or its   *)
(* chain fields are gone, and it passes for a legacy line.                 *)
Forged == MaxWrites + tampers + 1
Edits(line) ==
  { [line EXCEPT !.sound = FALSE],
    [line EXCEPT !.id = Forged, !.sound = TRUE],
    [line EXCEPT !.id = Forged, !.sound = TRUE, !.seq = 1, !.prev = Genesis],
    [LegacyLine EXCEPT !.ended = line.ended] }

IsEntry(i) == log[i].shape = "entry"
Edit(i) ==
  /\ IsEntry(i)
  /\ \E line \in Edits(log[i]) :
       Tampered([log EXCEPT ![i] = line], i = Len(log) /\ line.sound)
Delete(i) == IsEntry(i) /\ Tampered(RemoveAt(log, i), i = Len(log))
Swap(i, j) ==
  /\ IsEntry(i) /\ IsEntry(j) /\ i < j
  /\ Tampered([log EXCEPT ![i] = log[j], ![j] = log[i]], FALSE)

(* The bound MaxWrites is reached: the model, not the program, rests here.  *)
Rest == written = MaxWrites /\ stage = "idle" /\ UNCHANGED vars

Next ==
  \/ Rest \/ AppendEntry \/ Rotate \/ Mark \/ AppendAfterRotation \/ Crash
  \/ \E a \in archives : Sweep(a) \/ Expire(a)
  \/ \E i \in DOMAIN log : Edit(i) \/ Delete(i)
  \/ \E i, j \in DOMAIN log : Swap(i, j)

Spec == Init /\ [][Next]_vars

-----------------------------------------------------------------------------
(* verify_chain, as what it accepts of each line.                          *)
Chained(lines) == {i \in DOMAIN lines : lines[i].shape = "entry"}

(* The chained lines before line i; verify compares with the last of them. *)
NewSegment(line) == line.seq = 1 /\ line.prev = Genesis
Continues(lines, i) ==
  \E h \in Chained(lines) :
    /\ h < i /\ \A g \in Chained(lines) : g < i => g <= h
    /\ lines[i].seq = lines[h].seq + 1 /\ lines[i].prev = lines[h].id

(* Mutant: the content is not compared with its hash.                      *)
LineOKUnhashed(lines, i) ==
  /\ lines[i].shape # "garbage"
  /\ lines[i].shape = "entry" => NewSegment(lines[i]) \/ Continues(lines, i)

LineOK(lines, i) ==
  /\ lines[i].shape # "garbage"
  /\ lines[i].shape = "entry" =>
       lines[i].sound /\ (NewSegment(lines[i]) \/ Continues(lines, i))

VerifyOK(lines) == \A i \in DOMAIN lines : LineOK(lines, i)

(* segment_boundaries.                                                     *)
Boundaries(lines) ==
  {i \in Chained(lines) : NewSegment(lines[i]) /\ \E h \in Chained(lines) : h < i}

-----------------------------------------------------------------------------
Hashes == 0 .. MaxWrites + MaxTampers
Shapes == [shape: {"entry", "legacy", "garbage"}, id: Hashes, seq: 0 .. MaxWrites,
           prev: Hashes, from: 0 .. MaxWrites, sound: BOOLEAN, ended: BOOLEAN]
Files == [name: Rotations, lines: Seq(Shapes), expired: BOOLEAN]

(* Types; only the last line can lack its newline, and a rotated file is    *)
(* never empty (audit.py:191-248).                                         *)
TypeOK ==
  /\ log \in Seq(Shapes)
  /\ tampers = 0 => \A i \in 1 .. Len(log) - 1 : log[i].ended
  /\ archives \subseteq Files /\ \A a \in archives : a.lines # <<>>
  /\ stage \in {"idle", "sweep", "entry"}
  /\ deleted \subseteq swept /\ recorded \subseteq swept /\ swept \subseteq Rotations
  /\ written \in 0 .. MaxWrites /\ done \subseteq 1 .. written
  /\ tampers \in 0 .. MaxTampers /\ endings \in 0 .. tampers /\ interrupted \in Nat

Kept == {log} \cup {a.lines : a \in archives}
Clean == tampers = 0 /\ interrupted = 0

(* A log nobody touched verifies, at any moment a reader can look, and so   *)
(* does every rotated file by itself (audit.py:143-149).                   *)
UntouchedVerifies == Clean => \A lines \in Kept : VerifyOK(lines)

(* ... and shows no segment boundary: those are for concatenated files      *)
(* (audit.py:310-317).                                                     *)
NoBoundaryInside == Clean => \A lines \in Kept : Boundaries(lines) = {}

Shows == \E lines \in Kept : ~VerifyOK(lines)

(* An edit, a deletion or a move of a line that others have been chained to *)
(* is found at once, even if its hash is reckoned anew or its chain fields *)
(* are removed, and it stays so however many entries are appended after it *)
(* and wherever its file is moved by rotations; of the last line only an   *)
(* edit that leaves the old hash is (audit.py:112-118).                    *)
TamperEvident == tampers = 1 /\ endings = 0 /\ interrupted = 0 /\ swept = {} => Shows

(* Editing, deleting or reordering any past line is detectable              *)
(* (audit.py:112-119; violated by what is done to the last line).          *)
EveryTamperingShows == tampers = 1 /\ interrupted = 0 /\ swept = {} => Shows

(* Completed entries that cannot be read back.                             *)
Lost == {n \in done : \A lines \in Kept : \A i \in Chained(lines) : lines[i].id # n}

(* Every entry whose append returned can be read back, in the active file   *)
(* or in an archive that was not removed, but for one at most for each     *)
(* append that stopped on its way (audit.py:133-139, 191-206).             *)
InterruptionCostsOne == tampers = 0 /\ swept = {} => Cardinality(Lost) <= interrupted

(* Entries stand in the order of their writes, within a file and across     *)
(* files, whatever was interrupted (audit.py:202-206).                     *)
InOrder ==
  tampers = 0 =>
    /\ \A lines \in Kept : \A i, j \in Chained(lines) : i < j => lines[i].id < lines[j].id
    /\ \A a \in archives, i \in Chained(log) : \A j \in Chained(a.lines) :
         a.lines[j].id < log[i].id

(* A rotation is itself on record, once the append that made it is over:    *)
(* the new file opens with an entry that names the newest archive, and     *)
(* every archive that was deleted is listed (audit.py:149-154).            *)
RotationRecorded ==
  stage = "idle" /\ Clean =>
    /\ swept \subseteq recorded
    /\ \A a \in archives : log # <<>> /\ log[1].from >= a.name
=============================================================================
