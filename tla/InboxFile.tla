----------------------------- MODULE InboxFile ------------------------------
(***************************************************************************)
(* One file of the archive, at the level of lines, inodes and worker        *)
(* threads (src/mcp_telegram/inbox_store.py: _append_sync, _ack_sync,       *)
(* _rewrite, and the lock around them).  Module InboxStore takes an append  *)
(* or an ack as one step; here is what happens inside it when a write is    *)
(* cut short, fsync fails, the process dies, or the request that started    *)
(* the thread is cancelled and gives the lock back while the thread runs.   *)
(*                                                                          *)
(* A line is the positive id of a record that parses, or the negative id of *)
(* one of which only a piece is there: json.loads rejects it.  Bytes are    *)
(* counted in lines (records of one length), blank lines are left out.      *)
(***************************************************************************)
EXTENDS Integers, Sequences, FiniteSets

CONSTANTS Thread,       \* the worker threads of asyncio.to_thread
          None,         \* no thread
          Cap,          \* InboxStore.max_records
          Wide,         \* ids of the messages whose text has a U+2028 or such:
                        \* json.dumps keeps it, str.splitlines cuts there
          MaxMsgs,      \* bound: messages to be stored
          MaxErrors,    \* bound: OSErrors of a write or an fsync
          MaxCrashes,   \* bound: deaths of the daemon
          MaxTimeouts   \* bound: dispatches cancelled by ipc_server.py:151

ASSUME FileAssumption ==
  /\ IsFiniteSet(Thread) /\ None \notin Thread
  /\ Cap \in Nat /\ Wide \subseteq Nat
  /\ {MaxMsgs, MaxErrors, MaxCrashes, MaxTimeouts} \subseteq Nat

(* One inode per path and one per handle; 0 is a path that does not exist.  *)
Inode == 1 .. Cardinality(Thread) + 2

VARIABLES data,       \* data[i]: what inode i holds
          file, tmp,  \* the inodes of inbox_*.jsonl and inbox_*.jsonl.tmp
          quar,       \* the lines in inbox_*.jsonl.corrupt
          lock,       \* the thread whose caller holds InboxStore._lock
          run,        \* run[th]: what thread th is doing
          up,         \* the daemon is past its start-up
          posted,     \* the last message id Telegram has given out
          errors, crashes, timeouts,
          stored,     \* history: ids whose append() returned
          cut,        \* history: the newest last_id of an ack() that began
          glued,      \* history: ids written behind a line without newline
          overlap     \* history: an operation began beside a thread that its
                      \* own caller had left

fsVars == <<data, file, tmp, quar>>
counters == <<posted, errors, crashes, timeouts>>
history == <<stored, cut, glued, overlap>>
vars == <<fsVars, lock, run, up, counters, history>>

Line == (-MaxMsgs .. MaxMsgs) \ {0}

(* open: the last line has no newline yet.  bad: it ends inside a UTF-8     *)
(* character, so that read_text(encoding="utf-8") raises on the file.       *)
Content == [lines : Seq(Line), open : BOOLEAN, bad : BOOLEAN]
Blank == [lines |-> <<>>, open |-> FALSE, bad |-> FALSE]

(* Where a thread stands: the write of an append and its look at the cap;   *)
(* the read of an ack and its quarantine; the three steps of _rewrite.      *)
Pc == {"idle", "write", "trim", "scan", "quarantine", "open", "fill", "replace"}

Idle == [pc |-> "idle", op |-> "none", id |-> 0, buf |-> <<>>, junk |-> {}, ino |-> 0]

Run == [pc : Pc, op : {"none", "append", "ack"}, id : 0 .. MaxMsgs,
        buf : Seq(Line), junk : SUBSET Line, ino : {0} \cup Inode]

TypeOK ==
  /\ data \in [Inode -> Content]
  /\ file \in {0} \cup Inode /\ tmp \in {0} \cup Inode
  /\ quar \in SUBSET (-MaxMsgs .. -1)
  /\ lock \in Thread \cup {None}
  /\ run \in [Thread -> Run]
  /\ up \in BOOLEAN /\ overlap \in BOOLEAN
  /\ posted \in 0 .. MaxMsgs /\ errors \in 0 .. MaxErrors
  /\ crashes \in 0 .. MaxCrashes /\ timeouts \in 0 .. MaxTimeouts
  /\ stored \in SUBSET (1 .. posted) /\ cut \in 0 .. posted
  /\ glued \in SUBSET (1 .. posted)

Init ==
  /\ data = [i \in Inode |-> Blank]
  /\ file = 0 /\ tmp = 0 /\ quar = {}
  /\ lock = None
  /\ run = [th \in Thread |-> Idle]
  /\ up = TRUE
  /\ posted = 0 /\ errors = 0 /\ crashes = 0 /\ timeouts = 0
  /\ stored = {} /\ cut = 0 /\ glued = {} /\ overlap = FALSE

-----------------------------------------------------------------------------
(* Lines and files.                                                         *)

Lines(i) == IF i = 0 THEN <<>> ELSE data[i].lines
Bad(i) == i # 0 /\ data[i].bad
IsRecord(x) == x > 0
Records(s) == {x \in {s[i] : i \in DOMAIN s} : IsRecord(x)}

\* MUTANT of Junk: what is not kept is corrupt.
JunkAll(s) == {s[i] : i \in DOMAIN s}

Junk(s) == {x \in {s[i] : i \in DOMAIN s} : ~IsRecord(x)}

\* MUTANT of LastOf: the first n instead of the last.
FirstOf(s, n) == SubSeq(s, 1, n)

\* The last n lines.
LastOf(s, n) == SubSeq(s, Len(s) - n + 1, Len(s))

(* What splitlines() will make of the record, and of a part of it.          *)
Written(m) == IF m \in Wide THEN <<-m, -m>> ELSE <<m>>
Torn(m) == {<<-m>>, Written(m)}

(* f.write on a handle opened with "a": behind a line that has no newline,  *)
(* the first line of L becomes a part of that line.                         *)
Extend(f, L, open, bad) ==
  LET n == Len(f.lines) IN
  [lines |-> IF f.open
               THEN Append(SubSeq(f.lines, 1, n - 1),
                           IF IsRecord(f.lines[n]) THEN -f.lines[n] ELSE f.lines[n])
                    \o Tail(L)
               ELSE f.lines \o L,
   open |-> open, bad |-> f.bad \/ bad]

(* f.write at the start of a handle opened with "w": what another handle    *)
(* has written further on stays.                                            *)
Overlay(L, s) == L \o SubSeq(s, Len(L) + 1, Len(s))

\* An inode for a new file: no path and no handle has it.
Fresh == CHOOSE i \in Inode : i \notin {file, tmp} \cup {run[th].ino : th \in Thread}

-----------------------------------------------------------------------------
(* The lock and the ends of an operation.                                   *)

Begin(th, op, id, pc) ==
  /\ up
  /\ lock = None
  /\ run[th].pc = "idle"
  /\ lock' = th
  /\ run' = [run EXCEPT ![th] = [Idle EXCEPT !.pc = pc, !.op = op, !.id = id]]
  /\ overlap' = (overlap \/ \E o \in Thread : run[o].pc # "idle")

(* The thread returns or raises; its caller, if it is still there, leaves   *)
(* the lock.                                                                *)
End(th) == /\ run' = [run EXCEPT ![th] = Idle]
           /\ lock' = IF lock = th THEN None ELSE lock

Goto(th, pc) == run' = [run EXCEPT ![th].pc = pc] /\ UNCHANGED lock

(* append() comes to an end without an exception.                           *)
Stored(th) == stored' = IF run[th].op = "append" THEN stored \cup {run[th].id} ELSE stored

Error == errors < MaxErrors /\ errors' = errors + 1

-----------------------------------------------------------------------------
(* append()                                                                 *)

StartAppend(th) ==
  /\ posted < MaxMsgs
  /\ posted' = posted + 1
  /\ Begin(th, "append", posted + 1, "write")
  /\ UNCHANGED <<fsVars, up, errors, crashes, timeouts, stored, cut, glued>>

(* The bytes that reach the file; open("a") creates it.                     *)
Put(m, L, open, bad) ==
  LET i == IF file = 0 THEN Fresh ELSE file
      f == IF file = 0 THEN Blank ELSE data[file]
  IN /\ file' = i
     /\ data' = [data EXCEPT ![i] = Extend(f, L, open, bad)]
     /\ glued' = IF f.open THEN glued \cup {m} ELSE glued

(* A write cut short leaves a piece of the record, perhaps inside a         *)
(* character, or the record without its newline.                            *)
PutPart(m) == \E L \in Torn(m), bad \in BOOLEAN :
                /\ bad => L = <<-m>>
                /\ Put(m, L, TRUE, bad)

Write(th) ==
  /\ run[th].pc = "write"
  /\ Put(run[th].id, Written(run[th].id), FALSE, FALSE)
  /\ Goto(th, "trim")
  /\ UNCHANGED <<tmp, quar, up, counters, stored, cut, overlap>>

(* ENOSPC in the middle of the write, or an fsync that fails when all of    *)
(* the record is in the file: append() raises.                              *)
WriteError(th) ==
  /\ run[th].pc = "write"
  /\ Error
  /\ \/ PutPart(run[th].id)
     \/ Put(run[th].id, Written(run[th].id), FALSE, FALSE)
     \/ UNCHANGED <<data, file, glued>>
  /\ End(th)
  /\ UNCHANGED <<tmp, quar, up, posted, crashes, timeouts, stored, cut, overlap>>

\* MUTANT of Trim: one record too many is let through.
TrimLate(th) ==
  /\ run[th].pc = "trim"
  /\ UNCHANGED <<fsVars, up, counters, cut, glued, overlap>>
  /\ \/ /\ Cap > 0 /\ Bad(file)
        /\ End(th) /\ UNCHANGED stored
     \/ /\ Cap = 0 \/ (~Bad(file) /\ Len(Lines(file)) <= Cap + 1)
        /\ End(th) /\ Stored(th)
     \/ /\ Cap > 0 /\ ~Bad(file) /\ Len(Lines(file)) > Cap + 1
        /\ run' = [run EXCEPT ![th].pc = "open", ![th].buf = LastOf(Lines(file), Cap)]
        /\ UNCHANGED <<lock, stored>>

(* Retention: a file that cannot be decoded makes append() raise with the   *)
(* record in it; a short one ends it; of a long one the last Cap lines,     *)
(* corrupt ones among them, are to be kept.                                 *)
Trim(th) ==
  /\ run[th].pc = "trim"
  /\ UNCHANGED <<fsVars, up, counters, cut, glued, overlap>>
  /\ \/ /\ Cap > 0 /\ Bad(file)
        /\ End(th) /\ UNCHANGED stored
     \/ /\ Cap = 0 \/ (~Bad(file) /\ Len(Lines(file)) <= Cap)
        /\ End(th) /\ Stored(th)
     \/ /\ Cap > 0 /\ ~Bad(file) /\ Len(Lines(file)) > Cap
        /\ run' = [run EXCEPT ![th].pc = "open", ![th].buf = LastOf(Lines(file), Cap)]
        /\ UNCHANGED <<lock, stored>>

-----------------------------------------------------------------------------
(* ack()                                                                    *)

StartAck(th, last) ==
  /\ Begin(th, "ack", last, "scan")
  /\ cut' = IF last > cut THEN last ELSE cut
  /\ UNCHANGED <<fsVars, up, counters, stored, glued>>

\* MUTANT of Survivors: the acknowledged record itself stays.
SurvivorsAtLeast(s, last) == SelectSeq(s, LAMBDA x : x >= last)

(* The records an ack leaves, line after line; a corrupt line never is one. *)
Survivors(s, last) ==
  LET keep[n \in 0 .. Len(s)] ==
        IF n = 0 THEN <<>>
        ELSE IF s[n] > last THEN Append(keep[n - 1], s[n])
        ELSE keep[n - 1]
  IN keep[Len(s)]

\* MUTANT of AckScan: corrupt lines are dropped without a trace.
AckScanNoQuarantine(th) ==
  /\ run[th].pc = "scan"
  /\ IF file = 0 \/ Bad(file)
     THEN End(th)
     ELSE /\ run' = [run EXCEPT ![th].pc = "open",
                                ![th].buf = Survivors(Lines(file), run[th].id)]
          /\ UNCHANGED lock
  /\ UNCHANGED <<fsVars, up, counters, history>>

(* No file: nothing to do.  An undecodable file: ack() raises.              *)
AckScan(th) ==
  LET junk == Junk(Lines(file)) IN
  /\ run[th].pc = "scan"
  /\ IF file = 0 \/ Bad(file)
     THEN End(th)
     ELSE /\ run' = [run EXCEPT ![th].pc = IF junk = {} THEN "open" ELSE "quarantine",
                                ![th].buf = Survivors(Lines(file), run[th].id),
                                ![th].junk = junk]
          /\ UNCHANGED lock
  /\ UNCHANGED <<fsVars, up, counters, history>>

Quarantine(th) ==
  /\ run[th].pc = "quarantine"
  /\ quar' = quar \cup run[th].junk
  /\ Goto(th, "open")
  /\ UNCHANGED <<data, file, tmp, up, counters, history>>

-----------------------------------------------------------------------------
(* _rewrite()                                                               *)

\* MUTANT of OpenTmp: a tmp file that is there already keeps its content.
OpenTmpAppends(th) ==
  LET i == IF tmp = 0 THEN Fresh ELSE tmp IN
  /\ run[th].pc = "open"
  /\ tmp' = i
  /\ data' = [data EXCEPT ![i] = IF tmp = 0 THEN Blank ELSE @]
  /\ run' = [run EXCEPT ![th].pc = "fill", ![th].ino = i]
  /\ UNCHANGED <<file, quar, lock, up, counters, history>>

(* open("w") on a name all rewrites of this file share: a tmp file that is  *)
(* there already is truncated, whoever is writing to it.                    *)
OpenTmp(th) ==
  LET i == IF tmp = 0 THEN Fresh ELSE tmp IN
  /\ run[th].pc = "open"
  /\ tmp' = i
  /\ data' = [data EXCEPT ![i] = Blank]
  /\ run' = [run EXCEPT ![th].pc = "fill", ![th].ino = i]
  /\ UNCHANGED <<file, quar, lock, up, counters, history>>

Fill(th) ==
  /\ run[th].pc = "fill"
  /\ data' = [data EXCEPT ![run[th].ino].lines = Overlay(run[th].buf, @)]
  /\ Goto(th, "replace")
  /\ UNCHANGED <<file, tmp, quar, up, counters, history>>

(* tmp.replace(path) moves whatever file has the tmp name now.              *)
Replace(th) ==
  /\ run[th].pc = "replace"
  /\ tmp # 0
  /\ file' = tmp /\ tmp' = 0
  /\ data' = [data EXCEPT ![file] = Blank]
  /\ Stored(th)
  /\ End(th)
  /\ UNCHANGED <<quar, up, counters, cut, glued, overlap>>

(* FileNotFoundError: another thread has moved it already.                  *)
ReplaceGone(th) ==
  /\ run[th].pc = "replace"
  /\ tmp = 0
  /\ End(th)
  /\ UNCHANGED <<fsVars, up, counters, history>>

(* An OSError on the quarantine, or on the tmp file when some of the lines  *)
(* are in it: the operation raises, the tmp file stays.                     *)
RewriteError(th) ==
  /\ run[th].pc \in {"quarantine", "open", "fill"}
  /\ Error
  /\ \/ UNCHANGED data
     \/ /\ run[th].pc = "fill"
        /\ \E k \in 1 .. Len(run[th].buf) :
             data' = [data EXCEPT ![run[th].ino].lines =
                        Overlay(SubSeq(run[th].buf, 1, k), @)]
  /\ End(th)
  /\ UNCHANGED <<file, tmp, quar, up, posted, crashes, timeouts, history>>

-----------------------------------------------------------------------------
(* What happens to the operations from outside.                             *)

(* The dispatch of an inbox_ack takes longer than DISPATCH_TIMEOUT and is   *)
(* cancelled: `async with self._lock` is left, the thread goes on.          *)
Timeout(th) ==
  /\ timeouts < MaxTimeouts
  /\ lock = th
  /\ run[th].op = "ack"
  /\ lock' = None
  /\ timeouts' = timeouts + 1
  /\ UNCHANGED <<fsVars, run, up, posted, errors, crashes, history>>

(* The daemon dies between two steps or in the middle of a write.           *)
Crash ==
  /\ up
  /\ crashes < MaxCrashes
  /\ crashes' = crashes + 1
  /\ up' = FALSE
  /\ lock' = None
  /\ run' = [th \in Thread |-> Idle]
  /\ \/ UNCHANGED <<data, file, glued>>
     \/ \E th \in Thread : run[th].pc = "write" /\ PutPart(run[th].id)
  /\ UNCHANGED <<tmp, quar, posted, errors, timeouts, stored, cut, overlap>>

(* restore_from_store reads every file before the daemon serves anything;   *)
(* one that cannot be decoded ends it (and systemd starts the next one).    *)
Start ==
  /\ ~up
  /\ ~Bad(file)
  /\ up' = TRUE
  /\ UNCHANGED <<fsVars, lock, run, counters, history>>

-----------------------------------------------------------------------------
Next == \/ \E th \in Thread :
             \/ StartAppend(th) \/ Write(th) \/ WriteError(th) \/ Trim(th)
             \/ \E last \in 1 .. posted : StartAck(th, last)
             \/ AckScan(th) \/ Quarantine(th)
             \/ OpenTmp(th) \/ Fill(th) \/ Replace(th) \/ ReplaceGone(th)
             \/ RewriteError(th) \/ Timeout(th)
        \/ Crash
        \/ Start

Spec == Init /\ [][Next]_vars

-----------------------------------------------------------------------------
(* Properties.  ~overlap: no operation has begun beside an abandoned thread. *)

(* How many lines have been written, at most, after those of m.             *)
Later(m) == posted - m + Cardinality(Wide \cap (m + 1 .. posted))

Due(m) == m > cut /\ (Cap = 0 \/ Later(m) < Cap)

(* Durability: through short writes, failing fsyncs, crashes in any step of *)
(* a rewrite and a rewrite that is never finished, a record whose append    *)
(* returned is in the file until an ack or the cap asks for its removal,    *)
(* unless it was cut in two or glued to a torn line when it was written.    *)
Kept == ~overlap => \A m \in stored \ (Wide \cup glued) :
                      Due(m) => m \in Records(Lines(file))

(* The records of a file are in the order of their ids, each there once;    *)
(* a half-finished tmp file never shines through (inbox_store.py:53-60).    *)
InOrder == ~overlap =>
             \A i, j \in DOMAIN Lines(file) :
               i < j /\ IsRecord(Lines(file)[i]) /\ IsRecord(Lines(file)[j])
                 => Lines(file)[i] < Lines(file)[j]

Rewrites(th) == run[th].pc = "replace" /\ run'[th].pc = "idle" /\ up'

(* What thread th puts in the place of the file is made of the present one: *)
(* a trim leaves its last Cap lines, an ack all records after last_id and   *)
(* no other line (in which order, InOrder says).                            *)
PutsTheCurrent(th) ==
  LET old == Lines(file)
      new == Lines(file)'
  IN /\ run[th].op = "append" => new = SubSeq(old, Len(old) - Cap + 1, Len(old))
     /\ run[th].op # "append" =>
          {new[i] : i \in DOMAIN new} = {x \in Records(old) : x > run[th].id}

(* A rewrite is worth what a single step on the present file would be: what *)
(* it read, steps ago, is what it replaces (inbox_store.py:22-28, 68-89).   *)
RewriteIsCurrent ==
  [][~overlap => \A th \in Thread : Rewrites(th) => PutsTheCurrent(th)]_vars

(* An ack takes a corrupt line out of the file only when the quarantine has *)
(* it, also after a crash between the two (inbox_store.py:84-89).           *)
AckKeepsJunk ==
  [][~overlap => \A th \in Thread : Rewrites(th) /\ run[th].op = "ack" =>
       Junk(Lines(file)) \subseteq quar']_vars

(* Whenever an append returns, the file is within the cap, however many     *)
(* appends failed before it.                                                *)
WithinCap ==
  [][~overlap /\ stored' # stored => (Cap = 0 \/ Len(Lines(file)') <= Cap)]_vars

-----------------------------------------------------------------------------
(* A claim of the documentation that the code does not keep.                *)

(* "ack via tmp->replace (atomic)" (README.md:29): what an ack leaves is    *)
(* the file it replaces, less the records up to last_id.                    *)
AckIsAtomic ==
  [][\A th \in Thread : Rewrites(th) /\ run[th].op = "ack" /\ file' # file =>
       Lines(file)' = SelectSeq(Lines(file), LAMBDA x : x > run[th].id)]_vars
=============================================================================
