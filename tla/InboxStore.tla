----------------------------- MODULE InboxStore -----------------------------
(***************************************************************************)
(* The JSONL archive behind the inbox (src/mcp_telegram/inbox_store.py), as *)
(* the rest of the daemon sees it: one file per (chat, topic), one asyncio  *)
(* lock for all of them, and every file operation run in a worker thread    *)
(* while that lock is held.                                                 *)
(*                                                                          *)
(* A record is its message id: Telegram numbers the messages of a chat in   *)
(* increasing order and Telethon hands them over in that order, so the      *)
(* records of a file are determined by the set of their ids.  How a file    *)
(* operation goes line by line (half lines, tmp files, a thread that        *)
(* outlives its caller) is the subject of module InboxFile; here some       *)
(* records are Unreadable, whichever way that came about.                   *)
(***************************************************************************)
EXTENDS Integers, Sequences, FiniteSets

CONSTANTS Topic,     \* the (chat_id, topic_id) pairs, one file each
          Proxy,     \* the callers that wait for a reply
          NoProxy,   \* the caller of an operation nobody waits for (any more)
          Cap,       \* InboxStore.max_records; 0 switches retention off
          Unreadable \* the messages whose line in the file is not JSON when
                     \* it is read back: a line separator in the text, or the
                     \* half line of a failed append in front of it

ASSUME StoreAssumption == /\ NoProxy \notin Proxy
                          /\ Cap \in Nat
                          /\ Unreadable \in SUBSET Nat

VARIABLES disk,      \* disk[t]: ids of the records in the file of t
          lockq      \* operations on InboxStore._lock, in FIFO order; the
                     \* head holds the lock and runs in the worker thread

storeVars == <<disk, lockq>>

(* asyncio.Lock wakes its waiters first come, first served.  An operation   *)
(* carries the id it is about: the new record of an append, the last_id of  *)
(* an ack (0 for a read), and the proxy that awaits its result.             *)
StoreOp == [kind : {"append", "read", "ack"}, topic : Topic, id : Nat,
            by : Proxy \cup {NoProxy}]

StoreTypeOK == /\ disk \in [Topic -> SUBSET Nat]
               /\ lockq \in Seq(StoreOp)

StoreInit == /\ disk = [t \in Topic |-> {}]
             /\ lockq = <<>>

-----------------------------------------------------------------------------
(* The n newest of a set of records: good[-cap:], and deque(maxlen=n).      *)
Newest(S, n) == {x \in S : Cardinality({y \in S : y > x}) < n}

(* Retention: only a positive cap drops records, the oldest first.          *)
Retain(S) == IF Cap > 0 THEN Newest(S, Cap) ELSE S

(* A trim counts lines, also the ones it could not read.                    *)
AppendSync(t, m) == disk' = [disk EXCEPT ![t] = Retain(@ \cup {m})]

(* The record is written, and then fsync, the trim's read or its rewrite    *)
(* raises, or the process dies.                                             *)
AppendUntrimmed(t, m) == disk' = [disk EXCEPT ![t] = @ \cup {m}]

Readable(t) == disk[t] \ Unreadable

(* A reader skips the lines it cannot read.                                 *)
ReadAllSync(t) == Retain(Readable(t))

\* MUTANT of AckSync: the file is emptied, whatever last_id is.
AckSyncTruncates(t, last) == disk' = [disk EXCEPT ![t] = {}]

(* An ack keeps the newer records, of those that can be read: the others go *)
(* to the quarantine file.                                                  *)
AckSync(t, last) == disk' = [disk EXCEPT ![t] = {m \in Readable(t) : m > last}]

-----------------------------------------------------------------------------
(* `async with self._lock`: queue behind whoever came first ...             *)
Submit(kind, t, m, p) ==
  lockq' = Append(lockq, [kind |-> kind, topic |-> t, id |-> m, by |-> p])

(* ... and leave the lock to the next in line once the thread has returned. *)
Release == lockq' = Tail(lockq)

(* The caller is gone; the operation still runs, for nobody.                *)
Orphan(p) == lockq' = [i \in DOMAIN lockq |->
                         IF lockq[i].by = p THEN [lockq[i] EXCEPT !.by = NoProxy]
                                            ELSE lockq[i]]
=============================================================================
