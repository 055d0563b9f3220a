---------------------------- MODULE InboxEngine -----------------------------
(***************************************************************************)
(* InboxEngine (src/mcp_telegram/inbox.py): a bounded RAM buffer and an     *)
(* asyncio.Event per topic in front of the archive.                         *)
(*                                                                          *)
(* The daemon is one event loop.  No section under InboxEngine._lock        *)
(* awaits, so each is one atomic step; the only place where a method lets   *)
(* other tasks run is the wait for the store's lock and worker thread, and  *)
(* that is where the steps below are cut: "...Request" is what runs before  *)
(* it, "...Stored" what runs from the thread's return to the end.           *)
(***************************************************************************)
EXTENDS InboxStore

CONSTANTS Watcher,      \* the entries of TG_TOPIC_MAP, one _watch task each
          WatchTopic,   \* WatchTopic[w]: the topic the entry names
          MaxLen        \* InboxEngine.maxlen

ASSUME EngineAssumption == /\ WatchTopic \in [Watcher -> Topic]
                           /\ MaxLen \in Nat \ {0}

VARIABLES ram,      \* ram[t]: ids in _buffers[t]
          event,    \* event[t]: _events[t].is_set()
          wpc       \* wpc[w]: where the watcher's coroutine stands: about to
                    \* call wait(), in ev.wait(), its future resolved, or out
                    \* of wait() and pushing

engineVars == <<ram, event, wpc>>

EngineTypeOK == /\ ram \in [Topic -> SUBSET Nat]
                /\ event \in [Topic -> BOOLEAN]
                /\ wpc \in [Watcher -> {"enter", "blocked", "woken", "push"}]

EngineInit == /\ ram = [t \in Topic |-> {}]
              /\ event = [t \in Topic |-> FALSE]
              /\ wpc = [w \in Watcher |-> "enter"]

-----------------------------------------------------------------------------
(* Event.set(): resolves the future of every task that is in ev.wait().     *)
SetEvent(t) ==
  /\ event' = [event EXCEPT ![t] = TRUE]
  /\ wpc' = [w \in Watcher |->
               IF WatchTopic[w] = t /\ wpc[w] = "blocked" THEN "woken" ELSE wpc[w]]

\* MUTANT of HandleRequest: the record is buffered before it is stored.
HandleRequestBuffersFirst(t, m) == /\ Submit("append", t, m, NoProxy)
                                   /\ ram' = [ram EXCEPT ![t] = @ \cup {m}]
                                   /\ UNCHANGED <<disk, event, wpc>>

(* handle(): the record is queued for the disk before RAM knows of it.      *)
HandleRequest(t, m) == Submit("append", t, m, NoProxy) /\ UNCHANGED <<disk, engineVars>>

\* MUTANT of HandleStored: nobody is told that RAM has a new record.
HandleStoredNoSet(op) ==
  /\ AppendSync(op.topic, op.id)
  /\ ram' = [ram EXCEPT ![op.topic] = Newest(@ \cup {op.id}, MaxLen)]
  /\ UNCHANGED <<event, wpc>>

(* handle(), the store's append done: the bounded buffer, then the event.   *)
HandleStored(op) ==
  /\ AppendSync(op.topic, op.id)
  /\ ram' = [ram EXCEPT ![op.topic] = Newest(@ \cup {op.id}, MaxLen)]
  /\ SetEvent(op.topic)

(* ack(): RAM first, in the caller's step.  An empty buffer ends the call   *)
(* with 0 before the store is reached (inbox.py:167).                       *)
AckRequest(t, last, p) ==
  /\ ram[t] # {}
  /\ ram' = [ram EXCEPT ![t] = {m \in @ : m > last}]
  /\ Submit("ack", t, last, p)
  /\ UNCHANGED <<disk, event, wpc>>

\* MUTANT of ClearRamBuffer: a push that is over leaves the buffer as it was.
ClearRamBufferKeeps(t) == UNCHANGED <<ram, event>>

ClearRamBuffer(t) == /\ ram' = [ram EXCEPT ![t] = {}]
                     /\ event' = [event EXCEPT ![t] = FALSE]

\* MUTANT of WaitEnter: sleep without a look at the buffer.
WaitEnterBlind(w) ==
  /\ wpc[w] = "enter"
  /\ event' = [event EXCEPT ![WatchTopic[w]] = FALSE]
  /\ wpc' = [wpc EXCEPT ![w] = "blocked"]
  /\ UNCHANGED ram

(* wait() up to its await: clear the event, then look at the buffer.        *)
WaitEnter(w) ==
  LET t == WatchTopic[w] IN
  /\ wpc[w] = "enter"
  /\ event' = [event EXCEPT ![t] = FALSE]
  /\ wpc' = [wpc EXCEPT ![w] = IF ram[t] # {} THEN "push" ELSE "blocked"]
  /\ UNCHANGED ram

(* wait() after its await: what the buffer holds now may be nothing, and    *)
(* then _watch calls wait() again.                                          *)
WaitWake(w) ==
  LET t == WatchTopic[w] IN
  /\ wpc[w] = "woken"
  /\ event' = [event EXCEPT ![t] = FALSE]
  /\ wpc' = [wpc EXCEPT ![w] = IF ram[t] # {} THEN "push" ELSE "enter"]
  /\ UNCHANGED ram

(* restore_from_store() at start-up: the buffers are rebuilt from the files, *)
(* and the event of every topic that has records is set.                    *)
RestoreFromStore ==
  /\ ram' = [t \in Topic |-> Newest(ReadAllSync(t), MaxLen)]
  /\ event' = [t \in Topic |-> ReadAllSync(t) # {}]
  /\ wpc' = [w \in Watcher |-> "enter"]
=============================================================================
