------------------------------- MODULE Inbox --------------------------------
(***************************************************************************)
(* The inbox of tgmcpd as a whole: Telegram delivers messages to            *)
(* InboxEngine.handle, watchers push them, the proxies of the agents read   *)
(* and acknowledge them over IPC (proxy.py's inbox_read), and the daemon    *)
(* may die at any point and be started again by systemd.                    *)
(*                                                                          *)
(* The IPC here is the one proxy.py is written against: a call is answered, *)
(* or it is sent again to the next daemon when the connection breaks, or it *)
(* raises.  How the connection does that is the subject of module Ipc.      *)
(***************************************************************************)
EXTENDS InboxBridge

CONSTANTS ProxyTopic,     \* ProxyTopic[p]: TG_CHAT_ID, TG_TOPIC_ID of proxy p
          MaxMsgs,        \* bound: messages Telegram posts
          MaxFails,       \* bound: appends to a topic that raise after they
                          \* have written, in the life of one daemon
          MaxCrashes,     \* bound: deaths of the daemon
          MaxKills        \* bound: deaths of proxies

ASSUME InboxAssumption == /\ ProxyTopic \in [Proxy -> Topic]
                          /\ MaxMsgs \in Nat
                          /\ MaxCrashes \in Nat
                          /\ MaxKills \in Nat

(* The file has room for a full buffer and for the records the buffer does  *)
(* not have: 10000 lines against 200 messages.                              *)
ASSUME RoomAssumption ==
  /\ MaxFails \in Nat
  /\ IsFiniteSet(Unreadable)
  /\ Cap = 0 \/ MaxLen + MaxFails + Cardinality(Unreadable) <= Cap

VARIABLES up,        \* the daemon is past its start-up
          posted,    \* the last message id Telegram has given out
          failed,    \* history: failed[t], ids this daemon has stored but, the
                     \* append having raised, never buffered
          crashes,   \* how often the daemon has died
          kills,     \* how often a proxy has
          ppc,       \* ppc[p]: where the inbox_read of proxy p stands
          held,      \* held[p]: the msgs its inbox_peek returned
          handed     \* history: handed[t], ids some peek has returned

proxyVars == <<ppc, held, handed>>
worldVars == <<up, posted, failed, crashes, kills>>
vars == <<storeVars, engineVars, bridgeVars, proxyVars, worldVars>>

(* "peek", "ack": the request has been sent; "peekStore", "ackStore": its   *)
(* dispatch waits for the store; "return": the last reply has come.         *)
ProxyState == {"idle", "peek", "peekStore", "ack", "ackStore", "return"}

TypeOK == /\ StoreTypeOK
          /\ EngineTypeOK
          /\ BridgeTypeOK
          /\ up \in BOOLEAN
          /\ posted \in Nat
          /\ failed \in [Topic -> SUBSET Nat]
          /\ crashes \in Nat
          /\ kills \in Nat
          /\ ppc \in [Proxy -> ProxyState]
          /\ held \in [Proxy -> SUBSET Nat]
          /\ handed \in [Topic -> SUBSET Nat]

Init == /\ StoreInit
        /\ EngineInit
        /\ BridgeInit
        /\ up = TRUE
        /\ posted = 0
        /\ failed = [t \in Topic |-> {}]
        /\ crashes = 0
        /\ kills = 0
        /\ ppc = [p \in Proxy |-> "idle"]
        /\ held = [p \in Proxy |-> {}]
        /\ handed = [t \in Topic |-> {}]

-----------------------------------------------------------------------------
(* Telegram and the event loop.                                             *)

(* A message is posted to a topic.  While the daemon runs its handler takes *)
(* it; while it does not, nobody does, and nothing asks for it later.       *)
Post(t) ==
  /\ posted < MaxMsgs
  /\ posted' = posted + 1
  /\ IF up THEN HandleRequest(t, posted + 1)
           ELSE UNCHANGED <<storeVars, engineVars>>
  /\ UNCHANGED <<bridgeVars, proxyVars, up, failed, crashes, kills>>

(* The reply of inbox_peek: an empty one ends inbox_read without an ack.    *)
PeekReply(p, S) ==
  /\ ppc' = [ppc EXCEPT ![p] = IF S = {} THEN "return" ELSE "ack"]
  /\ held' = [held EXCEPT ![p] = S]
  /\ handed' = [handed EXCEPT ![ProxyTopic[p]] = @ \cup S]

(* The head of the queue has its thread's result and its caller goes on.    *)
ServeAppend ==
  /\ lockq # <<>>
  /\ Head(lockq).kind = "append"
  /\ HandleStored(Head(lockq))
  /\ Release
  /\ UNCHANGED <<bridgeVars, proxyVars, worldVars>>

ServeRead ==
  LET op == Head(lockq) IN
  /\ lockq # <<>>
  /\ op.kind = "read"
  /\ IF op.by \in Proxy THEN PeekReply(op.by, ReadAllSync(op.topic))
                        ELSE UNCHANGED proxyVars
  /\ Release
  /\ UNCHANGED <<disk, engineVars, bridgeVars, worldVars>>

ServeAck ==
  LET op == Head(lockq) IN
  /\ lockq # <<>>
  /\ op.kind = "ack"
  /\ AckSync(op.topic, op.id)
  /\ IF op.by \in Proxy THEN ppc' = [ppc EXCEPT ![op.by] = "return"]
                        ELSE UNCHANGED ppc
  /\ Release
  /\ UNCHANGED <<engineVars, bridgeVars, held, handed, worldVars>>

\* MUTANT of ServeError: the caller of a failed operation gets no reply.
ServeErrorSilent ==
  /\ lockq # <<>>
  /\ Release
  /\ UNCHANGED <<disk, engineVars, bridgeVars, proxyVars, worldVars>>

(* The file operation raises: a call gets an error reply.  A read or an ack *)
(* has changed nothing (the replace is an ack's last step); a message that  *)
(* was to be stored is gone, or it is in the file and handle() never gets   *)
(* to the buffer.                                                           *)
ServeError ==
  LET op == Head(lockq) IN
  /\ lockq # <<>>
  /\ IF op.by \in Proxy THEN /\ ppc' = [ppc EXCEPT ![op.by] = "idle"]
                             /\ held' = [held EXCEPT ![op.by] = {}]
                        ELSE UNCHANGED <<ppc, held>>
  /\ \/ UNCHANGED <<disk, failed>>
     \/ /\ op.kind = "append"
        /\ Cardinality(failed[op.topic]) < MaxFails
        /\ AppendUntrimmed(op.topic, op.id)
        /\ failed' = [failed EXCEPT ![op.topic] = @ \cup {op.id}]
  /\ Release
  /\ UNCHANGED <<engineVars, bridgeVars, handed, up, posted, crashes, kills>>

-----------------------------------------------------------------------------
(* proxy.py's inbox_read.                                                   *)

CallRead(p) ==
  /\ ppc[p] = "idle"
  /\ ppc' = [ppc EXCEPT ![p] = "peek"]
  /\ UNCHANGED <<storeVars, engineVars, bridgeVars, held, handed, worldVars>>

(* inbox_peek is dispatched: RAM answers when it holds anything, and only   *)
(* then; otherwise the file is read.                                        *)
PeekFromRam(p) ==
  LET t == ProxyTopic[p] IN
  /\ up
  /\ ppc[p] = "peek"
  /\ ram[t] # {}
  /\ PeekReply(p, ram[t])
  /\ UNCHANGED <<storeVars, engineVars, bridgeVars, worldVars>>

PeekFromStore(p) ==
  LET t == ProxyTopic[p] IN
  /\ up
  /\ ppc[p] = "peek"
  /\ ram[t] = {}
  /\ Submit("read", t, 0, p)
  /\ ppc' = [ppc EXCEPT ![p] = "peekStore"]
  /\ UNCHANGED <<disk, engineVars, bridgeVars, held, handed, worldVars>>

(* msgs[-1]["id"]: the newest of what was read.                             *)
IsLastId(m, S) == m \in S /\ \A n \in S : n <= m

\* MUTANT of AckAfterPeek: the ack names whatever id Telegram posted last.
AckNewest(p) ==
  LET t == ProxyTopic[p] IN
  /\ up
  /\ ppc[p] = "ack"
  /\ AckRequest(t, posted, p)
  /\ ppc' = [ppc EXCEPT ![p] = "ackStore"]
  /\ UNCHANGED <<bridgeVars, held, handed, worldVars>>

AckAfterPeek(p) ==
  LET t == ProxyTopic[p] IN
  /\ up
  /\ ppc[p] = "ack"
  /\ \E last \in held[p] : IsLastId(last, held[p]) /\ AckRequest(t, last, p)
  /\ ppc' = [ppc EXCEPT ![p] = "ackStore"]
  /\ UNCHANGED <<bridgeVars, held, handed, worldVars>>

(* inbox_ack finds the buffer empty: it answers 0 and leaves the file alone. *)
AckOfNothing(p) ==
  /\ up
  /\ ppc[p] = "ack"
  /\ ram[ProxyTopic[p]] = {}
  /\ ppc' = [ppc EXCEPT ![p] = "return"]
  /\ UNCHANGED <<storeVars, engineVars, bridgeVars, held, handed, worldVars>>

Return(p) ==
  /\ ppc[p] = "return"
  /\ ppc' = [ppc EXCEPT ![p] = "idle"]
  /\ held' = [held EXCEPT ![p] = {}]
  /\ UNCHANGED <<storeVars, engineVars, bridgeVars, handed, worldVars>>

(* With no daemon to reconnect to, the call raises after its last attempt   *)
(* and inbox_read returns nothing, not even what it had peeked.             *)
GiveUp(p) ==
  /\ ~up
  /\ ppc[p] \in {"peek", "ack"}
  /\ ppc' = [ppc EXCEPT ![p] = "idle"]
  /\ held' = [held EXCEPT ![p] = {}]
  /\ UNCHANGED <<storeVars, engineVars, bridgeVars, handed, worldVars>>

(* The proxy process is killed (its watchdog, its agent); what it has asked *)
(* the daemon to do is done all the same.                                   *)
ProxyKilled(p) ==
  /\ ppc[p] # "idle"
  /\ kills < MaxKills
  /\ kills' = kills + 1
  /\ ppc' = [ppc EXCEPT ![p] = "idle"]
  /\ held' = [held EXCEPT ![p] = {}]
  /\ Orphan(p)
  /\ UNCHANGED <<disk, engineVars, bridgeVars, handed, up, posted, failed, crashes>>

-----------------------------------------------------------------------------
(* Death and restart.                                                       *)

(* The process dies.  The file operation in the worker thread may have      *)
(* taken effect, an append also without its trim; the ones that wait for    *)
(* the lock never will.  Open calls are sent again to whichever daemon      *)
(* comes next.                                                              *)
Crash ==
  /\ up
  /\ crashes < MaxCrashes
  /\ up' = FALSE
  /\ crashes' = crashes + 1
  /\ \/ UNCHANGED disk
     \/ /\ lockq # <<>>
        /\ LET op == Head(lockq) IN
             \/ op.kind = "append" /\ AppendSync(op.topic, op.id)
             \/ op.kind = "append" /\ AppendUntrimmed(op.topic, op.id)
             \/ op.kind = "ack" /\ AckSync(op.topic, op.id)
  /\ lockq' = <<>>
  /\ ram' = [t \in Topic |-> {}]
  /\ event' = [t \in Topic |-> FALSE]
  /\ wpc' = [w \in Watcher |-> "enter"]
  /\ BridgeReset
  /\ failed' = [t \in Topic |-> {}]
  /\ ppc' = [p \in Proxy |-> CASE ppc[p] = "peekStore" -> "peek"
                               [] ppc[p] = "ackStore" -> "ack"
                               [] OTHER -> ppc[p]]
  /\ UNCHANGED <<held, handed, posted, kills>>

(* daemon.main: the buffers are restored before the message handler, the    *)
(* IPC server and the bridge exist, so nothing happens in between.          *)
Start ==
  /\ ~up
  /\ up' = TRUE
  /\ RestoreFromStore
  /\ UNCHANGED <<storeVars, bridgeVars, proxyVars, posted, failed, crashes, kills>>

-----------------------------------------------------------------------------
Serve == ServeAppend \/ ServeRead \/ ServeAck \/ ServeError

Watch(w) == up /\ (\/ WatchEnter(w) \/ WatchWake(w)
                   \/ PushOk(w) \/ PushRetry(w) \/ PushFail(w))
            /\ UNCHANGED <<proxyVars, worldVars>>

Dispatch(p) == PeekFromRam(p) \/ PeekFromStore(p) \/ AckAfterPeek(p) \/ AckOfNothing(p)

Next == \/ \E t \in Topic : Post(t)
        \/ Serve
        \/ \E w \in Watcher : Watch(w)
        \/ \E p \in Proxy : CallRead(p) \/ Dispatch(p) \/ Return(p)
                            \/ GiveUp(p) \/ ProxyKilled(p)
        \/ Crash
        \/ Start

Spec == Init /\ [][Next]_vars

(* Fairness: the loop schedules every ready task and every thread returns,  *)
(* systemd restarts the service (Restart=always), the bridge's attempts are *)
(* bounded by its own timeouts, the proxy reads a reply it has been sent.   *)
(* Telegram, the agents, crashes, kills and giving up are not forced.       *)
Fairness == /\ WF_vars(Serve)
            /\ WF_vars(Start)
            /\ \A w \in Watcher : WF_vars(Watch(w))
            /\ \A p \in Proxy : WF_vars(Dispatch(p)) /\ WF_vars(Return(p))

FairSpec == Spec /\ Fairness

-----------------------------------------------------------------------------
(* Properties.                                                              *)

(* The RAM buffer is the newest part of what the file has, but for records  *)
(* whose append raised after the write: what a watcher or a peek takes from *)
(* RAM is on disk (an ack may have removed what cannot be read), and what   *)
(* RAM misses between its messages are exactly such records.  This is what  *)
(* handle's append-before-buffer, ack's RAM-before-store, restore, and the  *)
(* one FIFO lock are for, under every interleaving, error and crash.        *)
RamIsTail ==
  \A t \in Topic :
    /\ ram[t] \ Unreadable \subseteq disk[t]
    /\ \A x \in ram[t], y \in Readable(t) : y > x => y \in ram[t] \cup failed[t]

(* No lost wakeup: a watcher sleeps in ev.wait() only while there is        *)
(* nothing to push (inbox.py:151-161, clear before the look at the buffer). *)
SleepsOnlyWhenEmpty ==
  up => \A w \in Watcher : wpc[w] = "blocked" => ram[WatchTopic[w]] = {}

(* What makes RamIsTail inductive: the order in which ids travel through    *)
(* the lock's queue.  A record that waits to be stored is newer than all    *)
(* that is stored, buffered, was read or waits before it; an ack that waits *)
(* is about a message some proxy was handed, and RAM holds only newer ones. *)
QueueOrdered ==
  \A i \in 1 .. Len(lockq) :
    LET op == lockq[i] IN
    /\ op.by \in Proxy => ProxyTopic[op.by] = op.topic
    /\ op.kind = "append" =>
         /\ 0 < op.id /\ op.id <= posted
         /\ \A m \in disk[op.topic] \cup ram[op.topic] \cup handed[op.topic] : m < op.id
         /\ \A j \in i + 1 .. Len(lockq) :
              lockq[j].kind = "append" /\ lockq[j].topic = op.topic => op.id < lockq[j].id
    /\ op.kind = "ack" => /\ op.id \in handed[op.topic]
                          /\ \A m \in ram[op.topic] : op.id < m

(* A daemon that is down holds nothing, no id is older than its message, a  *)
(* proxy holds only what it was handed, and failures stay within bounds.    *)
Bookkeeping ==
  /\ ~up => lockq = <<>> /\ \A t \in Topic : ram[t] = {}
  /\ posted <= MaxMsgs
  /\ \A t \in Topic : /\ \A m \in disk[t] \cup ram[t] \cup handed[t] \cup failed[t] : m <= posted
                      /\ Cardinality(failed[t]) <= MaxFails
  /\ \A p \in Proxy : held[p] \subseteq handed[ProxyTopic[p]]

InboxInv == TypeOK /\ RamIsTail /\ QueueOrdered /\ Bookkeeping

(* What makes NoSecondPush inductive: what a watcher has taken up is in RAM *)
(* no more once its push is over, and nothing of it comes back, since what  *)
(* still waits to be stored is newer.                                       *)
TakenUp ==
  \A w \in Watcher :
    /\ ~up => offered[w] = {}
    /\ \A m \in offered[w] : m <= posted
    /\ wpc[w] # "push" => ram[WatchTopic[w]] \cap offered[w] = {}
    /\ \A i \in 1 .. Len(lockq), m \in offered[w] :
         lockq[i].kind = "append" /\ lockq[i].topic = WatchTopic[w] => m < lockq[i].id

(* "exactly ONE push attempt": a watcher takes a message up at most once in *)
(* the life of a daemon (inbox.py:149).                                     *)
NoSecondPush ==
  [][\A w \in Watcher : wpc[w] # "push" /\ wpc'[w] = "push" =>
                          batch'[w] \cap offered[w] = {}]_vars

(* The inbox implements the durable mailbox.                                *)
Abstract == INSTANCE Mailbox WITH Id <- 1 .. MaxMsgs, Lost <- Unreadable,
                                log <- disk, granted <- handed
MailboxSpec == Abstract!Spec

(* A message that is in RAM while its watcher is not busy pushing is taken  *)
(* up by the watcher, unless it leaves RAM (ack, overflow, crash) first.    *)
BufferedIsOffered ==
  \A w \in Watcher, m \in 1 .. MaxMsgs :
    (m \in ram[WatchTopic[w]] /\ wpc[w] # "push")
      ~> (m \in offered[w] \/ m \notin ram[WatchTopic[w]])

(* Every inbox_read ends.                                                   *)
ReadReturns == \A p \in Proxy : ppc[p] # "idle" ~> ppc[p] = "idle"

-----------------------------------------------------------------------------
(* A claim of the documentation that the code does not keep.                *)

(* A message whose push failed must not be lost but stay on disk (УМ-Г,     *)
(* developer-guide.md:64-65): no message leaves the disk that neither a     *)
(* push nor a read has brought to an agent.                                 *)
UnseenIsKept ==
  [][\A t \in Topic : disk[t] \ disk'[t] \subseteq handed[t] \cup pushed[t]]_vars
=============================================================================
