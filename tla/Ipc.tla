-------------------------------- MODULE Ipc ---------------------------------
(***************************************************************************)
(* The IPC between a proxy and the daemon: IPCClient.call, the Unix socket  *)
(* and IPCServer._handle_client (src/mcp_telegram/ipc_client.py,            *)
(* ipc_server.py).  One request or reply is one line of JSON; the client    *)
(* has one call at a time under its lock, writes it at most three times,    *)
(* and takes the next line of the connection as the reply, whatever its id. *)
(* The first connect is made outside that lock, by the proxy's get_ipc.     *)
(*                                                                          *)
(* What can go wrong in between: the daemon dies, closes an idle            *)
(* connection, refuses a line over 1 MB and throws away what follows it,    *)
(* fails or times out in the dispatch before or after it has had its        *)
(* effect; the client gives up after CALL_TIMEOUT, its agent cancels the    *)
(* call, or a reply is longer than the client's own reader allows; one end  *)
(* waits until the other has read what it wrote.                            *)
(***************************************************************************)
EXTENDS Integers, Sequences, FiniteSets

CONSTANTS Call,         \* the calls of one proxy
          None,         \* no call
          Huge,         \* calls whose request is over STREAM_LIMIT
          Long,         \* calls whose reply is over the client's 64 KiB
          Attempts,     \* range(3) in call()
          MaxConn,      \* bound: connections that exist at a time
          MaxBreaks,    \* bound: deaths of the daemon, and calls left
                        \* without a reply for CALL_TIMEOUT
          MaxCancels    \* bound: calls cancelled by the agent

ASSUME IpcAssumption ==
  /\ None \notin Call
  /\ Huge \subseteq Call /\ Long \subseteq Call
  /\ Attempts \in Nat \ {0} /\ MaxConn \in Nat \ {0}
  /\ {MaxBreaks, MaxCancels} \subseteq Nat

VARIABLES cur,       \* the call that holds IPCClient._lock
          pc,        \* "idle", "send": at the top of an attempt, "read":
                     \* waiting for a line
          tries,     \* attempts of cur that have failed
          writer,    \* the connection of self._writer; 0: None
          reader,    \* the one the line is awaited from; 0: no line is
          st,        \* st[c]: how call c stands or has ended
          conn,      \* conn[k]: connection k, both ends
          up,        \* the daemon's event loop runs
          crashes, timeouts, cancels,
          stalled,   \* connections whose handler waits in writer.drain()
                     \* until the client has read its replies
          execs,     \* history: how often call c has had its effect
          reply,     \* history: the call whose reply c returned or raised
          skewed,    \* history: connections that a call has left with a
                     \* reply, or a part of one, still to come
          replaced   \* history: the first connect has ended under a call
                     \* that was waiting for its reply

clientVars == <<cur, pc, tries, writer, reader, st, reply, skewed, replaced>>
serverVars == <<up, stalled, execs>>
counters == <<crashes, timeouts, cancels>>
vars == <<clientVars, serverVars, conn, counters>>

Conn == 1 .. MaxConn

(* A line on its way back: the reply to a request, or the end of one whose  *)
(* beginning the client has thrown away.                                    *)
Reply == [to : Call, ok : BOOLEAN, whole : BOOLEAN]

(* requests: lines the server has not read; busy: the call being            *)
(* dispatched; done: it has had its effect.  "backlog": systemd's socket    *)
(* has it and no daemon yet.  "draining": the server throws away what it    *)
(* reads and closes.                                                        *)
Connection == [st : {"none", "backlog", "open", "draining", "closed"},
               requests : Seq(Call), busy : Call \cup {None}, done : BOOLEAN,
               replies : Seq(Reply)]

NoConnection == [st |-> "none", requests |-> <<>>, busy |-> None, done |-> FALSE,
                 replies |-> <<>>]

(* With a result, or with an exception: an error reply, a line that does    *)
(* not parse, no daemon after all attempts, a timeout, a cancellation.      *)
Outcome == {"ok", "raised"}

(* "first": in get_ipc; "ready": through with it, at the lock.              *)
Open == {"first", "ready", "active"}

TypeOK ==
  /\ cur \in Call \cup {None}
  /\ pc \in {"idle", "send", "read"} /\ (pc = "idle" <=> cur = None)
  /\ tries \in 0 .. Attempts - 1
  /\ writer \in {0} \cup Conn /\ reader \in {0} \cup Conn
  /\ (pc = "read" <=> reader # 0)
  /\ st \in [Call -> {"new"} \cup Open \cup Outcome]
  /\ conn \in [Conn -> Connection]
  /\ up \in BOOLEAN /\ stalled \in SUBSET Conn
  /\ crashes \in Nat /\ timeouts \in Nat /\ crashes + timeouts <= MaxBreaks
  /\ cancels \in 0 .. MaxCancels
  /\ execs \in [Call -> Nat]
  /\ reply \in [Call -> Call \cup {None}]
  /\ skewed \in SUBSET Conn /\ replaced \in BOOLEAN

Init ==
  /\ cur = None /\ pc = "idle" /\ tries = 0 /\ writer = 0 /\ reader = 0
  /\ st = [c \in Call |-> "new"]
  /\ conn = [k \in Conn |-> NoConnection]
  /\ up = TRUE /\ stalled = {}
  /\ crashes = 0 /\ timeouts = 0 /\ cancels = 0
  /\ execs = [c \in Call |-> 0]
  /\ reply = [c \in Call |-> None]
  /\ skewed = {} /\ replaced = FALSE

-----------------------------------------------------------------------------
(* The client.                                                              *)

(* What the client has left nobody reads; when the server has closed it,    *)
(* too, it is gone.                                                         *)
Left(x) == IF x.st = "closed" THEN NoConnection ELSE [x EXCEPT !.replies = <<>>]

Leave(S) == [k \in Conn |-> IF k \in S THEN Left(conn[k]) ELSE conn[k]]

IsFree(k) == conn[k].st = "none"

(* open_unix_connection: with no daemon, the connection waits in the        *)
(* backlog of systemd's socket.  The writer before is left, unless a call   *)
(* still awaits a line from there.                                          *)
Opened(k) ==
  /\ IsFree(k) /\ \A j \in Conn : IsFree(j) => k <= j
  /\ conn' = [Leave({writer} \ {0, reader}) EXCEPT
                ![k] = [NoConnection EXCEPT !.st = IF up THEN "open" ELSE "backlog"]]
  /\ writer' = k
  /\ skewed' = skewed \cap {reader}

Begun == \E c \in Call : st[c] # "new"

(* The first tool call publishes the client and connects it; those that     *)
(* come after find it and go to the lock at once.                           *)
FirstCall(c) ==
  /\ ~Begun
  /\ st' = [st EXCEPT ![c] = "first"]
  /\ UNCHANGED <<cur, pc, tries, writer, reader, reply, skewed, replaced, serverVars,
                 conn, counters>>

(* Its connection takes the place of the one a later call may have made by  *)
(* then, and may be waiting on.                                             *)
FirstConnects(c) ==
  /\ st[c] = "first"
  /\ \E k \in Conn : Opened(k)
  /\ st' = [st EXCEPT ![c] = "ready"]
  /\ replaced' = (replaced \/ pc = "read")
  /\ UNCHANGED <<cur, pc, tries, reader, reply, serverVars, counters>>

FirstFails(c) ==
  /\ st[c] = "first"
  /\ ~up
  /\ st' = [st EXCEPT ![c] = "raised"]
  /\ UNCHANGED <<cur, pc, tries, writer, reader, reply, skewed, replaced, serverVars,
                 conn, counters>>

(* call() takes the lock.                                                   *)
BeginCall(c) ==
  /\ cur = None
  /\ st[c] = "ready" \/ (st[c] = "new" /\ Begun)
  /\ cur' = c /\ pc' = "send" /\ tries' = 0
  /\ st' = [st EXCEPT ![c] = "active"]
  /\ UNCHANGED <<writer, reader, reply, skewed, replaced, serverVars, conn, counters>>

(* It returns or raises, and leaves the lock.                               *)
EndCall(outcome) ==
  /\ st' = [st EXCEPT ![cur] = outcome]
  /\ cur' = None /\ pc' = "idle" /\ tries' = 0 /\ reader' = 0

\* MUTANT of FailAttempt: one attempt too many.
FailAttemptLate ==
  /\ writer' = 0
  /\ IF tries < Attempts
     THEN /\ tries' = tries + 1 /\ pc' = "send" /\ reader' = 0
          /\ UNCHANGED <<cur, st>>
     ELSE EndCall("raised")
  /\ conn' = Leave({writer, reader}) /\ skewed' = {}
  /\ UNCHANGED reply

\* MUTANT of FailAttempt: the next attempt goes on with the old connection.
FailAttemptKeepsWriter ==
  /\ IF tries + 1 < Attempts
     THEN /\ tries' = tries + 1 /\ pc' = "send" /\ reader' = 0
          /\ UNCHANGED <<cur, st>>
     ELSE EndCall("raised")
  /\ UNCHANGED <<writer, reply, conn, skewed>>

(* A connection error: the writer is forgotten and the next attempt begins, *)
(* or there is none.                                                        *)
FailAttempt ==
  /\ writer' = 0
  /\ IF tries + 1 < Attempts
     THEN /\ tries' = tries + 1 /\ pc' = "send" /\ reader' = 0
          /\ UNCHANGED <<cur, st>>
     ELSE EndCall("raised")
  /\ conn' = Leave({writer, reader}) /\ skewed' = {}
  /\ UNCHANGED reply

(* _ensure_connected ...                                                    *)
Connect ==
  /\ pc = "send"
  /\ writer = 0
  /\ \E k \in Conn : Opened(k)
  /\ UNCHANGED <<cur, pc, tries, reader, st, reply, replaced, serverVars, counters>>

(* ... or, without socket activation, connect() fails ten times over.       *)
ConnectFails ==
  /\ pc = "send"
  /\ writer = 0
  /\ ~up
  /\ FailAttempt
  /\ UNCHANGED <<replaced, serverVars, counters>>

Send ==
  /\ pc = "send"
  /\ writer # 0
  /\ conn[writer].st # "closed"
  /\ conn' = [conn EXCEPT ![writer].requests = Append(@, cur)]
  /\ pc' = "read" /\ reader' = writer
  /\ UNCHANGED <<cur, tries, writer, st, reply, skewed, replaced, serverVars, counters>>

(* EPIPE: the server has closed the connection since the last call.         *)
SendFails ==
  /\ pc = "send"
  /\ writer # 0
  /\ conn[writer].st = "closed"
  /\ FailAttempt
  /\ UNCHANGED <<replaced, serverVars, counters>>

(* A line has been read, or half of it, and the call is over: on with the   *)
(* connection, unless it has been replaced in the meantime.                 *)
EndRead(outcome, rest, skew) ==
  LET left == [conn EXCEPT ![reader].replies = rest] IN
  /\ IF reader = writer
     THEN conn' = left /\ skewed' = skewed \cup skew
     ELSE conn' = Leave({reader}) /\ skewed' = skewed \ {reader}
  /\ EndCall(outcome)
  /\ UNCHANGED <<writer, replaced, serverVars, counters>>

Waiting == pc = "read" /\ conn[reader].replies # <<>>

FirstLine == Head(conn[reader].replies)

(* The next line is the reply.                                              *)
Read ==
  /\ Waiting
  /\ FirstLine.whole /\ (FirstLine.ok => FirstLine.to \notin Long)
  /\ EndRead(IF FirstLine.ok THEN "ok" ELSE "raised", Tail(conn[reader].replies), {})
  /\ reply' = [reply EXCEPT ![cur] = FirstLine.to]

(* A reply over the limit of the client's StreamReader raises ValueError,   *)
(* which no handler takes for a connection error.  The reader drops what it *)
(* has buffered: the line, or as much of it as has come.                    *)
ReadTooLong ==
  /\ Waiting
  /\ FirstLine.whole /\ FirstLine.ok /\ FirstLine.to \in Long
  /\ \/ EndRead("raised", Tail(conn[reader].replies), {})
     \/ EndRead("raised", <<[FirstLine EXCEPT !.whole = FALSE]>> \o Tail(conn[reader].replies),
                {reader})
  /\ UNCHANGED reply

(* What is left of such a line does not parse either, or is too long again. *)
ReadRest ==
  /\ Waiting
  /\ ~FirstLine.whole
  /\ \/ EndRead("raised", Tail(conn[reader].replies), {})
     \/ EndRead("raised", conn[reader].replies, {reader})
  /\ UNCHANGED reply

\* MUTANT of ReadEof: an empty line is waited through.
ReadEofWaits ==
  /\ pc = "read"
  /\ conn[reader].replies = <<>>
  /\ conn[reader].st = "closed"
  /\ UNCHANGED vars

(* b"": "daemon closed connection"; or the first connect has replaced the   *)
(* writer, and with the last reference to it the connection is closed,      *)
(* where asyncio's StreamWriter does so (CPython 3.12); or the drain() of a *)
(* request of several megabytes raises before any reply is looked at.       *)
ReadEof ==
  /\ pc = "read"
  /\ \/ conn[reader].replies = <<>> /\ conn[reader].st = "closed"
     \/ cur \in Huge /\ conn[reader].st = "closed"
     \/ reader # writer
  /\ FailAttempt
  /\ UNCHANGED <<replaced, serverVars, counters>>

(* Nothing for CALL_TIMEOUT.  The server answers or closes long before,     *)
(* unless it hangs.                                                         *)
Silence ==
  /\ pc = "read"
  /\ conn[reader].replies = <<>>
  /\ conn[reader].st # "closed"
  /\ crashes + timeouts < MaxBreaks
  /\ timeouts' = timeouts + 1

(* From Python 3.11 on, wait_for's TimeoutError is an OSError and handled   *)
(* like one.                                                                *)
CallTimeout ==
  /\ Silence
  /\ FailAttempt
  /\ UNCHANGED <<replaced, serverVars, crashes, cancels>>

(* An exception that no handler of call() takes leaves it from wherever it  *)
(* waits; the writer stays.                                                 *)
Abandon ==
  /\ EndCall("raised")
  /\ skewed' = ((skewed \cup {reader}) \cap {writer}) \ {0}
  /\ conn' = Leave({reader} \ {writer})
  /\ UNCHANGED <<writer, reply, replaced, serverVars>>

(* On Python 3.9 and 3.10, wait_for's TimeoutError is asyncio's own.        *)
CallTimeoutLeaves ==
  /\ Silence
  /\ Abandon
  /\ UNCHANGED <<crashes, cancels>>

(* The agent cancels the tool call: CancelledError.                         *)
Cancel ==
  /\ cur # None
  /\ cancels < MaxCancels
  /\ cancels' = cancels + 1
  /\ Abandon
  /\ UNCHANGED <<crashes, timeouts>>

(* The same in get_ipc, or at the lock after it.                            *)
CancelFirst(c) ==
  /\ st[c] \in {"first", "ready"}
  /\ cancels < MaxCancels
  /\ cancels' = cancels + 1
  /\ st' = [st EXCEPT ![c] = "raised"]
  /\ UNCHANGED <<cur, pc, tries, writer, reader, reply, skewed, replaced, serverVars,
                 conn, crashes, timeouts>>

-----------------------------------------------------------------------------
(* The server: one _handle_client per connection.                           *)

Accept(k) ==
  /\ up
  /\ conn[k].st = "backlog"
  /\ conn' = [conn EXCEPT ![k].st = "open"]
  /\ UNCHANGED <<clientVars, serverVars, counters>>

(* A reply goes where nobody reads it if the client has left.               *)
Replied(k, c, ok) ==
  IF k \in {writer, reader}
  THEN Append(conn[k].replies, [to |-> c, ok |-> ok, whole |-> TRUE])
  ELSE <<>>

(* `await writer.drain()` after a reply has no timeout.  It may have to     *)
(* wait if the reply is a long one (c) or others before it are unread.      *)
MayStall(k, c) ==
  \/ UNCHANGED stalled
  \/ /\ k \in {writer, reader}
     /\ c \in Long \/ conn[k].replies # <<>>
     /\ stalled' = stalled \cup {k}

(* It returns, or raises because the client's end is closed.                *)
Drained(k) ==
  /\ k \in stalled
  /\ stalled' = stalled \ {k}
  /\ UNCHANGED <<clientVars, up, execs, conn, counters>>

(* It must, once the client has read everything or left.                    *)
Unread(k) == k \in {writer, reader} /\ conn[k].replies # <<>>

(* readline() returns a request, and a task to dispatch it is made.         *)
Take(k) ==
  /\ conn[k].st = "open"
  /\ conn[k].busy = None /\ k \notin stalled
  /\ conn[k].requests # <<>>
  /\ Head(conn[k].requests) \notin Huge
  /\ conn' = [conn EXCEPT ![k].busy = Head(conn[k].requests), ![k].done = FALSE,
                          ![k].requests = Tail(@)]
  /\ UNCHANGED <<clientVars, serverVars, counters>>

(* readline() raises on a line over 1 MB: an error reply, and then whatever *)
(* comes is read and thrown away for a while.                               *)
TakeTooLong(k) ==
  /\ conn[k].st = "open"
  /\ conn[k].busy = None /\ k \notin stalled
  /\ conn[k].requests # <<>>
  /\ Head(conn[k].requests) \in Huge
  /\ conn' = [conn EXCEPT ![k].st = "draining",
                          ![k].replies = Replied(k, Head(conn[k].requests), FALSE),
                          ![k].requests = Tail(@)]
  /\ MayStall(k, None)
  /\ UNCHANGED <<clientVars, up, execs, counters>>

Swallow(k) ==
  /\ conn[k].st = "draining" /\ k \notin stalled
  /\ conn[k].requests # <<>>
  /\ conn' = [conn EXCEPT ![k].requests = Tail(@)]
  /\ UNCHANGED <<clientVars, serverVars, counters>>

(* _dispatch has its effect (Telegram has the message, the records are      *)
(* acknowledged), whether or not anybody still waits for the reply.         *)
Execute(k) ==
  /\ conn[k].busy # None
  /\ ~conn[k].done
  /\ conn' = [conn EXCEPT ![k].done = TRUE]
  /\ execs' = [execs EXCEPT ![conn[k].busy] = @ + 1]
  /\ UNCHANGED <<clientVars, up, stalled, counters>>

\* MUTANT of Answer: the reply does not wait for the task.
AnswerEarly(k) ==
  /\ conn[k].busy # None
  /\ conn' = [conn EXCEPT ![k].replies = Replied(k, conn[k].busy, TRUE),
                          ![k].busy = None, ![k].done = FALSE]
  /\ UNCHANGED <<clientVars, serverVars, counters>>

Answer(k) ==
  /\ conn[k].busy # None
  /\ conn[k].done
  /\ conn' = [conn EXCEPT ![k].replies = Replied(k, conn[k].busy, TRUE),
                          ![k].busy = None, ![k].done = FALSE]
  /\ MayStall(k, conn[k].busy)
  /\ UNCHANGED <<clientVars, up, execs, counters>>

\* MUTANT of Refuse: a dispatch that fails ends the connection.
RefuseCloses(k) ==
  /\ conn[k].busy # None
  /\ conn' = [conn EXCEPT ![k].st = "closed", ![k].busy = None, ![k].done = FALSE,
                          ![k].requests = <<>>]
  /\ UNCHANGED <<clientVars, serverVars, counters>>

(* The dispatch raises, or takes longer than DISPATCH_TIMEOUT and is        *)
(* cancelled, before or after its effect: an error reply.                   *)
Refuse(k) ==
  /\ conn[k].busy # None
  /\ conn' = [conn EXCEPT ![k].replies = Replied(k, conn[k].busy, FALSE),
                          ![k].busy = None, ![k].done = FALSE]
  /\ MayStall(k, None)
  /\ UNCHANGED <<clientVars, up, execs, counters>>

(* The server's end is closed, requests it has not read are lost; replies   *)
(* the client has not read stay, if it still has the connection.            *)
Shut(k) == IF k \in {writer, reader}
           THEN [conn[k] EXCEPT !.st = "closed", !.requests = <<>>,
                                !.busy = None, !.done = FALSE]
           ELSE NoConnection

\* MUTANT of CloseIdle: only a connection whose replies have been read.
CloseIdleRead(k) ==
  /\ conn[k].st = "open"
  /\ conn[k].busy = None /\ k \notin stalled
  /\ conn[k].replies = <<>>
  /\ conn' = [conn EXCEPT ![k] = Shut(k)]
  /\ UNCHANGED <<clientVars, serverVars, counters>>

(* No line for DISPATCH_TIMEOUT, or the client's end is closed.  A request  *)
(* may arrive at that very moment.                                          *)
CloseIdle(k) ==
  /\ conn[k].st = "open"
  /\ conn[k].busy = None /\ k \notin stalled
  /\ conn' = [conn EXCEPT ![k] = Shut(k)]
  /\ UNCHANGED <<clientVars, serverVars, counters>>

CloseDrained(k) ==
  /\ conn[k].st = "draining" /\ k \notin stalled
  /\ conn' = [conn EXCEPT ![k] = Shut(k)]
  /\ UNCHANGED <<clientVars, serverVars, counters>>

(* The daemon dies: every connection it has accepted breaks, and replies on *)
(* their way may be lost with it.                                           *)
Crash ==
  /\ up
  /\ crashes + timeouts < MaxBreaks
  /\ crashes' = crashes + 1
  /\ up' = FALSE /\ stalled' = {}
  /\ \E lost \in BOOLEAN :
       conn' = [k \in Conn |->
                  IF conn[k].st \in {"open", "draining"}
                  THEN IF lost THEN [Shut(k) EXCEPT !.replies = <<>>] ELSE Shut(k)
                  ELSE conn[k]]
  /\ UNCHANGED <<clientVars, execs, timeouts, cancels>>

Start ==
  /\ ~up
  /\ up' = TRUE
  /\ UNCHANGED <<clientVars, stalled, execs, conn, counters>>

-----------------------------------------------------------------------------
First == \E c \in Call : FirstConnects(c) \/ FirstFails(c)

Ready == \E c \in Call : st[c] = "ready" /\ BeginCall(c)

Client == \/ Connect \/ ConnectFails \/ Send \/ SendFails
          \/ Read \/ ReadTooLong \/ ReadRest \/ ReadEof

Serve(k) == Accept(k) \/ Take(k) \/ TakeTooLong(k) \/ Execute(k) \/ Answer(k) \/ Refuse(k)

Next == \/ \E c \in Call : FirstCall(c) \/ BeginCall(c) \/ CancelFirst(c)
        \/ First \/ Client \/ CallTimeout \/ CallTimeoutLeaves \/ Cancel
        \/ \E k \in Conn : \/ Serve(k) \/ Drained(k)
                          \/ Swallow(k) \/ CloseIdle(k) \/ CloseDrained(k)
        \/ Crash \/ Start

Spec == Init /\ [][Next]_vars

(* A client in the drain() of a request of several megabytes, which the     *)
(* server does not read because its handler waits for the client to read    *)
(* replies of earlier calls: neither wait has a timeout.                    *)
BothWrite == /\ pc = "read" /\ cur \in Huge
             /\ reader \in stalled /\ Unread(reader)
             /\ \E i \in DOMAIN conn[reader].requests : conn[reader].requests[i] = cur

(* Fairness: both event loops run what is ready, a dispatch ends (it is     *)
(* cancelled after 30 s), reads time out (30 s idle, 1 s while draining), a *)
(* drain() ends when the other end has read all, systemd restarts the       *)
(* daemon.  Calls, cancels, crashes and the client's own timeout are not    *)
(* forced.                                                                  *)
Fairness == /\ WF_vars(First) /\ WF_vars(Ready) /\ WF_vars(Client /\ ~BothWrite)
            /\ \A k \in Conn : /\ WF_vars(Serve(k))
                               /\ WF_vars(Drained(k) /\ ~Unread(k))
                               /\ WF_vars(CloseIdle(k))
                               /\ WF_vars(CloseDrained(k))
            /\ WF_vars(Start)

FairSpec == Spec /\ Fairness

-----------------------------------------------------------------------------
(* Properties.                                                              *)

(* A call gets the reply to its own request, although nothing compares ids: *)
(* a connection on which a reply may still come is given up, unless the     *)
(* call that waited for it was cancelled or met a line too long for it.     *)
OwnReply ==
  [][\A c \in Call : reply'[c] # reply[c] => (reply'[c] = c \/ reader \in skewed)]_vars

(* Why: outside skewed connections the line holds nothing but the request   *)
(* or the reply of the call that waits, and at most once.                   *)
InFlight(k) == Len(conn[k].requests) + Len(conn[k].replies)
               + (IF conn[k].busy = None THEN 0 ELSE 1)

Concerns(k, c) == /\ \A i \in DOMAIN conn[k].requests : conn[k].requests[i] = c
                  /\ \A i \in DOMAIN conn[k].replies :
                       conn[k].replies[i].to = c /\ conn[k].replies[i].whole
                  /\ conn[k].busy \in {None, c}

OneInFlight ==
  /\ pc = "read" /\ reader \notin skewed => InFlight(reader) <= 1 /\ Concerns(reader, cur)
  /\ writer \notin {0, reader} \cup skewed => InFlight(writer) = 0

(* A request is carried out twice only if the daemon died or hung in        *)
(* between, or the first connect of the proxy came late and took the        *)
(* connection away: neither an idle connection closed under a request, nor  *)
(* a refused line, nor an error reply makes the client repeat what was      *)
(* done.                                                                    *)
NotRepeated ==
  \A c \in Call : execs[c] <= 1 + crashes + timeouts + (IF replaced THEN 1 ELSE 0)

(* A call that reports success with the reply to its own request has been   *)
(* carried out; an oversized request never is.                             *)
SuccessMeansDone ==
  \A c \in Call : /\ st[c] = "ok" /\ reply[c] = c => execs[c] > 0
                  /\ c \in Huge => execs[c] = 0

(* Every call ends, whatever breaks, unless both ends wait in drain() for   *)
(* the other to read (ipc_client.py:67, ipc_server.py:163).                 *)
CallReturns == \A c \in Call : st[c] \in Open ~> st[c] \notin Open \/ BothWrite

(* No connection outlives its use: the server closes what the client has    *)
(* left, answered or not, and what is idle.  The exception: its handler     *)
(* waits in drain() for a client that holds the connection and does not     *)
(* read; when that wait ends the connection must end again.                 *)
ConnectionsEnd ==
  \A k \in Conn :
    conn[k].st = "open" ~> conn[k].st \in {"none", "closed"} \/ (k \in stalled /\ Unread(k))

-----------------------------------------------------------------------------
(* A claim of the documentation that the code does not keep.                *)

(* "stream limit 64KB by default, we raise it to 1MB per connection"        *)
(* (spec-daemon-hardening.md:51): with no line over 1 MB, every line is     *)
(* read as it was sent, so a reply that is read is the caller's.            *)
RepliesAreOwn == \A c \in Call : reply[c] \in {None, c}
=============================================================================
