# A TLA+ model of Gate-MCPTG (tgmcpd)

This directory is a verification project for the Telegram gateway in this
repository: TLA+ modules translated from the Python source, TLC runs over small
instances, and theorems checked by TLAPS. Paths below are relative to
`src/mcp_telegram/` unless they say otherwise.

## 1. Inventory

| part | source | state | operations |
|---|---|---|---|
| Inbox store | `inbox_store.py` | one JSONL file per (chat, topic); one `asyncio.Lock`; retention counter; health cache | `append`, `read_all`, `ack`, `health_check`, each in a worker thread under the lock |
| Inbox engine | `inbox.py` | `_buffers` (bounded deques), `_events`, `_lock`, stats | `restore_from_store`, `handle`, `peek`, `clear_ram_buffer`, `wait`, `ack` |
| Inbox bridge | `inbox_bridge.py` | one `_watch` task per `topic_map` entry | wait, push over tmux/tui/uds with retries, clear RAM |
| IPC server | `ipc_server.py` | one task per connection, one dispatch task per request | `_handle_client`, `_dispatch` (ping, send_message, inbox_peek, inbox_ack, send_file, download_file, health) |
| IPC client | `ipc_client.py` | reader, writer, `_req_id`, `_lock` | `connect`, `_ensure_connected`, `call` (3 attempts), `close` |
| Proxy | `proxy.py` | `_ipc` | MCP tools: send_message, inbox_read, send_file, download_file |
| Daemon | `daemon.py`, `scripts/*.socket`, `*.service` | instance lock, socket file, server | start-up, activation, stale-socket check, shutdown |
| Rate limiter | `rate_limiter.py` | two kinds of time-stamp queues, semaphore, locks, statistics | `acquire`, `check_resolve_limit`, `is_healthy` |
| v1 tools | `tools.py`, `tools_extended.py` | none of their own | about 70 wrappers of one Telethon call behind `handle_flood_wait` |
| v1 server | `server.py`, `__init__.py`, `cli.py` | tool calls in flight, the client they share, inbox task | `call_tool`, `_run_inbox`, `_run_inbox_loop`, `run_mcp_server` |
| Telegram session | `telegram.py`, `qr_auth.py` | settings, client cache, QR login | `create_client`, `authenticate` |
| Proxy watchdog | `scripts/tgmcp-proxy-watchdog.py` | child process, ping thread, restart counter | ping, terminate, restart |

How they interact. Telethon calls `InboxEngine.handle` for every message; it
stores the record, then buffers it and sets the topic's event. A bridge watcher
sleeps in `wait()`, takes what RAM holds, pushes it to the agent's terminal or
socket and clears RAM, whether or not the push worked; the file keeps the
records. The agent's proxy calls `inbox_peek` and then `inbox_ack` with the last
id it saw, over a Unix socket; `ack` cuts RAM and then the file. All of the
daemon is one asyncio event loop; what runs beside it are the store's worker
threads, the proxies and systemd.

What is hard: the engine's methods interleave wherever they await the store;
the RAM buffer, the file and what an agent has in its hands are three copies of
one history that are cut at different moments; the daemon and the proxies die at
any point; IPC calls time out and are sent again; the limiter's clocks and
queues are shared by concurrent calls; the tools of version 1 share one Telegram
client, which each of them disconnects when it is done. `PROJECT.json` lists these hazards at
their lines with the properties that cover them.

What makes each part correct:
- *store*: records leave a file only through retention or an ack; a crash loses
  at most the record being written.
- *engine*: RAM is always the newest part of the file; a message is pushed once
  and never while its watcher sleeps on it; a peek returns what is on disk.
- *bridge*: bounded attempts; a failed push loses nothing.
- *IPC*: every call ends; a reply belongs to its request; a request is executed
  once, or the caller is told it may not have been.
- *daemon*: one instance; the socket file belongs to whoever listens on it.
- *watchdog*: one proxy at a time, a bounded number of kills, no proxy left to hang.
- *login*: it says what happened; the code on show is the one waited for.
- *v1 server*: no change made twice, or reported and not made; a call on its own is
  served; calls and process end.
- *limiter*: no window sees more requests than its limit; nobody waits for ever.

## 2. Plan

1. **Inbox** (done): `InboxStore`, `InboxEngine`, `InboxBridge`, composed with the
   proxies and crashes in `Inbox`; abstract specification `Mailbox`; proofs in
   `InboxProofs`.
2. **InboxFile** (done): the store at the level of lines, inodes
   and threads: the torn last line, tmp file and replace, the quarantine, an
   append that fails after it wrote, the thread that outlives a cancelled
   dispatch; proofs in `InboxFileProofs`.
3. **Ipc** (done): client, connection and server: attempts,
   reconnects, timeouts, cancelled dispatch, replies without a match, a `call`
   that must end, the first connect outside the lock; proofs in `IpcProofs`.
4. **Daemon** (done): instance lock, activation, stale socket, shutdown, the socket
   unit; proofs in `DaemonProofs`.
5. **RateLimiter** (done) with the tools' decorator: windows, locks, semaphore,
   daily limit; proofs in `RateLimiterProofs`.
6. **Watchdog** (done): main loop, ping threads, the counter they share; proofs in
   `WatchdogProofs`.
7. **Login** (done): QR code, password, phone; proofs in `LoginProofs`.
8. **Server** (done): the v1 server's cached client, which concurrent
   tools enter and leave, the decorator's retries, the inbox loop, the end of the
   process; proofs in `ServerProofs`.

Left for later: an abstract remote call for `Ipc` (carried out at least once, or the
caller is told that it may not have been), of which `SuccessMeansDone` and
`NotRepeated` are the two halves.

Each with a type invariant, a run for safety, one for liveness where something
must happen, and theorems for the safety invariants.

## 3. Modules

`InboxStore` -> `InboxEngine` -> `InboxBridge` -> `Inbox` form a chain of EXTENDS;
`Inbox` instantiates `Mailbox`; `MCInbox` and `InboxProofs` extend `Inbox`.

- **InboxStore**. A file is the set of its record ids (`disk[t]`): Telegram
  numbers messages in increasing order and Telethon delivers them in that
  order, so the set determines the lines. `lockq` is the FIFO of
  `InboxStore._lock`: its head holds the lock and runs in the worker thread.
  `AppendSync`, `ReadAllSync`, `AckSync` are `_append_sync`, `_read_all_sync`,
  `_ack_sync` including retention (`Retain`; a cap of 0 switches it off).
  `AppendUntrimmed` is an append that raises, or dies, after the write. `Unreadable`
  are messages whose line does not parse when it is read back: a reader skips
  them (`Readable`), an ack moves them to the quarantine, a trim counts them.
- **InboxEngine**. `ram[t]`, `event[t]` are `_buffers` and `_events`; `wpc[w]` is the
  position of a watcher's coroutine inside `wait()`. Sections under the
  engine's own lock never await, so each is one step; the steps are cut where
  a method waits for the store: `HandleRequest`/`HandleStored`,
  `AckRequest` (the rest of `ack` is the store's `ServeAck`).
- **InboxBridge**. `WatchEnter`, `WatchWake` are the two ways through `wait()`;
  `PushOk`, `PushRetry`, `PushFail` the outcomes of an attempt and of a push, each
  end of a push followed by `clear_ram_buffer` in the same step. `offered` and
  `pushed` are history variables.
- **Inbox**. Adds Telegram (`Post`), the store's worker (`ServeAppend`, `ServeRead`,
  `ServeAck`, `ServeError`), `inbox_read` of the proxies (`CallRead` ... `Return`,
  `GiveUp`, `ProxyKilled`) and `Crash`/`Start`. A crash may or may not complete
  the file operation that was running, drops everything in RAM and sends open
  calls to the next daemon. `ServeError` is a file operation that raises: a read or
  an ack has then changed nothing (the replace is an ack's last step), an append
  may have left its record in the file (fsync, or the read or rewrite of the
  retention, `inbox_store.py:19-28`), and `handle` never gets to the buffer. `handed`
  and `failed` (what this daemon has stored and not buffered) are history variables.
- **Mailbox**. The promise to the agents: a log per topic from which messages
  leave only by retention, oldest first, or by settling a message that had been
  granted to a reader, which takes the older ones with it and those that cannot
  be read back (`Lost`). Retention may be put off to a later message: the code
  trims after it has written, and may not get there.

Abstracted in these: message contents and `message_to_entry`, the three transports'
protocols, wording and statistics. The IPC is idealised (an open call is answered, sent again to the
next daemon, or raises); its own failures are left to `Ipc`.

**InboxFile** opens the step that `InboxStore` takes as atomic. A line is the id of
a record, or the negative id of one of which only a piece is there; `data` holds
inodes, `file` and `tmp` are the paths that name them, `quar` is the `.corrupt`
file. Each worker thread (`run[th]`) goes through `_append_sync` (`Write`, `Trim`)
or `_ack_sync` (`AckScan`, `Quarantine`) and, if it rewrites, through `_rewrite`
(`OpenTmp`, `Fill`, `Replace`). `lock` is the caller that holds the store's lock:
it differs from the thread once `Timeout` has cancelled the dispatch. `Wide` are
messages with a character that `json.dumps(ensure_ascii=False)` keeps and
`str.splitlines()` cuts at. History: `stored`, `cut`, `glued`, and `overlap`, which says
that an operation has begun beside an abandoned thread; most properties hold
only without it, and `AckIsAtomic` shows why. Abstracted: records of one length,
so a write over another handle's text replaces whole lines; `open` and `write` of
an append are one step; blank lines, `health_check` and its cache are left out.

**Ipc** has one proxy's client and the connections it has opened, with both of
their ends in `conn[k]`. `Connect` ... `CallTimeout` are the ways through one
attempt of `IPCClient.call`, `FailAttempt` is its except clause; `Take` ... `CloseDrained`
are `_handle_client`, `Execute`, `Answer`, `Refuse` the ways a dispatch goes. A reply
carries the call it answers, the client does not look at it: `OwnReply` says why
that works. `skewed` is a history variable: connections that a call has left with a
reply still to come, because it was cancelled, met a line too long for it, or (on
old Pythons) timed out.
`FirstCall`, `FirstConnects`, `FirstFails` are the proxy's `get_ipc`: it publishes the
client and connects it without the lock, while calls that come after go on and
open a connection of their own. When the first connect comes through it takes
the place of `writer`; a call already waiting for its line still waits on the old
connection, `reader`, and then either gets its reply there (`Read`) or, where
asyncio's `StreamWriter` closes itself once nothing refers to it (CPython 3.12),
loses it and sends again (`ReadEof`). `replaced` remembers that this has happened:
the request may then be carried out twice, which `NotRepeated` allows for once.
`stalled` are the connections whose handler waits in `writer.drain()` after a reply,
which has no timeout: possible after a reply of the size of `Long`, or behind
replies nobody has read (`MayStall`). Until the client reads or leaves
(`Drained`) such a handler neither takes a request nor gets to its idle timeout.
`CallTimeout` is the client's timeout where it is an `OSError` (Python 3.11 and
later), `CallTimeoutLeaves` where it is not (3.9 and 3.10, which `setup.py:59` allows): it
leaves `call` without another attempt and keeps the writer, so that the
connection is skewed. Abstracted: the requests' arguments and results; lines that
are not JSON (no proxy sends one); a request is on its connection in one step, and
the client's `drain` after it is part of the wait for the reply (`ReadEof` has its
errors, `BothWrite` the case in which it does not return); the check of the peer's
uid; a cancelled dispatch whose effect comes later has it before
`Refuse`. A new connection takes the least free id, and a connection the client
has left can be closed at any moment, which stands for end of file, garbage
collection and the idle timeout alike; two ids then suffice for one that is used
and one that is dying.

**RateLimiter** has the decorator of the tools (`CallTool`, `FloodWait`, `Retry`,
`Return`) around `RateLimiter.acquire` (`TakeSlot`, then for the global queue and the
chat's `PassWindow` or `WaitForWindow` and `WakeUp`, then `Enter`). `now` ticks
between steps; a sleep ends at its time or later. `Cancel` takes a call out of any
await. `grants` is a history variable with the true times at which calls passed a
window, beside `queue` with the times the code noted. Abstracted: one chat; the
24 hours since `resolve_last_reset` are the flag `dayOver`; which waiter gets a
free lock is left open (asyncio's is FIFO); `rate_limited_requests` and
`flood_errors` are not kept; `is_healthy` and `log_stats` only report and are left
out. Methods like `search_contacts` are checked against the daily limit by the
decorator and never counted, as `acquire` looks for "resolve" in the name. Most
tools catch every exception themselves, so a FloodWait reaches the decorator
only out of entering the client (module `Server`); this model lets any body meet
one, which includes that case.

**Daemon** has the processes (`pc[p]` is the place in `main()`), the inode each
listens on (`fd[p]`; for a process that systemd started, the unit's from the
beginning), the holder of the flock, the inode at the path and the one of
`tgmcpd.socket` (`sd`). Steps are cut at awaits and at the system calls on the path:
probe and unlink of `_check_stale_socket`, unlink and bind inside asyncio's
`start_unix_server`. `Finally` is what `_unlink_if_owned` does with CPython up to
3.12: the inode of a socket object is never that of its file, and a server that
was closed by the signal has no `sockets[0]`. `raced` is a history variable: the
socket unit was started beside a fallback process that had probed the path
before. Abstracted: `exists` and connect of the probe are one step, bind and
listen too; exit codes; further descriptors; a unit for another path; systemd's
start limit; the backlog of a live socket is never full.

**Watchdog** has the main thread (`main`), a thread per proxy (`thread[n]`), the counter
`restarts` and the event `stop` they share, and whether the daemon answers a ping
(`answers`; the ping goes to the daemon, not to the proxy). `Gone` is what
`proc.poll()` tells a thread: nothing while the main thread is in `proc.wait()`.
A thread whose proxy has gone in the middle of its ping still raises the counter
when the ping fails. `kills` is a history variable. Abstracted: the lengths of
sleeps and timeouts (a ping may outlast the pause before the next proxy);
SIGTERM, grace and SIGKILL are one step; the increment is one step (the threads
would have to stop within one statement); a watchdog that is killed itself.

**Login** has the place in `authenticate()` or `phone_login_to_telegram()` (`pc`), the
number of the token Telegram has issued and of the one shown, the picture on the
disk (`png`) and in `temp_files` (`temp`). `Fail` is the outer `except Exception`,
`Leave` any way to the `finally`, `NextPassword` the loop of `_handle_2fa`. `authorized`
is Telegram's view, also when a call that Telegram has accepted raises
(`MayBeAccepted`: a lost answer to `wait`, `recreate` or `sign_in`, or a request
that follows it and fails). `Interrupt` is Ctrl-C: with asyncio's handler (Python
3.11 and later) the first one cancels at an await; a second one, and any on 3.9
and 3.10, strikes anywhere, between `img.save` and `temp_files.append` or inside the
clean-up (`InterruptCleanup`), too. History: `unheard`, `diskError`, `torn`. Abstracted: the calls of
`_cleanup_temp_files` before the `finally`'s, which do the same a step earlier; the
`--qr` command shows code and picture both, the other methods are `file` or not;
a falsy result of `wait()`, which Telethon never returns.

**Server** has the calls of the v1 server (`pc[c]`, `pos[c]`: the request a call is at),
whether the client that `create_client` caches is connected, the requests that are
on their way to Telegram (`wire`) and the listener. A call enters (`Enter`: `async with`
starts the client, request 0 is its `get_me`), makes one change or two, and leaves
(`Exit`), which disconnects the client for everybody: whoever waits for an answer
gets a CancelledError, whoever sends next finds the client disconnected
(`SendOffline`), and a new call connects it again. `RequestFails` is a request that is
refused or whose answer never comes, carried out or not. `FloodAtEntry` and `Retry`
are `_execute_with_retry`. A CancelledError passes the tools' `except Exception`
and `call_tool` and leaves no answer ("silent"); only `get_all_chats` turns it into one.
`ran` and `lone` are history variables. `NothingToDo` is a tool that reports a success
without a request. Abstracted: what the requests ask, and those that only look up an
entity; connecting and disconnecting take one step; the limiter in front of
the call; the listener's messages (its handler calls `inbox.push`, which does
not exist any more).

## 4. Runs

| run | instance | what it shows |
|---|---|---|
| `inbox_safety` | 1 topic, 1 watcher, 2 proxies, cap 3, maxlen 2, 4 messages, 1 append that fails after its write in each life of the daemon, any other store errors, 1 crash | `TypeOK`, `RamIsTail`, `SleepsOnlyWhenEmpty`, `NoSecondPush`, and that `Inbox` implements `Mailbox` |
| `inbox_live` | 1 topic, 2 watchers on it, 1 proxy, no cap, maxlen 1, 2 attempts, 2 messages (one unreadable), 1 append that fails after its write, 1 crash, 1 kill | `BufferedIsOffered`, `ReadReturns` under `FairSpec` |
| `unseen_is_kept` | 1 topic, 1 watcher, 1 proxy, no crash | counterexample: see findings |
| `file_safety` | 2 threads, cap 2, 4 messages of which one has a line separator, 1 I/O error, 1 crash, 1 cancelled dispatch | `Kept`, `InOrder`, `RewriteIsCurrent`, `AckKeepsJunk`, `WithinCap` |
| `ack_is_atomic` | 2 messages, 1 cancelled dispatch | counterexample |
| `ipc` | 3 calls (one request too long, one reply too long), 2 attempts, 2 connections, 1 crash or timeout, 1 cancel, calls before and after the first connect | `OwnReply`, `NotRepeated`, `SuccessMeansDone`; `CallReturns`, `ConnectionsEnd` under `FairSpec` |
| `replies_are_own` | 3 calls, one reply too long, no other failure | counterexample |
| `daemon` | 3 processes, 4 inodes, 2 manual starts, 2 kills, signals or failures | `OneSession`, `PathIsServed`, `LiveFileKept`; `ServiceComesBack` under `FairSpec` |
| `limiter` | 4 calls (3 private, 1 group, 2 resolve, 1 search), 2 slots, 2 calls per 2 ticks globally, 1 per 2 in the chat, 1 per 3 for the group, 1 resolve a day, 1 FloodWait per call, 1 cancel, clock to 3 | `GlobalRate`, `ChatRate`, `LocksMove`, `SlotsReturn` |
| `watchdog` | 4 proxies, limit 2, daemon that comes and goes, one signal | `KillsBounded`; `HungIsReplaced`, `ThreadsEnd` under `FairSpec` |
| `login` | 3 codes, 3 passwords, with or without a picture, session authorized before or not, any failure or interrupt | `NoCodeLeft`; `QrLoginEnds` under `FairSpec` |
| `server` | 3 calls (one of two changes with 1 retry, two of `GetAllChats`), any cancellations and failures | `ExactlyWhatIsSaid`, `LoneIsUndisturbed`; `EverythingEnds` under `FairSpec` |

Each run also checks its module's `TypeOK`. Invariants that are proved for all
constants (section 5) and that the others do not need, `InboxInv`, `OneProxy`,
`ResultIsTrue` among them, are not repeated by a run.

Bounds. Inbox: four messages against a cap of three and a buffer of two reach
overflow and retention with an ack before, between and after, and a failed append
before, between and after those that succeed; two proxies reach acks in
both orders and an ack of what the other has acknowledged; one crash is enough
because a start depends only on the files; topics share nothing but the order in
which the store serves them, which the proofs cover for any number. File: four messages against a cap of
two let a trim follow a failed append and an ack follow both; two threads are
what a cancelled dispatch can leave running beside the holder of the lock; one
error can strike at any of the steps. IPC: with two attempts, a crash or a
timeout, an idle close and the first connect can each cost one, and two of them
leave a call that raises (three attempts add states and no new way to end);
the oversized request and reply come before, between or after an ordinary one.
Daemon: one process
can serve or shut down, one be in its start-up and one come third; four inodes
are a stale file, the unit's, a service's from before the unit was stopped and a
new one. Limiter: three calls through a window of two, so that one sleeps while another
is cancelled or lines up behind it; the clock goes one tick past a window. Watchdog: with a limit of two, two
proxies can be killed and two end by themselves, with threads of theirs still
at work, which takes the counter past the limit. Login: the code's own limits.
Server: one call is cut off by a second between its two changes while a third
starts, or runs alone after both; one retry is a tool called twice.
`CHECK_DEADLOCK FALSE` everywhere: with the bounds reached and every call ended
the system rests. `inbox_safety` uses symmetry of the two proxies and `file_safety` of the
two threads; liveness runs use none.

Fairness. Inbox (`FairSpec`): the event loop runs every ready task and worker
threads return (`Serve`, `Dispatch`, `Watch`), systemd restarts the service
(`Restart=always` in `scripts/tgmcpd.user.service`), a proxy takes a reply it
has been sent. Telegram, agents, crashes, kills and giving up are never forced.
Attempts of a push are bounded by the transport's own timeouts. IPC (`FairSpec`):
the client's loop and the server's run what is ready, a dispatch ends because
it is cancelled after `DISPATCH_TIMEOUT`, a read of an idle or draining connection
times out, systemd restarts the daemon. A `drain` has no timeout, so nothing makes
it return but the other end: the server's is only forced once the client has read
everything or left (`Drained /\ ~Unread`), the client's not while the server's
handler waits for it in turn (`Client /\ ~BothWrite`). Calls, cancels, crashes and the client's
own `CALL_TIMEOUT` are never forced: `CallReturns` does not need that timeout. The
first connect ends one way or the other (`First`), and a call that has been
through `get_ipc` gets the lock in its turn (`Ready`; asyncio's lock is first in,
first out).
Daemon (`FairSpec`): a process goes on (Telegram answers, or `client.start` raises)
and systemd starts the service while agents connect to its socket; a service
that keeps failing would run into `StartLimitBurst`, hence the bound on failures.
Watchdog (`FairSpec`): threads run, sleeps and pings end by their timeouts; proxies,
signals and the daemon are free. Login (`FairSpec`): calls return or raise and `wait()`
ends after `qr_timeout`; nothing the user types is forced. Server (`FairSpec`): a request is
answered or fails, the event loop runs what is ready (`Step` of each call) and the
`finally` of `run_mcp_server` runs (`Finish`); neither new calls, cancellations, the
effects of requests nor the listener's fortunes are forced.

Findings (each is a run that must fail):
- `UnseenIsKept`: a message whose push failed is not safe on disk. The bridge
  clears RAM after a failed push too; the next message is alone in RAM, `peek`
  answers from RAM, and the ack of that message removes the older one.
  `docs/developer-guide.md` [УМ-Г] says it stays.
- `AckIsAtomic`: an ack that is cancelled by `DISPATCH_TIMEOUT` leaves the lock while
  its thread goes on; what is appended before the thread's `replace` is lost.
- `RepliesAreOwn`: the client's reader has asyncio's limit of 64 KiB, the server
  sends up to more; a longer reply is cut, the call raises, and every later call
  on the connection gets the reply of the one before it.

Observations the passing runs rest on. After a push RAM is empty, and then `ack`
returns 0 without looking at the file (`ServeAck`): `inbox_read` returns the same
messages for ever, until a newer one arrives, though
`docs/spec-v0.9.2-finalization.md:102` says it drains the store. `Mailbox` promises
no more than that a message may be granted again.

A record whose append raised after the write (`failed`) is in the file and in no
buffer: it is not pushed before a restart, `inbox_read` does not return it while RAM
holds anything, and the ack of a newer message removes it. That is the exception
in `RamIsTail`; nothing else is ever missing between the records of a buffer.

`CallReturns` and `ConnectionsEnd` each have one exception, because neither end's `drain`
has a timeout. A handler that waits for a client to read a large reply, which the
client has given up after its own ValueError or a cancelled call, does not get to
the idle timeout, and its connection stays open as long as the client keeps it
(`ipc_server.py:163`). If the client's next request is of several megabytes, it
waits in its own `drain` (`ipc_client.py:67`) for a server that waits for it: the
call, and with it the client's lock, is stuck until one of the two processes ends.

`Kept` excepts the messages in `Wide` and `glued`. A text with U+2028, U+2029 or U+0085
is written as one line and read as two that do not parse, so the message does not
survive a restart (the architecture document, line 23, says it does); an
append after a write that was cut short is glued to the torn line; and when the
cut was inside a UTF-8 character, `read_text` raises for the whole file and the
daemon cannot start until somebody repairs it (`Start` is never enabled).
`AckKeepsJunk` is about acks only: `docs/spec-daemon-hardening.md:42` expects corrupt
lines in the quarantine at a trim, too, but `_append_sync` drops them with the
others (`inbox_store.py:22-28`).

`LiveFileKept` and `PathIsServed` need
`raced`: asyncio removes whatever socket file is at the path before it binds, so
a fallback daemon that was connecting to Telegram while `tgmcpd.socket` started
cuts the unit off from its clients, where `docs/spec-socket-activation.md` expects
EADDRINUSE and exit 69; and a unit started while a fallback daemon serves leaves
that daemon without a path. And after a signal a fallback daemon neither removes
its file nor disconnects (`Finally` ends in an IndexError); the next start removes
the file, which is why `ServiceComesBack` still holds.

`GlobalRate` and `ChatRate` are stated with limit + 1, because that is what the
code keeps: a call that had to wait notes the time before its sleep and leaves
the entry it waited for in the queue. `ChatRate` allows one call more for each group
call, since the two kinds undermine each other's limit where they share a chat,
`rate_limiter.py:33` and `:34` notwithstanding. A private call clears the shared queue
by its own window of a second, so that group calls of the last minute are
forgotten (with three of them and a private one TLC lets all three through the
window of two). And a private call that finds the queue filled by group calls
waits for the first entry only: with a limit of one in three ticks and group
calls at 0 and 1, three private calls that come at 2 pass at 3, 4 and 5. A bound
for private calls that ignores the group calls holds in the small instance of
`limiter` and is false; the attempt to prove it showed that.

`HungIsReplaced` has an exception for a counter past the limit. A thread whose
proxy ended while it was pinging raises the counter for nobody; if that takes it
to the limit after the main thread has looked, the next proxy is started, its
thread finds the limit exceeded at the first failure and ends, and nobody watches
that proxy. And a signal sets the event only: the watchdog ends when its proxy
does.

A QR login gets one code, not three: `except TimeoutError` in `qr_auth.py:83` names
Telethon's class for an error of Telegram's servers, and the timeout of `wait()` is
asyncio's, which the outer clause takes for a failure (`Fail`). And a `sign_in` or
`get_me` that fails after the right password tells the user it was wrong
(`PasswordFails`, `NameFails`); with a `wait` or `recreate` that fails after Telegram has
accepted the code, that is the exception in `ResultIsTrue`: the login is reported
as failed and the session is authorized. Telegram's TimeoutError in that `get_me`
even leads to another code (`TelegramTimesOut`). `NoCodeLeft` has three exceptions: a
disk that fails, a Ctrl-C after `img.save` and before the file is in `temp_files`
(`qr_auth.py:136-137`), and one inside the last clean-up. The limits in `TelegramSettings` reach no limiter:
`create_client` builds one from them that nobody keeps, and the tools use the
default one, which is why `RateLimiter` has no action for it.

`LoneIsUndisturbed` is about calls that overlap no other, because the client's
`__aexit__` knows no other: a tool that ends while another waits for Telegram takes
its connection away, and the agent of the second gets no answer, whether or
not the request has been carried out. `ExactlyWhatIsSaid` holds although the
decorator runs a tool again after a FloodWait, because it hardly ever does: every
tool catches the FloodWait of its own requests as an Exception and reports it, so
only one in the client's `get_me` reaches the decorator, and the retries promised in
`tools.py:37` never happen for the requests themselves (with
`flood_sleep_threshold=0`, `telegram.py:137`, Telethon does not wait either). It
says nothing of "empty" successes: `ban_chat_member` reports "Successfully banned"
for a member of a basic group without asking Telegram for anything (the answer
stands after the `if`, `tools.py:826`). And it says nothing of errors: "Error" may
stand for a change that was made, or for the first of two. (`delete_message` and
`forward_message` with more than 100 ids are several requests inside Telethon; the
model takes them for one, and a failure between them is an error, too.)

Seen on the way and in no model: `InboxRead` and `InboxPeek` of version 1 call
functions that `inbox.py` no longer has; `get_all_chats` needs a `~/Desktop`; both
servers open one session file, but only the daemon takes the lock
(`docs/spec-db-lock-resolution.md:11` has it own the session alone).

## 5. Proofs

### Inbox

`InboxProofs` proves, for every set of topics, proxies and watchers, every cap,
buffer length, number of attempts, messages, failures, crashes and kills, from the
named assumptions of the modules: `NoProxy` is no proxy, and (`RoomAssumption`) the cap is 0
or leaves room in the file for a full buffer, the failed appends of one daemon and the
unreadable messages together (10000 against 200 in the daemon). Without that, records
the buffer lacks could push out of the file records it holds.

- `TypeCorrect`: `Spec => []TypeOK`.
- `InvCorrect`: `Spec => []InboxInv`, with one lemma per action. `RamIsTail` alone is
  not inductive: a record waiting in the queue must be newer than everything
  stored, read or queued before it, a queued ack must concern a message that
  was handed out and RAM must already be cut below it, and a dead daemon must
  hold nothing. `QueueOrdered` and `Bookkeeping` say that.
- `BufferIsTail`: `Spec => []RamIsTail`. The step that matters is the append: the
  new buffer is the newest `maxlen` of a tail, the new file the newest `cap` of
  the whole, and what is newer than a given record is in the buffer or among the
  few the buffer does not have (`NewestOfTail`, whose set J are failed and
  unreadable records), so with room for both retention never cuts into RAM.
- `NoLostWakeup`: `Spec => []SleepsOnlyWhenEmpty`.
- `OnePush`: `Spec => NoSecondPush`, for any number of watchers on a topic. `TakenUp`
  adds to `InboxInv` that what a watcher has taken up is out of RAM once its push is
  over and cannot return: every append that still waits is newer (`TakenIsOlder`),
  and a daemon that died starts with watchers that have taken up nothing.
- `ImplementsMailbox`: `Spec => MailboxSpec`, by mapping every step to `Post`,
  `Grant`, `Settle` or a stutter; a crash in the middle of an append or an ack, and an
  append that raises after its write, is a `Post` (without its trim) or a `Settle`.

### Rate limiter

`RateLimiterProofs` proves, for every set of calls, all limits, windows, slots,
retries and every length of the clock, from `LimiterAssumption` (limits and windows
are positive, a call is either private or group):

- `TypeCorrect`, `SlotsReturnCorrect`: the two are inductive only together. The number
  of free slots stays within its type because it is `MaxConcurrent` less the
  calls that hold one (`HeldChanges` counts them through each step).
- `ResolvesCorrect`, `SuccessesCorrect`: the day's limit holds and successes never
  outnumber requests (`ResolvesWithinDay`, `SuccessesBounded`, which no run repeats).
- `LocksMoveCorrect`: a lock is held exactly by a sleeper, who wakes within a
  window. It needs `StampsPast`: no stamp lies in the future, or the entry a
  sleeper waits for could be further away than a window.
- `GlobalRateCorrect`, the one that is hard to see in the code. `GlobalInv` relates
  the queue of noted times to the true history: the queue stands for the last
  grants; what has been dropped from it was granted a window ago, except
  possibly the last of it; every note is no older than the grant before it,
  since a sleeper keeps the lock; there is one entry too many only if the first
  is too old to count; a sleeper waits for the first of exactly `GlobalLimit`
  entries. So the call `GlobalLimit + 1` places back was granted no later than the
  note of the one after it, which is a window old (`GlobalGrant`).
  `CleanQueue` is the lemma on `_cleanup_old_requests`; that its loop has a first
  place to stop follows from the well-foundedness of < on the naturals
  (`LeastNumber`).
- `ChatRateCorrect`, the same for a chat, from `ChatWindow <= GroupWindow` (1 and 60
  seconds in the code): a group call then drops nothing a private call still
  counts. The length of the queue says nothing here, so `ChatInv` counts from the
  end: of the last `ChatLimit` entries and one for each group call so far the next
  older one is out of the window, queue and history both ascend, and a private
  call sleeps only for the first of no more than that many (`ChatClean`, `ChatCount`).
  `OldGrant` carries that from the queue to the grants.

### Daemon

`DaemonProofs` proves, for every set of processes and inodes and all bounds, from
`DaemonAssumption` (`None` is neither a process nor an inode):

- `TypeCorrect`, `OneSessionCorrect`: exactly the holder of the flock is past it.
- `PathIsServedCorrect`, `LiveFileKeptCorrect`. `PathInv` says what the path can be at each
  step of a fallback start-up if `raced` does not hold: a dead file when the probe
  was refused, nothing from there to the bind, then the process's own. It needs
  `FdInv`: a service that outlives its unit listens on an inode that is no longer
  at the path, or a later fallback process could unlink the file of a live one.

### Watchdog

`WatchdogProofs` proves, for every limit and number of proxies, `TypeCorrect`,
`OneProxyCorrect` (only the last proxy can run, and only while the main thread
waits for it) and `KillsBoundedCorrect`. The latter needs `KillIsCounted`: between the
increment and the kill the counter is ahead of the kills, whoever raises it
meanwhile. The main loop's own comparison is not needed for it.

### Login

`LoginProofs` proves, for any number of codes and passwords, `TypeCorrect`,
`ResultIsTrueCorrect`, `ShownIsCurrentCorrect` and `NoCodeLeftCorrect`. `Standing` says at which
steps Telegram has accepted the login and that elsewhere it has done so unheard,
`Counted` that every attempt has its own token, `Remembered` that a picture on the
disk is in `temp_files` until the end, unless disk or Ctrl-C has left it behind.

### Server

`ServerProofs` proves, for every set of calls, any number of retries and whatever
fails or is cancelled, `TypeCorrect`, `ExactlyWhatIsSaidCorrect` and
`LoneIsUndisturbedCorrect`. `Progress` relates where a call stands to its requests: none
sent while it is outside the client (so calling the tool again repeats
nothing), those it is past carried out, the one it waits for on its way or carried
out. `Alone` says that a call which has met no other is the only one while it
runs, and that the client is then connected whenever it needs it.

### Ipc

`IpcProofs` proves, for any number of calls, connections and attempts and all
bounds, from `IpcAssumption`: `TypeCorrect`, `OneInFlightCorrect`, `OwnReplyCorrect`,
`NotRepeatedCorrect` and `SuccessMeansDoneCorrect`, all out of one inductive
invariant, `IInv`. Its parts beside the types:

- `Standing`: the client reads from another connection than it writes to only after
  the late first connect, and while a call waits.
- `Shape`, `Singly`, `Unsent`: what a connection may carry in each of its states, no
  call twice, and nothing of a call that has not been sent.
- `Truthful` and `SuccessMeansDone`: a reply on its way, a dispatch that answers, and
  a caller that has been told are all about an effect that took place.
- `Budget`, which `NotRepeated` needs: the effects a call has had and the connections
  on which it may yet have one (`Load`) are no more than one and the resends that
  `NotRepeated` excuses; an attempt that lost its request before any effect has
  cost nothing. Counting effects alone is not inductive: two requests of one call
  could be under way.
- `OneInFlight` (its exception, `skewed`, is real: `replies_are_own`): on a connection that is not `skewed` the call in flight has at most
  one request or reply, and nobody else's is before it. `OwnReply` follows.

`Gentle` says what all steps but `Send` have in common, that they bring nothing of a
call onto a connection, and takes the counting out of most of the proof.

### InboxFile

`InboxFileProofs` proves, for any number of threads, messages, errors, crashes and
timeouts and every cap, from `FileAssumption`, `TypeCorrect` and from `FileInv`
(`InvCorrect`) the properties of `file_safety`: `InOrderCorrect`, `KeptCorrect`,
`RewriteIsCurrentCorrect`, `AckKeepsJunkCorrect`, `WithinCapCorrect`. Like the
properties, all of `FileInv` but types and form is claimed only without `overlap`. Its
parts:

- `Formed`: an open last line is a line, the quarantine gets only lines that do not
  parse, an append has an id of its own. (That an inode is always free for the next
  tmp file is the lemma `FreshIsFree`, by counting.)
- `Solo`, `Apart`: one thread works at a time; the tmp file is never the file.
- `Working`: step by step, what the thread holds is what the present file would
  give it: the buffer of a trim is the last lines of the present file, the buffer of an
  ack its records after `last_id`, and once `Fill` is over the tmp file has the buffer. This
  is why a rewrite replaces what it has read, and a crash that leaves a half-filled
  tmp file does no harm: the next `OpenTmp` starts from nothing.
- `Ordered`: records ascend, and what is about to be written is newer than all of
  them; otherwise neither a trim nor an ack would keep the order.
- `OpenLast`: a last line without its newline is no stored record, since nothing is
  stored before the newline is, and so nothing stored is lost when the next append is
  glued to it.
- `Close`: each record that is due, stored or about to be, lies no further from the
  end of the file than what the messages after it can have taken (`Behind`: a line
  each, two for a message whose text has a line separator). `Kept` alone is not
  inductive: what a trim removes has to be outnumbered by what came after it.

The loop of `_ack_sync` is the recursive function `Survivors`. The library's induction
theorems cannot be used for it (they take an operator); `SurvivorsKept` argues
from the least counterexample instead.

### Only model-checked

Every safety property of a passing run is proved. The liveness properties
`BufferedIsOffered`, `ReadReturns`, `CallReturns`, `ConnectionsEnd`, `ServiceComesBack`, `HungIsReplaced`, `ThreadsEnd`,
`QrLoginEnds` and `EverythingEnds` are model-checked only: liveness under fairness, and
with it ENABLED, is out of the prover's reach.

## 6. Not modelled

See the plan for what follows. Never to be modelled: the seventy tool wrappers
of `tools.py` one by one (each forwards its arguments to one Telethon call and
formats the result), the installation and monitoring scripts, and Telethon,
asyncio and systemd themselves, which appear only as the code uses them.
