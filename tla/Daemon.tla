------------------------------- MODULE Daemon -------------------------------
(***************************************************************************)
(* Who owns the socket file and the Telegram session: the start-up and the  *)
(* shutdown of tgmcpd (main and its helpers in src/mcp_telegram/daemon.py,  *)
(* IPCServer.bind), beside the units tgmcpd.socket and tgmcpd.service.      *)
(*                                                                          *)
(* A process is started by systemd with the socket unit's descriptor        *)
(* ("activation") or by hand without one ("fallback").  It takes the        *)
(* instance lock, probes and removes a stale socket file if it has no       *)
(* descriptor, connects to Telegram, restores the inbox, binds and serves.  *)
(* Files are inodes; the steps are the system calls other processes can     *)
(* come between.  The unit's path is the daemon's (otherwise every start    *)
(* ends with 69); exit codes and the contents of the inbox are left out.    *)
(***************************************************************************)
EXTENDS Naturals, FiniteSets

CONSTANTS Proc,       \* places for processes; a place is used again
          Inode,      \* socket inodes
          None,       \* no process, no file, no descriptor
          MaxStops,   \* bound: kills, signals and failures
          MaxManual   \* bound: processes started by hand

ASSUME DaemonAssumption ==
  /\ IsFiniteSet(Proc) /\ None \notin Proc /\ None \notin Inode
  /\ MaxStops \in Nat /\ MaxManual \in Nat

VARIABLES pc,        \* pc[p]: where main() of process p is
          mode,      \* mode[p]: how p was started
          fd,        \* fd[p]: the inode p listens on
          session,   \* the processes that have the Telegram session open
          flock,     \* who has the instance lock
          path,      \* the inode at sock_path
          sd,        \* the inode tgmcpd.socket listens on
          stops, manual,
          raced      \* history: the socket unit was started beside a
                     \* fallback process that had probed the path before

procVars == <<pc, mode, fd, session, flock>>
counters == <<stops, manual>>
vars == <<procVars, path, sd, counters, raced>>

(* In the order of main().  "stale": the probe was refused; "remove" and    *)
(* "bind": inside start_unix_server; "finally": of the gather.              *)
Alone == {"probe", "stale", "connect", "restore", "remove", "bind", "serve",
          "finally", "disconnect"}
Up == {"lock"} \cup Alone

TypeOK ==
  /\ pc \in [Proc -> {"off"} \cup Up]
  /\ mode \in [Proc -> {"activation", "fallback"}]
  /\ fd \in [Proc -> Inode \cup {None}]
  /\ session \subseteq Proc
  /\ flock \in Proc \cup {None}
  /\ path \in Inode \cup {None} /\ sd \in Inode \cup {None}
  /\ stops \in 0 .. MaxStops /\ manual \in 0 .. MaxManual
  /\ raced \in BOOLEAN
  /\ \A p \in Proc : pc[p] = "serve" => fd[p] # None /\ p \in session

Init ==
  /\ pc = [p \in Proc |-> "off"]
  /\ mode = [p \in Proc |-> "fallback"]
  /\ fd = [p \in Proc |-> None]
  /\ session = {} /\ flock = None
  /\ path = None /\ sd = None
  /\ stops = 0 /\ manual = 0 /\ raced = FALSE

-----------------------------------------------------------------------------
Listening(i) == i = sd \/ \E p \in Proc : fd[p] = i

(* An inode no name and no descriptor refers to.                            *)
New(i) == i # path /\ ~Listening(i)

Goto(p, l) == pc' = [pc EXCEPT ![p] = l]

\* MUTANT of Exit: a lock file instead of a lock on a file.
ExitKeepsLock(p) ==
  /\ Goto(p, "off")
  /\ fd' = [fd EXCEPT ![p] = None]
  /\ session' = session \ {p}
  /\ UNCHANGED <<mode, flock>>

(* A process ends: the kernel closes its descriptors, that of the lock      *)
(* among them.                                                              *)
Exit(p) ==
  /\ Goto(p, "off")
  /\ fd' = [fd EXCEPT ![p] = None]
  /\ session' = session \ {p}
  /\ flock' = IF flock = p THEN None ELSE flock
  /\ UNCHANGED mode

Stop == stops < MaxStops /\ stops' = stops + 1

-----------------------------------------------------------------------------
(* systemd and the administrator.                                           *)

ServiceDown == \A p \in Proc : mode[p] = "activation" => pc[p] = "off"
PastProbe(p) == mode[p] = "fallback" /\ pc[p] \in Alone \ {"probe"}

(* tgmcpd.socket starts: what is in the way of its bind is removed.  It     *)
(* does not start under a running service.                                  *)
SocketStart ==
  /\ sd = None
  /\ ServiceDown
  /\ \E i \in Inode : New(i) /\ sd' = i /\ path' = i
  /\ raced' = \E p \in Proc : PastProbe(p)
  /\ UNCHANGED <<procVars, counters>>

(* RemoveOnStop removes the file by its name.                               *)
SocketStop ==
  /\ sd # None
  /\ sd' = None /\ path' = None
  /\ UNCHANGED <<procVars, counters, raced>>

(* A connection waits at the socket unit, or Restart=always: one service at *)
(* a time, with the unit's descriptor.                                      *)
StartService(p) ==
  /\ sd # None
  /\ ServiceDown
  /\ pc[p] = "off"
  /\ Goto(p, "lock")
  /\ mode' = [mode EXCEPT ![p] = "activation"]
  /\ fd' = [fd EXCEPT ![p] = sd]
  /\ UNCHANGED <<session, flock, path, sd, counters, raced>>

(* python -m src.mcp_telegram.daemon                                        *)
StartManually(p) ==
  /\ manual < MaxManual
  /\ manual' = manual + 1
  /\ pc[p] = "off"
  /\ Goto(p, "lock")
  /\ mode' = [mode EXCEPT ![p] = "fallback"]
  /\ UNCHANGED <<fd, session, flock, path, sd, stops, raced>>

-----------------------------------------------------------------------------
(* main()                                                                   *)

AfterLock(p) == IF mode[p] = "activation" THEN "connect" ELSE "probe"

\* MUTANT of Lock: a second instance only logs.
LockIsAdvisory(p) ==
  /\ pc[p] = "lock"
  /\ flock' = IF flock = None THEN p ELSE flock
  /\ Goto(p, AfterLock(p))
  /\ UNCHANGED <<mode, fd, session, path, sd, counters, raced>>

(* acquire_instance_lock, and then sd_listen_fds: a second instance exits.  *)
Lock(p) ==
  /\ pc[p] = "lock"
  /\ IF flock # None
     THEN Exit(p)
     ELSE flock' = p /\ Goto(p, AfterLock(p)) /\ UNCHANGED <<mode, fd, session>>
  /\ UNCHANGED <<path, sd, counters, raced>>

\* MUTANT of Probe: no probe, the file is removed if there is one.
ProbeNothing(p) ==
  /\ pc[p] = "probe"
  /\ Goto(p, IF path = None THEN "connect" ELSE "stale")
  /\ UNCHANGED <<mode, fd, session, flock, path, sd, counters, raced>>

(* _check_stale_socket: no file; somebody listens on it, exit; or nobody.   *)
Probe(p) ==
  /\ pc[p] = "probe"
  /\ IF path # None /\ Listening(path)
     THEN Exit(p)
     ELSE /\ Goto(p, IF path = None THEN "connect" ELSE "stale")
          /\ UNCHANGED <<mode, fd, session, flock>>
  /\ UNCHANGED <<path, sd, counters, raced>>

(* The unlink is by name: it removes whatever the path is by now.           *)
RemoveStale(p) ==
  /\ pc[p] = "stale"
  /\ path' = None
  /\ Goto(p, "connect")
  /\ UNCHANGED <<mode, fd, session, flock, sd, counters, raced>>

(* Journals of the session file are deleted and the client is started.      *)
Connect(p) ==
  /\ pc[p] = "connect"
  /\ session' = session \cup {p}
  /\ Goto(p, "restore")
  /\ UNCHANGED <<mode, fd, flock, path, sd, counters, raced>>

(* restore_from_store, then handler, IPC server and bridge without an await.*)
Restore(p) ==
  /\ pc[p] = "restore"
  /\ Goto(p, "remove")
  /\ UNCHANGED <<mode, fd, session, flock, path, sd, counters, raced>>

(* start_unix_server: the descriptor is adopted; or a socket file at the    *)
(* path is removed, whoever listens on it ...                               *)
Adopt(p) ==
  /\ pc[p] = "remove"
  /\ mode[p] = "activation"
  /\ Goto(p, "serve")
  /\ UNCHANGED <<mode, fd, session, flock, path, sd, counters, raced>>

RemoveAny(p) ==
  /\ pc[p] = "remove"
  /\ mode[p] = "fallback"
  /\ path' = None
  /\ Goto(p, "bind")
  /\ UNCHANGED <<mode, fd, session, flock, sd, counters, raced>>

\* MUTANT of Bind: the server's socket is not kept.
BindAndForget(p) ==
  /\ pc[p] = "bind"
  /\ IF path # None
     THEN Exit(p) /\ UNCHANGED path
     ELSE /\ \E i \in Inode : New(i) /\ path' = i
          /\ Goto(p, "serve")
          /\ UNCHANGED <<mode, fd, session, flock>>
  /\ UNCHANGED <<sd, counters, raced>>

(* ... and a new one is bound and listened on; EADDRINUSE ends the process. *)
Bind(p) ==
  /\ pc[p] = "bind"
  /\ IF path # None
     THEN Exit(p) /\ UNCHANGED path
     ELSE /\ \E i \in Inode : New(i) /\ path' = i /\ fd' = [fd EXCEPT ![p] = i]
          /\ Goto(p, "serve")
          /\ UNCHANGED <<mode, session, flock>>
  /\ UNCHANGED <<sd, counters, raced>>

(* SIGTERM or SIGINT: the gather is cancelled, serve() closes the server.   *)
Signal(p) ==
  /\ pc[p] = "serve"
  /\ Stop
  /\ fd' = [fd EXCEPT ![p] = None]
  /\ Goto(p, "finally")
  /\ UNCHANGED <<mode, session, flock, path, sd, manual, raced>>

(* The client or a watcher raises: the gather ends, the server goes on.     *)
TaskFails(p) ==
  /\ pc[p] = "serve"
  /\ Stop
  /\ Goto(p, "finally")
  /\ UNCHANGED <<mode, fd, session, flock, path, sd, manual, raced>>

\* MUTANT of Finally: the file is removed in every mode.
FinallyUnlinks(p) ==
  /\ pc[p] = "finally"
  /\ path' = None
  /\ Goto(p, "disconnect")
  /\ UNCHANGED <<mode, fd, session, flock, sd, counters, raced>>

(* _unlink_if_owned compares the inode of the path with that of the socket  *)
(* object, which is in another file system: it never removes the file.  A   *)
(* closed server has no sockets[0]: the IndexError ends the process before  *)
(* it disconnects.                                                          *)
Finally(p) ==
  /\ pc[p] = "finally"
  /\ IF mode[p] = "fallback" /\ path # None /\ fd[p] = None
     THEN Exit(p)
     ELSE Goto(p, "disconnect") /\ UNCHANGED <<mode, fd, session, flock>>
  /\ UNCHANGED <<path, sd, counters, raced>>

(* At most five seconds; then main() returns.                               *)
Disconnect(p) ==
  /\ pc[p] = "disconnect"
  /\ Exit(p)
  /\ UNCHANGED <<path, sd, counters, raced>>

(* A kill, a signal before the handlers are there, a client.start() or a    *)
(* restore that raises: nothing between these awaits cleans up.             *)
Dies(p) ==
  /\ pc[p] \in Up
  /\ Stop
  /\ Exit(p)
  /\ UNCHANGED <<path, sd, manual, raced>>

-----------------------------------------------------------------------------
Step(p) == \/ Lock(p) \/ Probe(p) \/ RemoveStale(p) \/ Connect(p) \/ Restore(p)
           \/ Adopt(p) \/ RemoveAny(p) \/ Bind(p) \/ Finally(p) \/ Disconnect(p)

Next == \/ SocketStart \/ SocketStop
        \/ \E p \in Proc : \/ StartService(p) \/ StartManually(p) \/ Step(p)
                           \/ Signal(p) \/ TaskFails(p) \/ Dies(p)

Spec == Init /\ [][Next]_vars

(* Fairness: a process that runs goes on (Telegram answers or client.start  *)
(* raises), and systemd starts the service while agents connect to its      *)
(* socket.  Units, signals, failures and manual starts are not forced.      *)
Fairness == /\ \A p \in Proc : WF_vars(Step(p))
            /\ WF_vars(\E p \in Proc : StartService(p))

FairSpec == Spec /\ Fairness

-----------------------------------------------------------------------------
(* Properties.                                                              *)

(* No two processes have the session file open, or delete its journals      *)
(* while another uses it, in whatever modes they were started and however   *)
(* the one before came to its end (daemon.py:28-47).                        *)
OneSession == \A p, q \in Proc : p \in session /\ pc[q] \in Alone => p = q

(* A daemon never takes the path from somebody who listens on it, unless    *)
(* the socket unit came between its probe and its bind (the contract of     *)
(* docs/spec-socket-activation.md:46-52).                                   *)
LiveFileKept ==
  [][path' # path /\ path # None /\ Listening(path) /\ sd' = sd =>
       raced /\ \E p \in Proc : pc[p] \in {"stale", "remove"}]_vars

(* Whoever serves is found at the path, and while its unit is active        *)
(* systemd's file is the one there: also after crashes of fallback          *)
(* processes that left their file, and restarts of the unit.                *)
PathIsServed ==
  ~raced => /\ sd # None => path = sd
            /\ \A p \in Proc : pc[p] = "serve" /\ mode[p] = "fallback" => path = fd[p]

Reachable == path # None /\ \E p \in Proc : pc[p] = "serve" /\ fd[p] = path

(* While the socket unit is active, a daemon that can be reached comes back *)
(* after every death and every manual start that got in its way.            *)
ServiceComesBack == sd # None /\ ~raced ~> Reachable \/ sd = None \/ raced
=============================================================================
