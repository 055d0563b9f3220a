------------------------------ MODULE Watchdog ------------------------------
(***************************************************************************)
(* The supervisor of a proxy (src/scripts/tgmcp-proxy-watchdog.py): the     *)
(* main loop starts a proxy and a thread that pings the daemon's socket;    *)
(* when a ping fails the thread takes the proxy to hang and kills it, and   *)
(* the main loop, which waits for the proxy, starts the next one.  They     *)
(* share a counter of restarts and an event; a thread may still be pinging  *)
(* when its proxy has gone and the next one is there.                       *)
(***************************************************************************)
EXTENDS Naturals, FiniteSets

CONSTANTS MAX_RESTARTS,
          MaxRuns       \* bound: proxies started

ASSUME WatchdogAssumption == MAX_RESTARTS \in Nat \ {0} /\ MaxRuns \in Nat

VARIABLES main,      \* the main thread
          runs,      \* proxies started so far; the last one is the current
          alive,     \* the proxies that run
          thread,    \* thread[n]: the thread of proxy n
          restarts,  \* restarts[0]
          stop,      \* stop_evt
          answers,   \* the daemon answers pings
          kills      \* history: how many proxies were killed

vars == <<main, runs, alive, thread, restarts, stop, answers, kills>>

Run == 1 .. MaxRuns

(* "kill": has found the ping failed and the limit not exceeded.            *)
Watching == {"sleep", "ping", "kill"}

TypeOK ==
  /\ main \in {"loop", "spawn", "wait", "check", "backoff", "ended"}
  /\ runs \in 0 .. MaxRuns
  /\ alive \subseteq 1 .. runs
  /\ thread \in [Run -> {"none", "done"} \cup Watching]
  /\ \A n \in Run : thread[n] = "none" <=> n > runs
  /\ restarts \in Nat /\ kills \in Nat
  /\ stop \in BOOLEAN /\ answers \in BOOLEAN

Init ==
  /\ main = "loop" /\ runs = 0 /\ alive = {}
  /\ thread = [n \in Run |-> "none"]
  /\ restarts = 0 /\ stop = FALSE /\ answers = TRUE /\ kills = 0

-----------------------------------------------------------------------------
(* main()                                                                   *)

Loop ==
  /\ main = "loop"
  /\ main' = IF stop THEN "ended" ELSE "spawn"
  /\ UNCHANGED <<runs, alive, thread, restarts, stop, answers, kills>>

\* MUTANT of Spawn: only the first proxy is watched.
SpawnUnwatched ==
  /\ main = "spawn"
  /\ runs < MaxRuns
  /\ runs' = runs + 1
  /\ alive' = alive \cup {runs + 1}
  /\ thread' = IF runs = 0 THEN [thread EXCEPT ![1] = "sleep"] ELSE thread
  /\ main' = "wait"
  /\ UNCHANGED <<restarts, stop, answers, kills>>

Spawn ==
  /\ main = "spawn"
  /\ runs < MaxRuns
  /\ runs' = runs + 1
  /\ alive' = alive \cup {runs + 1}
  /\ thread' = [thread EXCEPT ![runs + 1] = "sleep"]
  /\ main' = "wait"
  /\ UNCHANGED <<restarts, stop, answers, kills>>

\* MUTANT of Wait: the main loop looks at the event instead of the process.
WaitForThread ==
  /\ main = "wait"
  /\ runs \notin alive \/ thread[runs] = "kill"
  /\ main' = "check"
  /\ UNCHANGED <<runs, alive, thread, restarts, stop, answers, kills>>

(* proc.wait() returns; a signal does not interrupt it.                     *)
Wait ==
  /\ main = "wait"
  /\ runs \notin alive
  /\ main' = "check"
  /\ UNCHANGED <<runs, alive, thread, restarts, stop, answers, kills>>

Check ==
  /\ main = "check"
  /\ main' = IF stop \/ restarts >= MAX_RESTARTS THEN "ended" ELSE "backoff"
  /\ UNCHANGED <<runs, alive, thread, restarts, stop, answers, kills>>

Backoff ==
  /\ main = "backoff"
  /\ main' = "loop"
  /\ UNCHANGED <<runs, alive, thread, restarts, stop, answers, kills>>

-----------------------------------------------------------------------------
(* _watch(): a daemon thread per proxy; it ends with the main thread.       *)

Thread(n, at, to) == main # "ended" /\ thread[n] = at /\ thread' = [thread EXCEPT ![n] = to]

(* proc.poll() says so only once the main thread's proc.wait() has returned. *)
Gone(n) == n \notin alive /\ ~(main = "wait" /\ n = runs)

\* MUTANT of Poll: a thread whose proxy is gone goes on.
PollForever(n) ==
  /\ Thread(n, "sleep", IF stop THEN "done" ELSE "ping")
  /\ UNCHANGED <<main, runs, alive, restarts, stop, answers, kills>>

(* After PING_INTERVAL_S.                                                   *)
Poll(n) ==
  /\ Thread(n, "sleep", IF stop \/ Gone(n) THEN "done" ELSE "ping")
  /\ UNCHANGED <<main, runs, alive, restarts, stop, answers, kills>>

\* MUTANT of PingOk: an answer clears the counter.
PingOkForgives(n) ==
  /\ answers
  /\ restarts' = 0
  /\ Thread(n, "ping", IF stop THEN "done" ELSE "sleep")
  /\ UNCHANGED <<main, runs, alive, stop, answers, kills>>

PingOk(n) ==
  /\ answers
  /\ Thread(n, "ping", IF stop THEN "done" ELSE "sleep")
  /\ UNCHANGED <<main, runs, alive, restarts, stop, answers, kills>>

\* MUTANT of PingFails: a thread gives up at the limit.
PingFailsSoon(n) ==
  /\ ~answers
  /\ restarts' = restarts + 1
  /\ Thread(n, "ping", IF restarts' >= MAX_RESTARTS THEN "done" ELSE "kill")
  /\ UNCHANGED <<main, runs, alive, stop, answers, kills>>

(* The counter is raised whether or not the proxy is still the one that     *)
(* runs; above the limit the thread leaves its proxy alone.                 *)
PingFails(n) ==
  /\ ~answers
  /\ restarts' = restarts + 1
  /\ Thread(n, "ping", IF restarts' > MAX_RESTARTS THEN "done" ELSE "kill")
  /\ UNCHANGED <<main, runs, alive, stop, answers, kills>>

(* _terminate(): nothing if the proxy has ended by now, else SIGTERM and    *)
(* after three seconds SIGKILL.                                             *)
Terminate(n) ==
  /\ Thread(n, "kill", IF stop THEN "done" ELSE "sleep")
  /\ alive' = alive \ {n}
  /\ kills' = IF n \in alive THEN kills + 1 ELSE kills
  /\ UNCHANGED <<main, runs, restarts, stop, answers>>

-----------------------------------------------------------------------------
(* Around it.                                                               *)

(* A proxy ends by itself: its agent is gone, or it fails.                  *)
ProxyEnds ==
  /\ \E n \in alive : alive' = alive \ {n}
  /\ UNCHANGED <<main, runs, thread, restarts, stop, answers, kills>>

(* SIGTERM or SIGINT to the watchdog: an event is set, no one is woken.     *)
Shutdown ==
  /\ main # "ended"
  /\ ~stop /\ stop' = TRUE
  /\ UNCHANGED <<main, runs, alive, thread, restarts, answers, kills>>

DaemonChanges ==
  /\ answers' = ~answers
  /\ UNCHANGED <<main, runs, alive, thread, restarts, stop, kills>>

MainStep == Loop \/ Spawn \/ Wait \/ Check \/ Backoff
Watch(n) == Poll(n) \/ PingOk(n) \/ PingFails(n) \/ Terminate(n)

Next == \/ MainStep
        \/ \E n \in Run : Watch(n)
        \/ ProxyEnds \/ Shutdown \/ DaemonChanges

Spec == Init /\ [][Next]_vars

(* Fairness: threads run, sleeps and pings end.  Proxies, signals and the   *)
(* daemon do as they like.                                                  *)
FairSpec == Spec /\ WF_vars(MainStep) /\ \A n \in Run : WF_vars(Watch(n))

-----------------------------------------------------------------------------
(* Properties.                                                              *)

(* Two proxies never share the agent's stdin and stdout, whatever threads   *)
(* of former proxies still run (tgmcp-proxy-watchdog.py:107-125).           *)
OneProxy == Cardinality(alive) <= 1

(* Every kill has been counted and no more proxies are killed than          *)
(* MAX_RESTARTS, also when the threads of two proxies raise the counter     *)
(* (tgmcp-proxy-watchdog.py:75-81).                                         *)
KillsBounded == kills <= restarts /\ kills <= MAX_RESTARTS

(* A proxy whose daemon stays silent is killed, unless the watchdog is told *)
(* to stop or the counter has passed the limit, which a thread of an        *)
(* earlier proxy may have caused (tgmcp-proxy-watchdog.py:68-81).           *)
HungIsReplaced ==
  \A n \in Run : n \in alive ~> \/ n \notin alive \/ answers \/ stop
                                \/ restarts > MAX_RESTARTS

(* No thread is left behind: when its proxy has gone, or the watchdog has   *)
(* been told to stop, a thread ends (tgmcp-proxy-watchdog.py:68-71).        *)
ThreadsEnd ==
  \A n \in Run : thread[n] # "none" /\ (n < runs \/ stop)
                   ~> thread[n] = "done" \/ main = "ended"
=============================================================================
