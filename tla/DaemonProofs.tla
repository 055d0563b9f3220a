---------------------------- MODULE DaemonProofs ----------------------------
(* Proofs about Daemon, for every set of processes and inodes and all       *)
(* bounds.                                                                  *)
EXTENDS Daemon, TLAPS

(***************************************************************************)
(* The inductive invariant.                                                 *)
(***************************************************************************)

(* The lock is had by the one process past it; only such a process has the  *)
(* session, and has it once it has connected.                               *)
LockInv ==
  /\ \A p \in Proc : pc[p] \in Alone <=> flock = p
  /\ \A p \in Proc : p \in session => pc[p] \in Alone
  /\ \A p \in Proc : pc[p] \in {"restore", "remove", "bind", "serve"} => p \in session

(* Who listens: a fallback process from its bind on; an activated one on    *)
(* the unit's inode, and not at the path once the unit is gone; never two   *)
(* services at a time.                                                      *)
FdInv ==
  /\ \A p \in Proc : pc[p] = "off" => fd[p] = None
  /\ \A p \in Proc : mode[p] = "activation" => pc[p] \notin {"probe", "stale", "bind"}
  /\ \A p \in Proc : mode[p] = "fallback" /\ fd[p] # None =>
                       pc[p] \in {"serve", "finally", "disconnect"}
  /\ \A p \in Proc : pc[p] = "serve" => fd[p] # None
  /\ \A p \in Proc : mode[p] = "activation" /\ pc[p] \in Up \ {"finally", "disconnect"} =>
                       fd[p] # None
  /\ \A p \in Proc : mode[p] = "activation" /\ fd[p] # None =>
                       IF sd # None THEN fd[p] = sd ELSE fd[p] # path
  /\ \A p, q \in Proc : /\ mode[p] = "activation" /\ mode[q] = "activation"
                        /\ pc[p] # "off" /\ pc[q] # "off"
                        => p = q

(* The path: as long as the unit has not been started beside a fallback     *)
(* process, its file is there and no such process is; without it the path   *)
(* is a dead file, nothing, or the fallback process's own.                  *)
PathInv ==
  ~raced =>
    /\ sd # None => path = sd /\ \A p \in Proc : ~PastProbe(p)
    /\ \A p \in Proc : mode[p] = "fallback" =>
         /\ pc[p] = "stale" => path # None /\ ~Listening(path)
         /\ pc[p] \in {"connect", "restore", "remove", "bind"} => path = None
         /\ fd[p] # None => path = fd[p]

Inv == TypeOK /\ LockInv /\ FdInv /\ PathInv

LEMMA InitInv == Init => Inv
<1> SUFFICES ASSUME Init PROVE Inv
  OBVIOUS
<1> USE DaemonAssumption DEF Init, Alone, Up
<1>1. TypeOK
  <2>1. /\ pc \in [Proc -> {"off"} \cup Up]
        /\ mode \in [Proc -> {"activation", "fallback"}]
        /\ fd \in [Proc -> Inode \cup {None}]
    OBVIOUS
  <2>2. /\ session \subseteq Proc /\ flock \in Proc \cup {None}
        /\ path \in Inode \cup {None} /\ sd \in Inode \cup {None}
    OBVIOUS
  <2>3. stops \in 0 .. MaxStops /\ manual \in 0 .. MaxManual
    OBVIOUS
  <2>4. raced \in BOOLEAN
    OBVIOUS
  <2>5. \A p \in Proc : pc[p] # "serve"
    OBVIOUS
  <2> QED
    BY <2>1, <2>2, <2>3, <2>4, <2>5 DEF TypeOK
<1>2. LockInv
  BY DEF LockInv
<1>3. FdInv
  BY DEF FdInv
<1>4. PathInv
  BY DEF PathInv
<1> QED
  BY <1>1, <1>2, <1>3, <1>4 DEF Inv

(* Every step keeps it.                                                     *)
LEMMA StepInv == Inv /\ [Next]_vars => Inv'
<1> SUFFICES ASSUME Inv, [Next]_vars PROVE Inv'
  OBVIOUS
<1> USE DaemonAssumption DEF Inv, TypeOK, LockInv, FdInv, PathInv, PastProbe, Alone, Up,
        Listening, Goto, Stop, vars, procVars, counters
<1>1. CASE UNCHANGED vars
  BY <1>1
<1>2. CASE SocketStart
  BY <1>2 DEF SocketStart, ServiceDown, New
<1>3. CASE SocketStop
  BY <1>3 DEF SocketStop
<1>4. ASSUME NEW p \in Proc, StartService(p) PROVE Inv'
  BY <1>4 DEF StartService, ServiceDown
<1>5. ASSUME NEW p \in Proc, StartManually(p) PROVE Inv'
  BY <1>5 DEF StartManually
<1>6. ASSUME NEW p \in Proc, Lock(p) PROVE Inv'
  BY <1>6 DEF Lock, Exit, AfterLock
<1>7. ASSUME NEW p \in Proc, Probe(p) PROVE Inv'
  BY <1>7 DEF Probe, Exit
<1>8. ASSUME NEW p \in Proc, RemoveStale(p) PROVE Inv'
  BY <1>8 DEF RemoveStale
<1>9. ASSUME NEW p \in Proc, Connect(p) PROVE Inv'
  BY <1>9 DEF Connect
<1>10. ASSUME NEW p \in Proc, Restore(p) PROVE Inv'
  BY <1>10 DEF Restore
<1>11. ASSUME NEW p \in Proc, Adopt(p) PROVE Inv'
  BY <1>11 DEF Adopt
<1>12. ASSUME NEW p \in Proc, RemoveAny(p) PROVE Inv'
  BY <1>12 DEF RemoveAny
<1>13. ASSUME NEW p \in Proc, Bind(p) PROVE Inv'
  BY <1>13 DEF Bind, Exit, New
<1>14. ASSUME NEW p \in Proc, Signal(p) PROVE Inv'
  BY <1>14 DEF Signal
<1>15. ASSUME NEW p \in Proc, TaskFails(p) PROVE Inv'
  BY <1>15 DEF TaskFails
<1>16. ASSUME NEW p \in Proc, Finally(p) PROVE Inv'
  BY <1>16 DEF Finally, Exit
<1>17. ASSUME NEW p \in Proc, Disconnect(p) PROVE Inv'
  BY <1>17 DEF Disconnect, Exit
<1>18. ASSUME NEW p \in Proc, Dies(p) PROVE Inv'
  BY <1>18 DEF Dies, Exit
<1> QED
  BY <1>1, <1>2, <1>3, <1>4, <1>5, <1>6, <1>7, <1>8, <1>9, <1>10, <1>11, <1>12, <1>13,
     <1>14, <1>15, <1>16, <1>17, <1>18 DEF Next, Step

(* It holds throughout.                                                     *)
LEMMA Invariant == Spec => []Inv
BY InitInv, StepInv, PTL DEF Spec

(***************************************************************************)
(* What follows from it.                                                    *)
(***************************************************************************)

(* Every variable keeps its type, and whoever serves listens and has the    *)
(* session.                                                                 *)
THEOREM TypeCorrect == Spec => []TypeOK
BY Invariant, PTL DEF Inv

(* Two processes never have the Telegram session at a time, and none        *)
(* deletes the journals of another, however they were started and killed.   *)
THEOREM OneSessionCorrect == Spec => []OneSession
<1>1. Inv => OneSession
  BY DaemonAssumption DEF Inv, LockInv, OneSession
<1> QED
  BY <1>1, Invariant, PTL

(* Whoever serves is found at the path, and an active unit's file is there, *)
(* if the unit was not started beside a fallback process.                   *)
THEOREM PathIsServedCorrect == Spec => []PathIsServed
<1>1. Inv => PathIsServed
  <2> SUFFICES ASSUME Inv, ~raced PROVE PathIsServed
    BY DEF PathIsServed
  <2>1. \A p \in Proc : pc[p] = "serve" => fd[p] # None
    BY DEF Inv, FdInv
  <2> QED
    BY <2>1 DEF Inv, PathInv, PathIsServed
<1> QED
  BY <1>1, Invariant, PTL

(* A daemon takes the path from a listener only when it unlinks by name     *)
(* what was stale, or not there, when it probed, and the socket unit has    *)
(* been started since: in particular no daemon does at its end, and none    *)
(* in activation mode.                                                      *)
THEOREM LiveFileKeptCorrect == Spec => LiveFileKept
<1> DEFINE Taken == path' # path /\ path # None /\ Listening(path) /\ sd' = sd
           Excused == raced /\ \E p \in Proc : pc[p] \in {"stale", "remove"}
<1>1. Inv /\ [Next]_vars => (Taken => Excused)
  <2> SUFFICES ASSUME Inv, [Next]_vars, Taken PROVE Excused
    OBVIOUS
  <2>1. PICK p \in Proc : RemoveStale(p) \/ RemoveAny(p)
    <3> USE DEF vars, procVars, counters
    <3>1. ~UNCHANGED vars /\ ~SocketStart /\ ~SocketStop
      BY DaemonAssumption DEF SocketStart, SocketStop
    <3>2. ASSUME NEW p \in Proc
          PROVE  /\ ~StartService(p) /\ ~StartManually(p) /\ ~Lock(p) /\ ~Probe(p)
                 /\ ~Connect(p) /\ ~Restore(p) /\ ~Adopt(p)
      BY DEF StartService, StartManually, Lock, Probe, Connect, Restore, Adopt
    <3>3. ASSUME NEW p \in Proc
          PROVE  ~Finally(p) /\ ~Disconnect(p) /\ ~Signal(p) /\ ~TaskFails(p) /\ ~Dies(p)
      BY DEF Finally, Disconnect, Signal, TaskFails, Dies
    <3>4. ASSUME NEW p \in Proc PROVE ~Bind(p)
      BY DEF Bind
    <3> QED
      BY <3>1, <3>2, <3>3, <3>4 DEF Next, Step
  <2>2. pc[p] \in {"stale", "remove"} /\ mode[p] = "fallback"
    BY <2>1, DaemonAssumption DEF RemoveStale, RemoveAny, Inv, TypeOK, FdInv
  <2>3. raced
    BY <2>2, DaemonAssumption DEF Inv, PathInv, PastProbe, TypeOK
  <2> QED
    BY <2>2, <2>3
<1> QED
  BY <1>1, Invariant, PTL DEF Spec, LiveFileKept
=============================================================================
