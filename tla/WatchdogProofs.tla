--------------------------- MODULE WatchdogProofs ---------------------------
(***************************************************************************)
(* Proofs about Watchdog for every limit and any number of proxies.         *)
(***************************************************************************)
EXTENDS Watchdog, FiniteSetTheorems, TLAPS

(* Only the last proxy can run, and only while the main thread waits for it. *)
OnlyCurrent == alive \subseteq {runs} /\ (main # "wait" => alive = {})

(* A thread about to kill the current proxy has raised the counter for it.  *)
KillIsCounted ==
  runs \in alive /\ thread[runs] = "kill" => kills < restarts /\ kills < MAX_RESTARTS

Inv == TypeOK /\ OnlyCurrent /\ KillsBounded /\ KillIsCounted

LEMMA InitInv == Init => Inv
<1> SUFFICES ASSUME Init PROVE Inv
  OBVIOUS
<1>1. TypeOK
  <2>1. thread \in [Run -> {"none", "done"} \cup Watching]
    BY DEF Init
  <2>2. \A n \in Run : thread[n] = "none" <=> n > runs
    BY DEF Init, Run
  <2>3. stop \in BOOLEAN /\ answers \in BOOLEAN
    BY DEF Init
  <2> QED
    BY <2>1, <2>2, <2>3, WatchdogAssumption DEF Init, TypeOK
<1> QED
  BY <1>1, WatchdogAssumption DEF Init, Inv, OnlyCurrent, KillsBounded, KillIsCounted

(* Steps that leave the proxies and the counters alone.                     *)
LEMMA MainInv == Inv /\ MainStep => Inv'
<1> SUFFICES ASSUME Inv, MainStep PROVE Inv'
  OBVIOUS
<1> USE WatchdogAssumption
    DEF Inv, TypeOK, OnlyCurrent, KillsBounded, KillIsCounted, Run, Watching
<1>1. CASE Loop
  BY <1>1 DEF Loop
<1>2. CASE Spawn
  <2>1. runs + 1 \in Run
    BY <1>2 DEF Spawn
  <2>2. alive = {} /\ alive' = {runs + 1}
    BY <1>2 DEF Spawn
  <2>3. thread'[runs + 1] = "sleep"
    BY <1>2, <2>1 DEF Spawn
  <2>4. TypeOK'
    BY <1>2, <2>1, <2>2 DEF Spawn
  <2> QED
    BY <1>2, <2>2, <2>3, <2>4 DEF Spawn
<1>3. CASE Wait
  BY <1>3 DEF Wait
<1>4. CASE Check
  BY <1>4 DEF Check
<1>5. CASE Backoff
  BY <1>5 DEF Backoff
<1> QED
  BY <1>1, <1>2, <1>3, <1>4, <1>5 DEF MainStep

LEMMA WatchInv == Inv /\ (\E n \in Run : Watch(n)) => Inv'
<1> SUFFICES ASSUME Inv, NEW n \in Run, Watch(n) PROVE Inv'
  OBVIOUS
<1> USE WatchdogAssumption
    DEF Inv, TypeOK, OnlyCurrent, KillsBounded, KillIsCounted, Run, Watching, Thread
<1>1. CASE Poll(n)
  BY <1>1 DEF Poll
<1>2. CASE PingOk(n)
  BY <1>2 DEF PingOk
<1>3. CASE PingFails(n)
  BY <1>3 DEF PingFails
<1>4. CASE Terminate(n)
  BY <1>4 DEF Terminate
<1> QED
  BY <1>1, <1>2, <1>3, <1>4 DEF Watch

LEMMA OutsideInv == Inv /\ (ProxyEnds \/ Shutdown \/ DaemonChanges \/ UNCHANGED vars) => Inv'
<1> SUFFICES ASSUME Inv, ProxyEnds \/ Shutdown \/ DaemonChanges \/ UNCHANGED vars PROVE Inv'
  OBVIOUS
<1> QED
  BY DEF Inv, TypeOK, OnlyCurrent, KillsBounded, KillIsCounted, Run, Watching,
         ProxyEnds, Shutdown, DaemonChanges, vars

LEMMA Invariant == Spec => []Inv
<1>1. Inv /\ [Next]_vars => Inv'
  BY MainInv, WatchInv, OutsideInv DEF Next
<1> QED
  BY <1>1, InitInv, PTL DEF Spec

-----------------------------------------------------------------------------
(* Every variable keeps its type, and a thread has been started for every   *)
(* proxy.                                                                   *)
THEOREM TypeCorrect == Spec => []TypeOK
<1> QED
  BY Invariant, PTL DEF Inv

(* Two proxies never share the agent's pipes: main() starts one only after  *)
(* the one before it has ended, whatever its threads do.                    *)
THEOREM OneProxyCorrect == Spec => []OneProxy
<1>1. Inv => OneProxy
  <2> SUFFICES ASSUME Inv PROVE OneProxy
    OBVIOUS
  <2>1. alive = {} \/ alive = {runs}
    BY DEF Inv, OnlyCurrent
  <2>2. Cardinality({}) = 0 /\ Cardinality({runs}) = 1
    BY FS_EmptySet, FS_Singleton
  <2> QED
    BY <2>1, <2>2 DEF OneProxy
<1> QED
  BY <1>1, Invariant, PTL

(* The counter is raised before a kill and looked at in between, so kills   *)
(* stay within MAX_RESTARTS whoever else raises it.                         *)
THEOREM KillsBoundedCorrect == Spec => []KillsBounded
<1> QED
  BY Invariant, PTL DEF Inv
=============================================================================
