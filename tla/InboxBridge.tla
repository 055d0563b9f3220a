---------------------------- MODULE InboxBridge -----------------------------
(***************************************************************************)
(* InboxBridge (src/mcp_telegram/inbox_bridge.py): one _watch task per      *)
(* topic_map entry takes what wait() returns, offers it to the agent's      *)
(* terminal or socket, up to RetryMax times, and then clears the RAM buffer *)
(* whatever the outcome.                                                    *)
(***************************************************************************)
EXTENDS InboxEngine

CONSTANT RetryMax     \* InboxBridge.retry_max

ASSUME BridgeAssumption == RetryMax \in Nat \ {0}

VARIABLES batch,      \* batch[w]: the msgs the watcher is pushing
          attempt,    \* attempt[w]: attempts of this push that have failed
          offered,    \* history: ids w has taken up since the daemon started
          pushed      \* history: ids a transport has confirmed, per topic

bridgeVars == <<batch, attempt, offered, pushed>>

BridgeTypeOK == /\ batch \in [Watcher -> SUBSET Nat]
                /\ attempt \in [Watcher -> 0 .. RetryMax]
                /\ offered \in [Watcher -> SUBSET Nat]
                /\ pushed \in [Topic -> SUBSET Nat]

BridgeReset == /\ batch' = [w \in Watcher |-> {}]
               /\ attempt' = [w \in Watcher |-> 0]
               /\ offered' = [w \in Watcher |-> {}]
               /\ UNCHANGED pushed

BridgeInit == /\ batch = [w \in Watcher |-> {}]
              /\ attempt = [w \in Watcher |-> 0]
              /\ offered = [w \in Watcher |-> {}]
              /\ pushed = [t \in Topic |-> {}]

-----------------------------------------------------------------------------
(* The messages wait() returned become the batch of the push it leads to;   *)
(* an empty list takes _watch back to wait().                               *)
TakeBatch(w) ==
  /\ IF wpc'[w] = "push"
       THEN /\ batch' = [batch EXCEPT ![w] = ram[WatchTopic[w]]]
            /\ offered' = [offered EXCEPT ![w] = @ \cup ram[WatchTopic[w]]]
       ELSE UNCHANGED <<batch, offered>>
  /\ UNCHANGED <<attempt, pushed>>

WatchEnter(w) == WaitEnter(w) /\ TakeBatch(w) /\ UNCHANGED storeVars

WatchWake(w) == WaitWake(w) /\ TakeBatch(w) /\ UNCHANGED storeVars

(* clear_ram_buffer() at the end of the loop body, then wait() again.       *)
PushOver(w) ==
  /\ ClearRamBuffer(WatchTopic[w])
  /\ wpc' = [wpc EXCEPT ![w] = "enter"]
  /\ batch' = [batch EXCEPT ![w] = {}]
  /\ attempt' = [attempt EXCEPT ![w] = 0]
  /\ UNCHANGED <<storeVars, offered>>

(* The transport confirms one attempt.                                      *)
PushOk(w) ==
  /\ wpc[w] = "push"
  /\ attempt[w] < RetryMax
  /\ pushed' = [pushed EXCEPT ![WatchTopic[w]] = @ \cup batch[w]]
  /\ PushOver(w)

\* MUTANT of PushRetry: the attempts are not counted against retry_max.
PushRetryUnbounded(w) ==
  /\ wpc[w] = "push"
  /\ attempt' = [attempt EXCEPT ![w] = @ + 1]
  /\ UNCHANGED <<storeVars, engineVars, batch, offered, pushed>>

(* An attempt fails, times out or raises: try again after retry_delay.      *)
PushRetry(w) ==
  /\ wpc[w] = "push"
  /\ attempt[w] < RetryMax
  /\ attempt' = [attempt EXCEPT ![w] = @ + 1]
  /\ UNCHANGED <<storeVars, engineVars, batch, offered, pushed>>

(* The attempts are used up, or there was nothing to try: the tmux pane     *)
(* does not exist, the transport is unknown.                                *)
PushFail(w) ==
  /\ wpc[w] = "push"
  /\ attempt[w] \in {0, RetryMax}
  /\ PushOver(w)
  /\ UNCHANGED pushed
=============================================================================
