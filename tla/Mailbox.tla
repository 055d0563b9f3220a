------------------------------ MODULE Mailbox -------------------------------
(***************************************************************************)
(* What the inbox promises to the agents of a topic, whatever happens in    *)
(* the daemon: a durable log of messages, in the order of their ids.        *)
(*   - a message enters the log once, after everything that came before it; *)
(*   - a reader is granted a part of the log and thereby removes nothing;   *)
(*   - the log loses messages only to retention, which drops the oldest     *)
(*     when a message comes (and may be put off), or to the settlement of a *)
(*     message some reader was granted, which drops that message, the older *)
(*     ones and the lost ones.  No crash is an event of the log.            *)
(* Lost messages are those the log has in no readable form.                 *)
(* Inbox implements this module (Inbox!MailboxSpec).                        *)
(***************************************************************************)
EXTENDS Integers, FiniteSets

CONSTANTS Topic,     \* the mailboxes
          Id,        \* the ids a message can have
          Lost,      \* the messages that cannot be read back
          Cap        \* how many messages a log keeps; 0: all of them

VARIABLES log,       \* log[t]: the messages in the mailbox
          granted    \* granted[t]: the messages readers have been given

vars == <<log, granted>>

Init == /\ log = [t \in Topic |-> {}]
        /\ granted = [t \in Topic |-> {}]

Trim(S) == IF Cap > 0 THEN {x \in S : Cardinality({y \in S : y > x}) < Cap} ELSE S

Post(t, m) == /\ \A x \in log[t] \cup granted[t] : x < m
              /\ \/ log' = [log EXCEPT ![t] = Trim(@ \cup {m})]
                 \/ log' = [log EXCEPT ![t] = @ \cup {m}]
              /\ UNCHANGED granted

Grant(t, S) == /\ granted' = [granted EXCEPT ![t] = @ \cup S]
               /\ UNCHANGED log

Settle(t, m) == /\ log' = [log EXCEPT ![t] = {x \in @ : x > m /\ x \notin Lost}]
                /\ UNCHANGED granted

Next == \E t \in Topic :
          \/ \E m \in Id : Post(t, m)
          \/ \E S \in SUBSET (log[t] \cup Lost) : Grant(t, S)
          \/ \E m \in granted[t] : Settle(t, m)

Spec == Init /\ [][Next]_vars
=============================================================================
