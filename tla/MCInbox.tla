------------------------------ MODULE MCInbox -------------------------------
(* Instances of Inbox for TLC.                                              *)
EXTENDS Inbox, TLC

CONSTANTS t1, t2, w1, w2, p1, p2

(* One topic, one watcher: every interleaving of a single conversation.     *)
OneTopicOfWatcher == [w \in Watcher |-> t1]
OneTopicOfProxy == [p \in Proxy |-> t1]

(* Its proxies are interchangeable (safety run only).                       *)
Proxies == Permutations(Proxy)
=============================================================================
