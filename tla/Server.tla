------------------------------- MODULE Server -------------------------------
(***************************************************************************)
(* The single-process server of version 1 (src/mcp_telegram/server.py): the *)
(* tool calls of one agent run concurrently and share the one Telegram      *)
(* client that create_client caches, each inside its own `async with`; a    *)
(* listener with a client of its own runs beside them.                      *)
(*                                                                          *)
(* A call makes request 0, the get_me of the client's start(), and then one *)
(* or two requests that count: those that change something, or the one      *)
(* whose answer is the result.  A request that looks something up on the    *)
(* way fails as the one that follows it would.  The limiter in front of a   *)
(* call is module RateLimiter: here a call it denies is refused.            *)
(* Telethon is external: connecting and disconnecting are single steps, it  *)
(* keeps a connection up by itself, and its disconnect() cancels whatever   *)
(* request waits for an answer.                                             *)
(***************************************************************************)
EXTENDS Integers, FiniteSets

CONSTANTS Call,         \* the tool calls, each made once
          TwoStep,      \* calls of tools that change two things in a row:
                        \* BanChatMember, UpdateProfile, CreateGroup
          Plain,        \* calls of GetAllChats, which has no decorator and
                        \* catches a cancellation itself
          MaxRetries    \* of handle_flood_wait

ASSUME ServerAssumption == /\ TwoStep \cup Plain \subseteq Call
                           /\ MaxRetries \in Nat

VARIABLES pc,          \* pc[c]: where call c stands
          pos,         \* pos[c]: the request c is at; 0: in start()
          out,         \* out[c]: what comes of c
          retries,     \* retries[c]: of _execute_with_retry
          connected,   \* the shared client is
          wire,        \* requests that count, sent and not carried out
          server,      \* run_mcp_server: "up", "closing", "down"
          listener,    \* _run_inbox_loop
          
          ran,         \* history: how often a request has had its effect
          lone         \* history: calls that have run beside no other and
                       \* that neither the agent nor the end has cancelled

callVars == <<pc, pos, out>>
processVars == <<server, listener>>
vars == <<callVars, retries, connected, wire, processVars, ran, lone>>

(* "enter": before create_client(); "send", "wait": at request pos; "exit": *)
(* leaving the `async with`; "flood": asleep before the next attempt.       *)
Running == {"enter", "send", "wait", "exit", "flood"}
Active == {c \in Call : pc[c] \in Running}

(* "ok": a success; "empty": a success with no request behind it (see       *)
(* NothingToDo); "refused": an error from Telegram or the server;           *)
(* "offline": "Cannot send requests while disconnected"; "notice":          *)
(* "Operation cancelled"; "silent": CancelledError, and no answer.          *)
Outcome == {"none", "ok", "empty", "refused", "offline", "notice", "silent"}

Requests(c) == IF c \in TwoStep THEN 2 ELSE 1

Effects == {r \in Call \X (1 .. 2) : r[2] <= Requests(r[1])}

TypeOK ==
  /\ pc \in [Call -> {"new", "ended"} \cup Running]
  /\ pos \in [Call -> 0 .. 2] /\ \A c \in Call : pos[c] <= Requests(c)
  /\ out \in [Call -> Outcome]
  /\ retries \in [Call -> 0 .. MaxRetries]
  /\ connected \in BOOLEAN
  /\ wire \subseteq Effects
  /\ server \in {"up", "closing", "down"}
  /\ listener \in {"running", "backoff", "over"}
  /\ ran \in [Effects -> Nat]
  /\ lone \subseteq Call

Init ==
  /\ pc = [c \in Call |-> "new"]
  /\ pos = [c \in Call |-> 0]
  /\ out = [c \in Call |-> "none"]
  /\ retries = [c \in Call |-> 0]
  /\ connected = FALSE
  /\ wire = {}
  /\ server = "up" /\ listener = "running"
  /\ ran = [r \in Effects |-> 0]
  /\ lone = {}

-----------------------------------------------------------------------------
(* A tool call.                                                             *)

(* call_tool starts the tool ...                                            *)
CallTool(c) ==
  /\ server = "up"
  /\ pc[c] = "new"
  /\ pc' = [pc EXCEPT ![c] = "enter"]
  /\ lone' = IF Active = {} THEN lone \cup {c} ELSE lone \ Active
  /\ UNCHANGED <<pos, out, retries, connected, wire, processVars, ran>>

(* ... or answers an error: unknown tool, arguments that do not fit, the    *)
(* limiter, the log on the Desktop that GetAllChats cannot open, and        *)
(* InboxRead and InboxPeek, which call functions the inbox has no more.     *)
RefuseCall(c) ==
  /\ server = "up"
  /\ pc[c] = "new"
  /\ pc' = [pc EXCEPT ![c] = "ended"]
  /\ out' = [out EXCEPT ![c] = "refused"]
  /\ UNCHANGED <<pos, retries, connected, wire, processVars, ran, lone>>

(* How an exception ends a call: out of start() nothing is entered and it   *)
(* leaves the tool (or, in GetAllChats, becomes its answer); in the body    *)
(* the tool makes it its answer, or lets a CancelledError through, and      *)
(* leaves the `async with`.                                                 *)
AfterRaise(c) == IF pos[c] = 0 THEN "ended" ELSE "exit"

Raise(c, outcome) == /\ pc' = [pc EXCEPT ![c] = AfterRaise(c)]
                     /\ out' = [out EXCEPT ![c] = outcome]

(* What a CancelledError makes of a call.                                   *)
Cancelled(c) == IF c \in Plain THEN "notice" ELSE "silent"

\* MUTANT of Enter: the client is taken from the cache and nobody starts it.
EnterAsIs(c) ==
  /\ pc[c] = "enter"
  /\ pc' = [pc EXCEPT ![c] = "send"]
  /\ UNCHANGED <<pos, out, retries, connected, wire, processVars, ran, lone>>

(* create_client() gives every call the same client; start() connects it    *)
(* unless another call has.                                                 *)
Enter(c) ==
  /\ pc[c] = "enter"
  /\ connected' = TRUE
  /\ pc' = [pc EXCEPT ![c] = "send"]
  /\ UNCHANGED <<pos, out, retries, wire, processVars, ran, lone>>

ConnectFails(c) ==
  /\ pc[c] = "enter"
  /\ ~connected
  /\ pc' = [pc EXCEPT ![c] = "ended"]
  /\ out' = [out EXCEPT ![c] = "refused"]
  /\ UNCHANGED <<pos, retries, connected, wire, processVars, ran, lone>>

Send(c) ==
  /\ pc[c] = "send"
  /\ connected
  /\ wire' = wire \cup ({<<c, pos[c]>>} \cap Effects)
  /\ pc' = [pc EXCEPT ![c] = "wait"]
  /\ UNCHANGED <<pos, out, retries, connected, processVars, ran, lone>>

(* Another call has disconnected the client since.                          *)
SendOffline(c) ==
  /\ pc[c] = "send"
  /\ ~connected
  /\ Raise(c, "offline")
  /\ UNCHANGED <<pos, retries, connected, wire, processVars, ran, lone>>

(* Telegram carries a request out, whether or not anybody still waits.      *)
Execute(r) ==
  /\ r \in wire
  /\ wire' = wire \ {r}
  /\ ran' = [ran EXCEPT ![r] = @ + 1]
  /\ UNCHANGED <<callVars, retries, connected, processVars, lone>>

(* The answer: on to the next request, or out with the result.              *)
Deliver(c) ==
  /\ pc[c] = "wait"
  /\ <<c, pos[c]>> \notin wire
  /\ IF pos[c] = Requests(c)
     THEN /\ pc' = [pc EXCEPT ![c] = "exit"]
          /\ out' = [out EXCEPT ![c] = "ok"]
          /\ UNCHANGED pos
     ELSE /\ pc' = [pc EXCEPT ![c] = "send"]
          /\ pos' = [pos EXCEPT ![c] = @ + 1]
          /\ UNCHANGED out
  /\ UNCHANGED <<retries, connected, wire, processVars, ran, lone>>

(* BanChatMember says "Successfully banned" of a member of a basic group    *)
(* without a request, and UpdateProfile "updated" when given nothing.       *)
NothingToDo(c) ==
  /\ pc[c] = "wait"
  /\ c \in TwoStep /\ pos[c] = 0
  /\ pc' = [pc EXCEPT ![c] = "exit"]
  /\ out' = [out EXCEPT ![c] = "empty"]
  /\ UNCHANGED <<pos, retries, connected, wire, processVars, ran, lone>>

(* The request raises: Telegram refuses it, a FloodWait in the body among   *)
(* the refusals, or its answer is given up, with the request on its way or  *)
(* carried out.                                                             *)
RequestFails(c) ==
  /\ pc[c] = "wait"
  /\ wire' \in {wire, wire \ {<<c, pos[c]>>}}
  /\ Raise(c, "refused")
  /\ UNCHANGED <<pos, retries, connected, processVars, ran, lone>>

\* MUTANT of FloodAtEntry: the tools let a FloodWait of the body through.
FloodAnywhere(c) ==
  /\ pc[c] = "wait"
  /\ c \notin Plain
  /\ retries[c] < MaxRetries
  /\ retries' = [retries EXCEPT ![c] = @ + 1]
  /\ pc' = [pc EXCEPT ![c] = "flood"]
  /\ pos' = [pos EXCEPT ![c] = 0]
  /\ UNCHANGED <<out, connected, wire, processVars, ran, lone>>

\* MUTANT of FloodAtEntry: one attempt too many.
FloodOnceMore(c) ==
  /\ pc[c] = "wait"
  /\ pos[c] = 0
  /\ c \notin Plain
  /\ retries[c] <= MaxRetries
  /\ retries' = [retries EXCEPT ![c] = @ + 1]
  /\ pc' = [pc EXCEPT ![c] = "flood"]
  /\ UNCHANGED <<pos, out, connected, wire, processVars, ran, lone>>

(* A FloodWait of up to a minute in start() is the only one the decorator   *)
(* sees: it sleeps and calls the tool again.                                *)
FloodAtEntry(c) ==
  /\ pc[c] = "wait"
  /\ pos[c] = 0
  /\ c \notin Plain
  /\ retries[c] < MaxRetries
  /\ retries' = [retries EXCEPT ![c] = @ + 1]
  /\ pc' = [pc EXCEPT ![c] = "flood"]
  /\ UNCHANGED <<pos, out, connected, wire, processVars, ran, lone>>

Retry(c) ==
  /\ pc[c] = "flood"
  /\ pc' = [pc EXCEPT ![c] = "enter"]
  /\ UNCHANGED <<pos, out, retries, connected, wire, processVars, ran, lone>>

(* __aexit__ disconnects the client of all calls: those that wait for an    *)
(* answer get a CancelledError in its place.                                *)
Exit(c) ==
  LET hit == {d \in Call : pc[d] = "wait"} IN
  /\ pc[c] = "exit"
  /\ connected' = FALSE
  /\ pc' = [d \in Call |-> CASE d = c -> "ended"
                             [] d \in hit -> AfterRaise(d)
                             [] OTHER -> pc[d]]
  /\ out' = [d \in Call |-> IF d \in hit THEN Cancelled(d) ELSE out[d]]
  /\ pos' = [pos EXCEPT ![c] = 0]
  /\ UNCHANGED <<retries, wire, processVars, ran, lone>>

(* The agent cancels a call, or the end of its input does.                  *)
Cancel(c) ==
  /\ pc[c] \in Running \ {"exit"}
  /\ lone' = lone \ {c}
  /\ pc' = [pc EXCEPT ![c] = IF pc[c] \in {"enter", "flood"} THEN "ended"
                                                             ELSE AfterRaise(c)]
  /\ out' = [out EXCEPT ![c] = Cancelled(c)]
  /\ UNCHANGED <<pos, retries, connected, wire, processVars, ran>>

-----------------------------------------------------------------------------
(* The listener: _run_inbox under _run_inbox_loop.  Its handler calls        *)
(* inbox.push, which no longer exists: a message changes nothing.           *)

ListenerStep(from, to) ==
  /\ server # "down"
  /\ listener = from
  /\ listener' = to
  /\ UNCHANGED <<callVars, retries, connected, wire, server, ran, lone>>

(* Any exception: sleep for min(retry * 5, 60) seconds and begin again.     *)
ListenerFails == ListenerStep("running", "backoff")

ListenerRetries == ListenerStep("backoff", "running")

(* run_until_disconnected returns: the loop ends for good.                  *)
ListenerReturns == ListenerStep("running", "over")

-----------------------------------------------------------------------------
(* The end: the agent closes the server's input (or a CancelledError that   *)
(* left a tool ends app.run, if the library makes that of it), app.run      *)
(* waits for the calls or cancels them, and the finally clause cancels the  *)
(* listener wherever it is and waits for it.                                *)
CloseInput ==
  /\ server = "up"
  /\ server' = "closing"
  /\ UNCHANGED <<callVars, retries, connected, wire, listener, ran, lone>>

\* MUTANT of Finish: the listener is awaited and never cancelled.
FinishUncancelled ==
  /\ server = "closing"
  /\ Active = {}
  /\ listener = "over"
  /\ server' = "down"
  /\ UNCHANGED <<callVars, retries, connected, wire, listener, ran, lone>>

Finish ==
  /\ server = "closing"
  /\ Active = {}
  /\ server' = "down" /\ listener' = "over"
  /\ UNCHANGED <<callVars, retries, connected, wire, ran, lone>>

-----------------------------------------------------------------------------
Step(c) == \/ Enter(c) \/ ConnectFails(c) \/ Send(c) \/ SendOffline(c) \/ Deliver(c)
           \/ NothingToDo(c) \/ RequestFails(c) \/ FloodAtEntry(c) \/ Retry(c) \/ Exit(c)

Listener == ListenerFails \/ ListenerRetries \/ ListenerReturns

Next == \/ \E c \in Call : CallTool(c) \/ RefuseCall(c) \/ Step(c) \/ Cancel(c)
        \/ \E r \in wire : Execute(r)
        \/ Listener \/ CloseInput \/ Finish

Spec == Init /\ [][Next]_vars

(* Fairness: the event loop runs what is ready, a request to Telegram is    *)
(* answered or fails, the finally clause runs.  Agents, cancellations, the  *)
(* listener's fortunes and the effects of requests are not forced.          *)
FairSpec == Spec /\ (\A c \in Call : WF_vars(Step(c))) /\ WF_vars(Finish)

-----------------------------------------------------------------------------
(* Properties.                                                              *)

(* Whatever its neighbours do, no change is made twice by one call, and a   *)
(* call that reports its changes has made them all, once: the decorator     *)
(* calls a tool again only when the tool has sent nothing, since the body   *)
(* of every tool catches its own FloodWaits (tools.py:122-150), and a       *)
(* second change that fails or is cut off is never reported as a success.   *)
ExactlyWhatIsSaid ==
  \A r \in Effects : /\ ran[r] <= 1
                     /\ out[r[1]] = "ok" => ran[r] = 1

(* A call that runs beside no other and that nobody cancels is answered,    *)
(* and never finds its client disconnected, however the calls before it     *)
(* ended and whatever they left running (telegram.py:110, one client for    *)
(* all).  One that overlaps others has no such guarantee: their __aexit__   *)
(* may cut it off, and then it gets no answer at all.                       *)
LoneIsUndisturbed ==
  \A c \in lone : out[c] \in {"none", "ok", "empty", "refused"}

(* Every call ends, with retries and neighbours that cut it off, and the    *)
(* server ends when its input does, with the listener in whatever state.    *)
EverythingEnds ==
  /\ \A c \in Call : pc[c] = "enter" ~> pc[c] = "ended"
  /\ server = "closing" ~> server = "down"
=============================================================================
