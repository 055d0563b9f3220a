---------------------------- MODULE RateLimiter -----------------------------
(***************************************************************************)
(* RateLimiter.acquire (src/mcp_telegram/rate_limiter.py) and the decorator *)
(* of the tools that uses it (handle_flood_wait, _execute_with_retry in     *)
(* tools.py).  A tool call takes one of max_concurrent slots, waits for the *)
(* global window and for the window of its chat, runs, is repeated after a  *)
(* FloodWait, and gives its slot back however it ends.                      *)
(*                                                                          *)
(* Time is a clock that ticks between steps; a sleep ends at its time or    *)
(* later.  One chat; a call without a chat_id is in neither of the two sets *)
(* below.  Sections without an await are single steps.                      *)
(***************************************************************************)
EXTENDS Integers, Sequences, FiniteSets

CONSTANTS Req,           \* the tool calls, each made once
          None,          \* no call
          Private,       \* calls with a chat_id: chat_limit per second
          Group,         \* calls of the group methods: group_limit per minute
          Resolve,       \* calls of methods with "resolve" in their name
          Search,        \* calls of the other resolve_methods of tools.py
          GlobalLimit, GlobalWindow,
          ChatLimit, ChatWindow,
          GroupLimit, GroupWindow,
          DailyLimit,    \* resolve_daily_limit
          MaxConcurrent,
          MaxRetries,    \* of handle_flood_wait
          MaxTime,       \* bound: the clock
          MaxCancels     \* bound: calls cancelled

ASSUME LimiterAssumption ==
  /\ IsFiniteSet(Req) /\ None \notin Req
  /\ Private \cup Group \cup Resolve \cup Search \subseteq Req
  /\ Private \cap Group = {} /\ Resolve \cap Search = {}
  /\ {GlobalLimit, GlobalWindow, ChatLimit, ChatWindow, GroupLimit, GroupWindow,
      MaxConcurrent} \subseteq Nat \ {0}
  /\ ChatWindow <= GroupWindow              \* 1 and 60 seconds
  /\ {DailyLimit, MaxRetries, MaxTime, MaxCancels} \subseteq Nat

VARIABLES now,           \* time.time()
          dayOver,       \* resolve_last_reset is None or a day old
          pc,            \* pc[r]: where call r stands
          stamp, wake,   \* of a call that sleeps: its `now`, when it wakes
          retries,       \* retries[r]: of _execute_with_retry
          slots,         \* free places of the semaphore
          queue,         \* queue["global"], queue["chat"]: time stamps
          lock,          \* who holds _global_lock, the chat's lock
          resolves,      \* stats.resolve_requests_today
          stats,         \* total_requests and successful_requests
          cancels,
          grants         \* history: when calls passed the global window and
                         \* that of the chat, and the group calls among these

sleepVars == <<stamp, wake>>
resolveVars == <<resolves, dayOver>>
vars == <<now, pc, sleepVars, retries, slots, queue, lock, resolveVars, stats, cancels,
          grants>>

Time == 0 .. MaxTime
Kind == {"global", "chat"}

Waiting == {"global", "chat"}                     \* for the lock of a queue
Sleeping == {"globalSleep", "chatSleep"}          \* with that lock
Running == {"body", "flood"}                      \* in the `async with` body
Holding == Waiting \cup Sleeping \cup Running \cup {"delay"}
Ended == {"ended", "denied"}

TypeOK ==
  /\ now \in Time /\ dayOver \in BOOLEAN
  /\ pc \in [Req -> {"new", "slot"} \cup Holding \cup Ended]
  /\ stamp \in [Req -> Time]
  /\ wake \in [Req -> Nat]
  /\ retries \in [Req -> 0 .. MaxRetries]
  /\ slots \in 0 .. MaxConcurrent
  /\ queue \in [Kind -> Seq(Time)]
  /\ lock \in [Kind -> Req \cup {None}]
  /\ resolves \in Nat
  /\ stats \in [{"total", "success"} -> Nat]
  /\ cancels \in 0 .. MaxCancels
  /\ grants \in [Kind \cup {"group"} -> Seq(Time)]

Init ==
  /\ now = 0 /\ dayOver = TRUE
  /\ pc = [r \in Req |-> "new"]
  /\ stamp = [r \in Req |-> 0] /\ wake = [r \in Req |-> 0]
  /\ retries = [r \in Req |-> 0]
  /\ slots = MaxConcurrent
  /\ queue = [k \in Kind |-> <<>>]
  /\ lock = [k \in Kind |-> None]
  /\ resolves = 0
  /\ stats = [s \in {"total", "success"} |-> 0]
  /\ cancels = 0
  /\ grants = [g \in Kind \cup {"group"} |-> <<>>]

-----------------------------------------------------------------------------
(* The daily limit of resolve operations.                                   *)

(* check_resolve_limit: a new day starts from zero.                         *)
Today == IF dayOver THEN 0 ELSE resolves

(* The decorator checks the limit for all resolve_methods; acquire checks   *)
(* and counts only those with "resolve" in their name.                      *)
Admit(r) ==
  /\ dayOver' = (dayOver /\ r \notin Resolve \cup Search)
  /\ IF r \in Resolve \cup Search /\ Today >= DailyLimit
     THEN /\ pc' = [pc EXCEPT ![r] = "denied"]
          /\ resolves' = Today
     ELSE /\ pc' = [pc EXCEPT ![r] = "slot"]
          /\ resolves' = CASE r \in Resolve -> Today + 1
                           [] r \in Search -> Today
                           [] OTHER -> resolves

CallTool(r) ==
  /\ pc[r] = "new"
  /\ Admit(r)
  /\ UNCHANGED <<now, sleepVars, retries, slots, queue, lock, stats, cancels, grants>>

\* MUTANT of TakeSlot: nobody waits for a slot.
TakeSlotAnyway(r) ==
  /\ pc[r] = "slot"
  /\ slots' = slots - 1
  /\ stats' = [stats EXCEPT !["total"] = @ + 1]
  /\ pc' = [pc EXCEPT ![r] = "global"]
  /\ UNCHANGED <<now, sleepVars, retries, queue, lock, resolveVars, cancels, grants>>

(* The semaphore: record_request once the call has a slot.                  *)
TakeSlot(r) ==
  /\ pc[r] = "slot"
  /\ slots > 0
  /\ slots' = slots - 1
  /\ stats' = [stats EXCEPT !["total"] = @ + 1]
  /\ pc' = [pc EXCEPT ![r] = "global"]
  /\ UNCHANGED <<now, sleepVars, retries, queue, lock, resolveVars, cancels, grants>>

-----------------------------------------------------------------------------
(* The two windows.                                                         *)

Limit(k, r) == IF k = "global" THEN GlobalLimit
               ELSE IF r \in Group THEN GroupLimit ELSE ChatLimit

\* MUTANT of Window: a private call waits one tick too few.
WindowShort(k, r) == IF k = "global" THEN GlobalWindow
                     ELSE IF r \in Group THEN GroupWindow ELSE ChatWindow - 1

Window(k, r) == IF k = "global" THEN GlobalWindow
                ELSE IF r \in Group THEN GroupWindow ELSE ChatWindow

GrantKinds(k, r) == {k} \cup {g \in {"group"} : k = "chat" /\ r \in Group}

SleepIn(k) == IF k = "global" THEN "globalSleep" ELSE "chatSleep"

\* MUTANT of FirstRecent: time stamps are dropped one tick early.
FirstRecentShort(s, w) ==
  LET stays == {i \in 1 .. Len(s) + 1 : i = Len(s) + 1 \/ s[i] > now - w + 1}
  IN CHOOSE i \in stays : \A j \in stays : i <= j

(* How far `while queue and queue[0] <= now - window: popleft()` comes.     *)
FirstRecent(s, w) ==
  LET stays == {i \in 1 .. Len(s) + 1 : i = Len(s) + 1 \/ s[i] > now - w}
  IN CHOOSE i \in stays : \A j \in stays : i <= j

(* _cleanup_old_requests                                                    *)
Recent(s, w) == SubSeq(s, FirstRecent(s, w), Len(s))

(* A call is let through, with a stamp, and goes on to its chat's window or *)
(* to the delay.                                                            *)
LetThrough(k, r, q, time) ==
  /\ queue' = [queue EXCEPT ![k] = Append(q, time)]
  /\ grants' = [g \in DOMAIN grants |-> IF g \in GrantKinds(k, r)
                                        THEN Append(grants[g], now) ELSE grants[g]]
  /\ pc' = [pc EXCEPT ![r] = IF k = "global" /\ r \in Private \cup Group
                             THEN "chat" ELSE "delay"]

(* A free place in the window: no wait.                                     *)
PassWindow(k, r) ==
  LET q == Recent(queue[k], Window(k, r)) IN
  /\ pc[r] = k
  /\ lock[k] = None
  /\ Len(q) < Limit(k, r)
  /\ LetThrough(k, r, q, now)
  /\ UNCHANGED <<now, sleepVars, retries, slots, lock, resolveVars, stats, cancels>>

(* The window is full: sleep, with the lock, until the oldest entry is out  *)
(* of it.                                                                   *)
WaitForWindow(k, r) ==
  LET q == Recent(queue[k], Window(k, r)) IN
  /\ pc[r] = k
  /\ lock[k] = None
  /\ Len(q) >= Limit(k, r)
  /\ lock' = [lock EXCEPT ![k] = r]
  /\ queue' = [queue EXCEPT ![k] = q]
  /\ stamp' = [stamp EXCEPT ![r] = now]
  /\ wake' = [wake EXCEPT ![r] = q[1] + Window(k, r)]
  /\ pc' = [pc EXCEPT ![r] = SleepIn(k)]
  /\ UNCHANGED <<now, retries, slots, resolveVars, stats, cancels, grants>>

(* After the sleep: the entry that is out of the window stays for the next  *)
(* call to remove, and the stamp is the one taken before the sleep.         *)
WakeUp(k, r) ==
  /\ pc[r] = SleepIn(k)
  /\ now >= wake[r]
  /\ LetThrough(k, r, queue[k], stamp[r])
  /\ lock' = [lock EXCEPT ![k] = None]
  /\ stamp' = [stamp EXCEPT ![r] = 0] /\ wake' = [wake EXCEPT ![r] = 0]
  /\ UNCHANGED <<now, retries, slots, resolveVars, stats, cancels>>

-----------------------------------------------------------------------------
(* The body and the ways out of it.                                         *)

(* _add_human_delay is over: acquired.                                      *)
Enter(r) ==
  /\ pc[r] = "delay"
  /\ pc' = [pc EXCEPT ![r] = "body"]
  /\ UNCHANGED <<now, sleepVars, retries, slots, queue, lock, resolveVars,
                 stats, cancels, grants>>

(* The body returns or raises, a FloodWait that is too long or one too many *)
(* included: the slot is free, and the finally of acquire counts a success  *)
(* in every case.  (What the caller of a raising body gets is a RuntimeError *)
(* of asynccontextmanager: the except clause yields a second time.)         *)
Return(r) ==
  /\ pc[r] = "body"
  /\ pc' = [pc EXCEPT ![r] = "ended"]
  /\ slots' = slots + 1
  /\ stats' = [stats EXCEPT !["success"] = @ + 1]
  /\ UNCHANGED <<now, sleepVars, retries, queue, lock, resolveVars, cancels, grants>>

(* A FloodWait of up to a minute is slept through, with the slot, and the   *)
(* call repeated; neither window hears of the repetition.                   *)
FloodWait(r) ==
  /\ pc[r] = "body"
  /\ retries[r] < MaxRetries
  /\ retries' = [retries EXCEPT ![r] = @ + 1]
  /\ pc' = [pc EXCEPT ![r] = "flood"]
  /\ UNCHANGED <<now, sleepVars, slots, queue, lock, resolveVars, stats, cancels, grants>>

Retry(r) ==
  /\ pc[r] = "flood"
  /\ pc' = [pc EXCEPT ![r] = "body"]
  /\ UNCHANGED <<now, sleepVars, retries, slots, queue, lock, resolveVars, stats,
                 cancels, grants>>

\* MUTANT of Cancel: a lock stays with the call that slept with it.
CancelKeepsLock(r) ==
  /\ pc[r] \in {"slot"} \cup Holding
  /\ cancels < MaxCancels
  /\ cancels' = cancels + 1
  /\ pc' = [pc EXCEPT ![r] = "ended"]
  /\ slots' = IF pc[r] \in Holding THEN slots + 1 ELSE slots
  /\ stamp' = [stamp EXCEPT ![r] = 0] /\ wake' = [wake EXCEPT ![r] = 0]
  /\ stats' = [stats EXCEPT !["success"] = IF pc[r] \in Running THEN @ + 1 ELSE @]
  /\ UNCHANGED <<now, retries, queue, lock, resolveVars, grants>>

\* MUTANT of Cancel: a call that waits for a window takes its slot with it.
CancelKeepsSlot(r) ==
  /\ pc[r] \in {"slot"} \cup Holding
  /\ cancels < MaxCancels
  /\ cancels' = cancels + 1
  /\ pc' = [pc EXCEPT ![r] = "ended"]
  /\ lock' = [k \in Kind |-> IF lock[k] = r THEN None ELSE lock[k]]
  /\ slots' = IF pc[r] \in Running THEN slots + 1 ELSE slots
  /\ stamp' = [stamp EXCEPT ![r] = 0] /\ wake' = [wake EXCEPT ![r] = 0]
  /\ stats' = [stats EXCEPT !["success"] = IF pc[r] \in Running THEN @ + 1 ELSE @]
  /\ UNCHANGED <<now, retries, queue, resolveVars, grants>>

(* The agent cancels the call: CancelledError passes every `except          *)
(* Exception`; locks and slot are left, nothing is appended to a queue.     *)
Cancel(r) ==
  /\ pc[r] \in {"slot"} \cup Holding
  /\ cancels < MaxCancels
  /\ cancels' = cancels + 1
  /\ pc' = [pc EXCEPT ![r] = "ended"]
  /\ lock' = [k \in Kind |-> IF lock[k] = r THEN None ELSE lock[k]]
  /\ slots' = IF pc[r] \in Holding THEN slots + 1 ELSE slots
  /\ stamp' = [stamp EXCEPT ![r] = 0] /\ wake' = [wake EXCEPT ![r] = 0]
  /\ stats' = [stats EXCEPT !["success"] = IF pc[r] \in Running THEN @ + 1 ELSE @]
  /\ UNCHANGED <<now, retries, queue, resolveVars, grants>>

-----------------------------------------------------------------------------
Tick == /\ now < MaxTime
        /\ now' = now + 1
        /\ UNCHANGED <<pc, sleepVars, retries, slots, queue, lock, resolveVars, stats,
                       cancels, grants>>

(* A day since resolve_last_reset: seen by the next call that looks.        *)
DayPasses == /\ ~dayOver
             /\ dayOver' = TRUE
             /\ UNCHANGED <<now, pc, sleepVars, retries, slots, queue, lock, resolves, stats,
                            cancels, grants>>

Next == \/ \E r \in Req :
             \/ CallTool(r) \/ TakeSlot(r)
             \/ \E k \in Kind : PassWindow(k, r) \/ WaitForWindow(k, r) \/ WakeUp(k, r)
             \/ Enter(r) \/ Return(r) \/ FloodWait(r) \/ Retry(r) \/ Cancel(r)
        \/ Tick \/ DayPasses

Spec == Init /\ [][Next]_vars

-----------------------------------------------------------------------------
(* Properties.                                                              *)

(* No window of w sees more than n of the events.                           *)
AtMost(n, w, times) == \A i \in DOMAIN times : i > n => times[i] - times[i - n] >= w

(* The window is kept up to one call: the stamp of a call that slept is     *)
(* older than the call, but no older than the grant before it, because the  *)
(* lock is held over the sleep (rate_limiter.py:164-181).                   *)
GlobalRate == AtMost(GlobalLimit + 1, GlobalWindow, grants["global"])

(* The same for a chat, whose private and group calls share one queue and   *)
(* clear it by windows of their own (rate_limiter.py:189-210): a group call *)
(* costs the chat's window one call more and never two, though a private    *)
(* call waits for the first entry only, however long the queue has become.  *)
ChatRate == AtMost(ChatLimit + 1 + Len(grants["group"]), ChatWindow, grants["chat"])

(* Nobody sleeps with a lock for longer than a window, cancelled calls      *)
(* leave none behind, and a lock is held only through a sleep.              *)
LocksMove ==
  \A k \in Kind :
    /\ lock[k] # None =>
         LET r == lock[k] IN /\ pc[r] = SleepIn(k)
                             /\ wake[r] <= stamp[r] + Window(k, r)
    /\ \A r \in Req : pc[r] = SleepIn(k) => lock[k] = r

(* The queue q is the end of the history g: its stamps are no older than    *)
(* the grant before, and what it has dropped is no younger than t.          *)
Trails(q, g, t) ==
  LET d == Len(g) - Len(q)
  IN /\ d >= 0
     /\ \A i \in 1 .. d - 1 : g[i] <= t
     /\ \A i \in 1 .. Len(q) : d + i > 1 => g[d + i - 1] <= q[i]

Ascending(s) == \A i, j \in 1 .. Len(s) : i <= j => s[i] <= s[j]

(* What makes GlobalRate hold.  The queue has one entry too many only when  *)
(* the first is too old to count; who sleeps is waiting for the first of    *)
(* exactly GlobalLimit entries.                                             *)
GlobalInv ==
  LET g == grants["global"]
      q == queue["global"]
      r == lock["global"]
  IN /\ \A i \in 1 .. Len(g) : g[i] <= now
     /\ Trails(q, g, now - GlobalWindow)
     /\ IF r = None
        THEN Len(q) > GlobalLimit =>
               Len(q) = GlobalLimit + 1 /\ q[1] <= now - GlobalWindow
        ELSE /\ Len(q) = GlobalLimit
             /\ wake[r] = q[1] + GlobalWindow
             /\ \A i \in 1 .. Len(g) : g[i] <= stamp[r]

(* What makes ChatRate hold.  A queue may have any number of entries, but   *)
(* no more than ChatLimit and one for each group call are recent; a private *)
(* call sleeps only for the first of so many.                               *)
ChatInv ==
  LET g == grants["chat"]
      q == queue["chat"]
      n == ChatLimit + Len(grants["group"])
      r == lock["chat"]
  IN /\ \A i \in 1 .. Len(g) : g[i] <= now
     /\ Ascending(g) /\ Ascending(q)
     /\ Trails(q, g, now - ChatWindow)
     /\ Len(q) > n => q[Len(q) - n] <= now - ChatWindow
     /\ r # None =>
          /\ \A i \in 1 .. Len(g) : g[i] <= stamp[r]
          /\ \A i \in 1 .. Len(q) : q[i] <= stamp[r]
          /\ r \notin Group => Len(q) <= n /\ wake[r] = q[1] + ChatWindow

StampsPast ==
  /\ \A k \in Kind : \A i \in 1 .. Len(queue[k]) : queue[k][i] <= now
  /\ \A r \in Req : stamp[r] <= now

(* However calls end, their slots come back, and no more than               *)
(* max_concurrent are past the semaphore.                                   *)
SlotsReturn == slots = MaxConcurrent - Cardinality({r \in Req : pc[r] \in Holding})

(* The counters a health check divides: a success is a call that got into   *)
(* the body and is out of it, so success_rate cannot exceed 1 (and says     *)
(* nothing of whether the call raised).                                     *)
SuccessesBounded ==
  stats["total"] >= stats["success"] + Cardinality({r \in Req : pc[r] \in Holding})

(* Check and count have no await between them: concurrent calls never       *)
(* exceed the day's limit.                                                  *)
ResolvesWithinDay == resolves <= DailyLimit
=============================================================================
