------------------------- MODULE RateLimiterProofs --------------------------
(***************************************************************************)
(* What TLAPS proves of module RateLimiter, for every set of calls, every   *)
(* limit and window and every bound.                                        *)
(***************************************************************************)
EXTENDS RateLimiter, SequenceTheorems, FiniteSetTheorems, WellFoundedInduction, TLAPS

-----------------------------------------------------------------------------
(* The queues of time stamps.                                               *)

(* A set of numbers that is not empty has a least element.                  *)
LEMMA LeastNumber ==
  ASSUME NEW S, S \subseteq Nat, S # {}
  PROVE  \E i \in S : \A j \in S : i <= j
<1> DEFINE R == OpToRel(<, Nat)
<1>1. IsWellFoundedOn(R, Nat)
  BY NatLessThanWellFounded
<1>2. PICK i \in S : \A j \in S : ~ (<<j, i>> \in R)
  BY <1>1, WFMin
<1>3. ASSUME NEW j \in S
      PROVE  i <= j
  <2>1. j < i => <<j, i>> \in R
    BY DEF OpToRel
  <2> HIDE DEF R
  <2> QED
    BY <1>2, <2>1
<1> QED
  BY <1>3

(* _cleanup_old_requests stops at the first entry inside the window.        *)
LEMMA FirstRecentStops ==
  ASSUME NEW s \in Seq(Time), NEW w \in Nat, now \in Time
  PROVE  /\ FirstRecent(s, w) \in 1 .. Len(s) + 1
         /\ \A i \in 1 .. FirstRecent(s, w) - 1 : s[i] <= now - w
         /\ FirstRecent(s, w) <= Len(s) => s[FirstRecent(s, w)] > now - w
<1> DEFINE stays == {i \in 1 .. Len(s) + 1 : i = Len(s) + 1 \/ s[i] > now - w}
<1> DEFINE first == CHOOSE i \in stays : \A j \in stays : i <= j
<1>0. Time \subseteq Nat
  BY LimiterAssumption DEF Time
<1>1. Len(s) \in Nat /\ \A i \in 1 .. Len(s) : s[i] \in Time /\ s[i] \in Nat
  BY <1>0, LenProperties, ElementOfSeq
<1>2. Len(s) + 1 \in stays /\ stays \subseteq Nat
  BY <1>1
<1>3. first \in stays /\ \A j \in stays : first <= j
  BY <1>2, LeastNumber
<1>4. first = FirstRecent(s, w)
  BY DEF FirstRecent
<1> HIDE DEF first
<1>5. first \in 1 .. Len(s) + 1 /\ (first = Len(s) + 1 \/ s[first] > now - w)
  BY <1>3
<1>6. ASSUME NEW i \in 1 .. first - 1
      PROVE  s[i] <= now - w
  <2>1. i \notin stays
    <3> HIDE DEF stays
    <3> QED
      BY <1>1, <1>3, <1>5
  <2>2. i \in 1 .. Len(s) /\ s[i] \in Nat
    BY <1>1, <1>5
  <2>3. now \in Nat
    BY <1>0
  <2> QED
    BY <1>1, <2>1, <2>2, <2>3
<1> HIDE DEF stays
<1> QED
  BY <1>1, <1>4, <1>5, <1>6

(* What is left is the end of the queue.                                    *)
LEMMA RecentIsEnd ==
  ASSUME NEW s \in Seq(Time), NEW w \in Nat, now \in Time
  PROVE  \E n \in 0 .. Len(s) :
           /\ Recent(s, w) \in Seq(Time)
           /\ Len(Recent(s, w)) = Len(s) - n
           /\ \A i \in 1 .. Len(s) - n : Recent(s, w)[i] = s[n + i]
           /\ \A i \in 1 .. n : s[i] <= now - w
           /\ n < Len(s) => Recent(s, w)[1] > now - w
<1> DEFINE f == FirstRecent(s, w)
<1>0. Time \subseteq Nat
  BY LimiterAssumption DEF Time
<1>1. Len(s) \in Nat /\ \A i \in 1 .. Len(s) : s[i] \in Time /\ s[i] \in Nat
  BY <1>0, LenProperties, ElementOfSeq
<1>2. /\ f \in 1 .. Len(s) + 1
      /\ \A i \in 1 .. f - 1 : s[i] <= now - w
      /\ f <= Len(s) => s[f] > now - w
  BY FirstRecentStops
<1> HIDE DEF f
<1>3. f \in Int /\ Len(s) \in Int /\ \A i \in f .. Len(s) : s[i] \in Time
  BY <1>1, <1>2
<1>4. /\ SubSeq(s, f, Len(s)) \in Seq(Time)
      /\ Len(SubSeq(s, f, Len(s))) = IF f <= Len(s) THEN Len(s) - f + 1 ELSE 0
      /\ \A i \in 1 .. Len(s) - f + 1 : SubSeq(s, f, Len(s))[i] = s[f + i - 1]
  BY <1>3, SubSeqProperties
<1>5. f - 1 \in 0 .. Len(s) /\ Recent(s, w) = SubSeq(s, f, Len(s))
  BY <1>1, <1>2 DEF Recent, f
<1>6. /\ Len(Recent(s, w)) = Len(s) - (f - 1)
      /\ \A i \in 1 .. Len(s) - (f - 1) : Recent(s, w)[i] = s[(f - 1) + i]
  BY <1>1, <1>2, <1>4, <1>5
<1>7. ASSUME f - 1 < Len(s)
      PROVE  Recent(s, w)[1] > now - w
  <2>1. 1 \in 1 .. Len(s) - (f - 1) /\ (f - 1) + 1 = f
    BY <1>1, <1>2, <1>7
  <2>2. Recent(s, w)[1] = s[f]
    BY <1>6, <2>1
  <2> QED
    BY <1>1, <1>2, <1>7, <2>2
<1> QED
  BY <1>2, <1>4, <1>5, <1>6, <1>7

(* Limits and windows are positive.                                         *)
LEMMA PositiveLimits ==
  ASSUME NEW k \in Kind, NEW r \in Req
  PROVE  Limit(k, r) \in Nat \ {0} /\ Window(k, r) \in Nat \ {0}
BY LimiterAssumption DEF Limit, Window

(* Times are natural numbers.                                               *)
LEMMA Times == 0 \in Time /\ Time \subseteq Nat
BY LimiterAssumption DEF Time

(* What a call finds in its queue.                                          *)
LEMMA RecentOfQueue ==
  ASSUME TypeOK, NEW k \in Kind, NEW r \in Req
  PROVE  LET q == Recent(queue[k], Window(k, r)) IN
         \E n \in 0 .. Len(queue[k]) :
           /\ q \in Seq(Time)
           /\ Len(q) = Len(queue[k]) - n
           /\ \A i \in 1 .. Len(queue[k]) - n : q[i] = queue[k][n + i]
           /\ \A i \in 1 .. n : queue[k][i] <= now - Window(k, r)
           /\ n < Len(queue[k]) => q[1] > now - Window(k, r)
<1>1. queue[k] \in Seq(Time) /\ Window(k, r) \in Nat /\ now \in Time
  BY PositiveLimits DEF TypeOK
<1> QED
  BY <1>1, RecentIsEnd

-----------------------------------------------------------------------------
(* Slots and types.                                                         *)

Held == {r \in Req : pc[r] \in Holding}

(* One call that begins or stops to hold a slot changes their number by one. *)
LEMMA HeldChanges ==
  ASSUME NEW r \in Req, \A o \in Req \ {r} : pc'[o] = pc[o]
  PROVE  /\ Cardinality(Held) \in Nat /\ Cardinality(Held') \in Nat
         /\ (pc[r] \in Holding <=> pc'[r] \in Holding)
              => Cardinality(Held') = Cardinality(Held)
         /\ pc[r] \notin Holding /\ pc'[r] \in Holding
              => Cardinality(Held') = Cardinality(Held) + 1
         /\ pc[r] \in Holding /\ pc'[r] \notin Holding
              => Cardinality(Held') = Cardinality(Held) - 1
<1>1. IsFiniteSet(Held) /\ IsFiniteSet(Held')
  <2>1. IsFiniteSet(Req) /\ Held \in SUBSET Req /\ Held' \in SUBSET Req
    BY LimiterAssumption DEF Held
  <2> QED
    BY <2>1, FS_Subset
<1>2. Cardinality(Held) \in Nat /\ Cardinality(Held') \in Nat
  BY <1>1, FS_CardinalityType
<1>3. (pc[r] \in Holding <=> pc'[r] \in Holding) => Held' = Held
  BY DEF Held, Holding, Waiting, Sleeping, Running
<1>4. pc[r] \notin Holding /\ pc'[r] \in Holding => Held' = Held \cup {r} /\ r \notin Held
  BY DEF Held, Holding, Waiting, Sleeping, Running
<1>5. pc[r] \in Holding /\ pc'[r] \notin Holding => Held' = Held \ {r} /\ r \in Held
  BY DEF Held, Holding, Waiting, Sleeping, Running
<1>6. /\ Cardinality(Held \cup {r}) =
           IF r \in Held THEN Cardinality(Held) ELSE Cardinality(Held) + 1
      /\ Cardinality(Held \ {r}) =
           IF r \in Held THEN Cardinality(Held) - 1 ELSE Cardinality(Held)
  BY <1>1, FS_AddElement, FS_RemoveElement
<1> QED
  BY <1>2, <1>3, <1>4, <1>5, <1>6

USE DEF Kind

(* One window action: what is put into a queue is a sequence of times.      *)
LEMMA LetThroughType ==
  ASSUME TypeOK, NEW k \in Kind, NEW r \in Req, NEW q \in Seq(Time), NEW time \in Time,
         pc[r] \in Holding, LetThrough(k, r, q, time)
  PROVE  /\ queue' \in [Kind -> Seq(Time)]
         /\ grants' \in [Kind \cup {"group"} -> Seq(Time)]
         /\ pc' \in [Req -> {"new", "slot"} \cup Holding \cup Ended]
         /\ pc'[r] \in {"chat", "delay"}
         /\ \A o \in Req \ {r} : pc'[o] = pc[o]
<1>1. Append(q, time) \in Seq(Time)
  BY AppendProperties
<1>2. grants \in [Kind \cup {"group"} -> Seq(Time)] /\ now \in Time
  BY DEF TypeOK
<1>3. \A g \in Kind \cup {"group"} : grants[g] \in Seq(Time) /\ Append(grants[g], now) \in Seq(Time)
  BY <1>2, AppendProperties
<1>4. queue' \in [Kind -> Seq(Time)]
  BY <1>1 DEF LetThrough, TypeOK
<1>5. grants' \in [Kind \cup {"group"} -> Seq(Time)]
  BY <1>2, <1>3 DEF LetThrough
<1>6. /\ pc' \in [Req -> {"new", "slot"} \cup Holding \cup Ended]
      /\ pc'[r] \in {"chat", "delay"}
      /\ \A o \in Req \ {r} : pc'[o] = pc[o]
  BY DEF LetThrough, TypeOK, Holding, Waiting
<1> QED
  BY <1>4, <1>5, <1>6

(* Which histories of grants it adds to.                                    *)
LEMMA LetThroughGrants ==
  ASSUME TypeOK, NEW k \in Kind, NEW r, NEW q, NEW time, LetThrough(k, r, q, time)
  PROVE  /\ grants'[k] = Append(grants[k], now)
         /\ \A o \in Kind \ {k} : grants'[o] = grants[o]
         /\ grants'["group"] = IF k = "chat" /\ r \in Group
                                THEN Append(grants["group"], now) ELSE grants["group"]
<1>1. DOMAIN grants = Kind \cup {"group"}
  BY DEF TypeOK
<1>2. /\ k \in GrantKinds(k, r)
      /\ \A o \in Kind \ {k} : o \notin GrantKinds(k, r)
      /\ "group" \in GrantKinds(k, r) <=> k = "chat" /\ r \in Group
  BY DEF GrantKinds
<1>3. \A o \in Kind \cup {"group"} :
        grants'[o] = IF o \in GrantKinds(k, r) THEN Append(grants[o], now) ELSE grants[o]
  BY <1>1 DEF LetThrough
<1> QED
  BY <1>2, <1>3

(* Every step keeps the types, and the slots in step with the calls.        *)
LEMMA TypeStep ==
  ASSUME TypeOK, SlotsReturn, [Next]_vars
  PROVE  TypeOK' /\ SlotsReturn'
<1> USE DEF sleepVars, resolveVars
<1>0. /\ 0 \in Time /\ Time \subseteq Nat /\ {MaxConcurrent, MaxRetries, MaxTime, MaxCancels} \subseteq Nat
      /\ slots = MaxConcurrent - Cardinality(Held)
      /\ SlotsReturn' <=> slots' = MaxConcurrent - Cardinality(Held')
  BY LimiterAssumption DEF SlotsReturn, Held, Time
<1>1. ASSUME NEW r \in Req, CallTool(r)
      PROVE  TypeOK' /\ SlotsReturn'
  <2>1. Today \in Nat
    BY DEF Today, TypeOK
  <2>2. /\ pc' \in [Req -> {"new", "slot"} \cup Holding \cup Ended]
        /\ pc[r] \notin Holding /\ pc'[r] \notin Holding
        /\ \A o \in Req \ {r} : pc'[o] = pc[o]
    BY <1>1 DEF CallTool, Admit, TypeOK, Holding, Waiting, Sleeping, Running, Ended
  <2>3. resolves' \in Nat
    BY <1>1, <2>1 DEF CallTool, Admit, TypeOK
  <2>4. dayOver' \in BOOLEAN
    BY <1>1 DEF CallTool, Admit
  <2>5. slots' = slots /\ slots \in 0 .. MaxConcurrent
    BY <1>1 DEF CallTool, TypeOK
  <2> QED
    BY <1>0, <1>1, <2>2, <2>3, <2>4, <2>5, HeldChanges DEF CallTool, TypeOK
<1>2. ASSUME NEW r \in Req, TakeSlot(r)
      PROVE  TypeOK' /\ SlotsReturn'
  <2>1. /\ pc' \in [Req -> {"new", "slot"} \cup Holding \cup Ended]
        /\ pc[r] \notin Holding /\ pc'[r] \in Holding
        /\ \A o \in Req \ {r} : pc'[o] = pc[o]
    BY <1>2 DEF TakeSlot, TypeOK, Holding, Waiting, Sleeping, Running
  <2>2. stats' \in [{"total", "success"} -> Nat]
    BY <1>2 DEF TakeSlot, TypeOK
  <2>3. slots' = slots - 1 /\ slots > 0 /\ slots \in 0 .. MaxConcurrent
    BY <1>2 DEF TakeSlot, TypeOK
  <2>4. slots' \in 0 .. MaxConcurrent /\ SlotsReturn'
    BY <1>0, <2>1, <2>3, HeldChanges
  <2> QED
    BY <1>0, <1>2, <2>1, <2>2, <2>4 DEF TakeSlot, TypeOK
<1>3. ASSUME NEW k \in Kind, NEW r \in Req, PassWindow(k, r)
      PROVE  TypeOK' /\ SlotsReturn'
  <2> DEFINE q == Recent(queue[k], Window(k, r))
  <2>1. q \in Seq(Time)
    BY RecentOfQueue
  <2>2. now \in Time /\ pc[r] \in Holding /\ LetThrough(k, r, q, now)
    BY <1>3 DEF PassWindow, TypeOK, Holding, Waiting
  <2> HIDE DEF q
  <2>3. /\ queue' \in [Kind -> Seq(Time)]
        /\ grants' \in [Kind \cup {"group"} -> Seq(Time)]
        /\ pc' \in [Req -> {"new", "slot"} \cup Holding \cup Ended]
        /\ pc'[r] \in {"chat", "delay"}
        /\ \A o \in Req \ {r} : pc'[o] = pc[o]
    BY <2>1, <2>2, LetThroughType
  <2>4. pc'[r] \in Holding
    BY <2>3 DEF Holding, Waiting
  <2>5. SlotsReturn'
    BY <1>0, <1>3, <2>2, <2>3, <2>4, HeldChanges DEF PassWindow
  <2> QED
    BY <1>3, <2>3, <2>5 DEF PassWindow, TypeOK
<1>4. ASSUME NEW k \in Kind, NEW r \in Req, WaitForWindow(k, r)
      PROVE  TypeOK' /\ SlotsReturn'
  <2> DEFINE q == Recent(queue[k], Window(k, r))
  <2>1. q \in Seq(Time) /\ Len(q) \in Nat
    BY RecentOfQueue, LenProperties
  <2>2. /\ pc' \in [Req -> {"new", "slot"} \cup Holding \cup Ended]
        /\ pc[r] \in Holding /\ pc'[r] \in Holding
        /\ \A o \in Req \ {r} : pc'[o] = pc[o]
    BY <1>4 DEF WaitForWindow, TypeOK, SleepIn, Holding, Waiting, Sleeping
  <2>3. /\ lock' = [lock EXCEPT ![k] = r]
        /\ queue' = [queue EXCEPT ![k] = q]
        /\ stamp' = [stamp EXCEPT ![r] = now]
        /\ wake' = [wake EXCEPT ![r] = q[1] + Window(k, r)]
        /\ Len(q) >= Limit(k, r)
    BY <1>4 DEF WaitForWindow
  <2> HIDE DEF q
  <2>4. q[1] \in Time /\ q[1] + Window(k, r) \in Nat
    <3>1. 1 \in 1 .. Len(q) /\ Window(k, r) \in Nat
      BY <2>1, <2>3, PositiveLimits
    <3>2. q[1] \in Time
      BY <2>1, <3>1, ElementOfSeq
    <3>3. q[1] \in Nat
      BY <1>0, <3>2
    <3> QED
      BY <3>1, <3>2, <3>3
  <2>5. /\ lock' \in [Kind -> Req \cup {None}]
        /\ queue' \in [Kind -> Seq(Time)]
        /\ stamp' \in [Req -> Time]
        /\ wake' \in [Req -> Nat]
    BY <2>1, <2>3, <2>4 DEF TypeOK
  <2>6. SlotsReturn'
    BY <1>0, <1>4, <2>2, HeldChanges DEF WaitForWindow
  <2> QED
    BY <1>4, <2>2, <2>5, <2>6 DEF WaitForWindow, TypeOK
<1>5. ASSUME NEW k \in Kind, NEW r \in Req, WakeUp(k, r)
      PROVE  TypeOK' /\ SlotsReturn'
  <2>1. /\ queue[k] \in Seq(Time) /\ stamp[r] \in Time /\ pc[r] \in Holding
        /\ LetThrough(k, r, queue[k], stamp[r])
    BY <1>5 DEF WakeUp, TypeOK, SleepIn, Holding, Sleeping
  <2>2. /\ queue' \in [Kind -> Seq(Time)]
        /\ grants' \in [Kind \cup {"group"} -> Seq(Time)]
        /\ pc' \in [Req -> {"new", "slot"} \cup Holding \cup Ended]
        /\ pc'[r] \in {"chat", "delay"}
        /\ \A o \in Req \ {r} : pc'[o] = pc[o]
    BY <2>1, LetThroughType
  <2>3. pc'[r] \in Holding
    BY <2>2 DEF Holding, Waiting
  <2>4. SlotsReturn'
    BY <1>0, <1>5, <2>1, <2>2, <2>3, HeldChanges DEF WakeUp
  <2>5. /\ lock' \in [Kind -> Req \cup {None}]
        /\ stamp' \in [Req -> Time]
        /\ wake' \in [Req -> Nat]
    BY <1>0, <1>5 DEF WakeUp, TypeOK
  <2> QED
    BY <1>5, <2>2, <2>4, <2>5 DEF WakeUp, TypeOK
<1>6. ASSUME NEW r \in Req, Enter(r)
      PROVE  TypeOK' /\ SlotsReturn'
  <2>1. /\ pc' \in [Req -> {"new", "slot"} \cup Holding \cup Ended]
        /\ pc[r] \in Holding /\ pc'[r] \in Holding
        /\ \A o \in Req \ {r} : pc'[o] = pc[o]
    BY <1>6 DEF Enter, TypeOK, Holding, Waiting, Sleeping, Running, Ended
  <2>2. SlotsReturn'
    BY <1>0, <1>6, <2>1, HeldChanges DEF Enter
  <2> QED
    BY <1>6, <2>1, <2>2 DEF Enter, TypeOK
<1>7. ASSUME NEW r \in Req, Return(r)
      PROVE  TypeOK' /\ SlotsReturn'
  <2>1. /\ pc' \in [Req -> {"new", "slot"} \cup Holding \cup Ended]
        /\ pc[r] \in Holding /\ pc'[r] \notin Holding
        /\ \A o \in Req \ {r} : pc'[o] = pc[o]
    BY <1>7 DEF Return, TypeOK, Holding, Waiting, Sleeping, Running, Ended
  <2>2. stats' \in [{"total", "success"} -> Nat]
    BY <1>7 DEF Return, TypeOK
  <2>3. slots' = slots + 1 /\ slots \in 0 .. MaxConcurrent
    BY <1>7 DEF Return, TypeOK
  <2>4. slots' \in 0 .. MaxConcurrent /\ SlotsReturn'
    BY <1>0, <2>1, <2>3, HeldChanges
  <2> QED
    BY <1>7, <2>1, <2>2, <2>4 DEF Return, TypeOK
<1>8. ASSUME NEW r \in Req, FloodWait(r)
      PROVE  TypeOK' /\ SlotsReturn'
  <2>1. /\ pc' \in [Req -> {"new", "slot"} \cup Holding \cup Ended]
        /\ pc[r] \in Holding /\ pc'[r] \in Holding
        /\ \A o \in Req \ {r} : pc'[o] = pc[o]
    BY <1>8 DEF FloodWait, TypeOK, Holding, Waiting, Sleeping, Running, Ended
  <2>2. SlotsReturn'
    BY <1>0, <1>8, <2>1, HeldChanges DEF FloodWait
  <2>3. retries' \in [Req -> 0 .. MaxRetries]
    <3>1. retries \in [Req -> 0 .. MaxRetries] /\ retries[r] < MaxRetries
      BY <1>8 DEF FloodWait, TypeOK
    <3>2. retries[r] + 1 \in 0 .. MaxRetries
      BY <1>0, <3>1
    <3> QED
      BY <1>8, <3>1, <3>2 DEF FloodWait
  <2> QED
    BY <1>8, <2>1, <2>2, <2>3 DEF FloodWait, TypeOK
<1>9. ASSUME NEW r \in Req, Retry(r)
      PROVE  TypeOK' /\ SlotsReturn'
  <2>1. /\ pc' \in [Req -> {"new", "slot"} \cup Holding \cup Ended]
        /\ pc[r] \in Holding /\ pc'[r] \in Holding
        /\ \A o \in Req \ {r} : pc'[o] = pc[o]
    BY <1>9 DEF Retry, TypeOK, Holding, Waiting, Sleeping, Running, Ended
  <2>2. SlotsReturn'
    BY <1>0, <1>9, <2>1, HeldChanges DEF Retry
  <2> QED
    BY <1>9, <2>1, <2>2 DEF Retry, TypeOK
<1>10. ASSUME NEW r \in Req, Cancel(r)
      PROVE  TypeOK' /\ SlotsReturn'
  <2>1. /\ pc' \in [Req -> {"new", "slot"} \cup Holding \cup Ended]
        /\ pc'[r] \notin Holding
        /\ \A o \in Req \ {r} : pc'[o] = pc[o]
    BY <1>10 DEF Cancel, TypeOK, Holding, Waiting, Sleeping, Running, Ended
  <2>2. stats' \in [{"total", "success"} -> Nat]
    BY <1>10 DEF Cancel, TypeOK
  <2>3. /\ slots' = IF pc[r] \in Holding THEN slots + 1 ELSE slots
        /\ slots \in 0 .. MaxConcurrent
    BY <1>10 DEF Cancel, TypeOK
  <2>4. slots' \in 0 .. MaxConcurrent /\ SlotsReturn'
    BY <1>0, <2>1, <2>3, HeldChanges
  <2>5. cancels' \in 0 .. MaxCancels
    BY <1>0, <1>10 DEF Cancel, TypeOK
  <2>6. /\ lock' \in [Kind -> Req \cup {None}]
        /\ stamp' \in [Req -> Time]
        /\ wake' \in [Req -> Nat]
    BY <1>0, <1>10 DEF Cancel, TypeOK
  <2> QED
    BY <1>10, <2>1, <2>2, <2>4, <2>5, <2>6 DEF Cancel, TypeOK
<1>11. CASE Tick
  <2>1. now' \in Time /\ pc' = pc /\ slots' = slots
    BY <1>0, <1>11 DEF Tick, TypeOK, Time
  <2>2. SlotsReturn'
    BY <1>11 DEF Tick, SlotsReturn
  <2> QED
    BY <1>11, <2>1, <2>2 DEF Tick, TypeOK
<1>12. CASE DayPasses
  BY <1>12 DEF DayPasses, TypeOK, SlotsReturn
<1>13. CASE UNCHANGED vars
  BY <1>13 DEF vars, sleepVars, resolveVars, TypeOK, SlotsReturn
<1> QED
  BY <1>1, <1>2, <1>3, <1>4, <1>5, <1>6, <1>7, <1>8, <1>9, <1>10, <1>11, <1>12, <1>13
  DEF Next

TypeInv == TypeOK /\ SlotsReturn

(* Nobody has a slot at the start.                                          *)
LEMMA TypeInit == Init => TypeInv
<1> SUFFICES ASSUME Init PROVE TypeInv
  OBVIOUS
<1>1. 0 \in Time /\ {MaxConcurrent, MaxRetries, MaxTime, MaxCancels} \subseteq Nat
  BY LimiterAssumption DEF Time
<1>2. <<>> \in Seq(Time)
  BY EmptySeq
<1>3. TypeOK
  BY <1>1, <1>2 DEF Init, TypeOK
<1>4. Held = {}
  BY DEF Init, Held, Holding, Waiting, Sleeping, Running
<1>5. Cardinality(Held) = 0 /\ (SlotsReturn <=> slots = MaxConcurrent - Cardinality(Held))
  BY <1>4, FS_EmptySet DEF SlotsReturn, Held
<1>6. SlotsReturn
  BY <1>1, <1>5 DEF Init
<1> QED
  BY <1>3, <1>6 DEF TypeInv

(* The types and the slots together are inductive.                          *)
LEMMA TypeInvariant == Spec => []TypeInv
<1>1. TypeInv /\ [Next]_vars => TypeInv'
  BY TypeStep DEF TypeInv
<1> QED
  BY TypeInit, <1>1, PTL DEF Spec

(* Every variable keeps its type: among other things there are never more   *)
(* than max_concurrent slots and never fewer than none, whatever ends how.  *)
THEOREM TypeCorrect == Spec => []TypeOK
BY TypeInvariant, PTL DEF TypeInv

(* The free slots are max_concurrent less the calls past the semaphore: a   *)
(* call that returns, raises or is cancelled at any await gives its slot    *)
(* back once.                                                               *)
THEOREM SlotsReturnCorrect == Spec => []SlotsReturn
BY TypeInvariant, PTL DEF TypeInv

-----------------------------------------------------------------------------
(* The daily limit.                                                         *)

(* The check and the count are one step: the day's number of resolve        *)
(* operations never exceeds the limit.                                      *)
THEOREM ResolvesCorrect == Spec => []ResolvesWithinDay
<1>1. Init => ResolvesWithinDay
  BY LimiterAssumption DEF Init, ResolvesWithinDay
<1>2. TypeInv /\ ResolvesWithinDay /\ [Next]_vars => ResolvesWithinDay'
  <2> SUFFICES ASSUME TypeInv, ResolvesWithinDay, [Next]_vars
               PROVE  ResolvesWithinDay'
    OBVIOUS
  <2>0. resolves \in Nat /\ DailyLimit \in Nat /\ resolves <= DailyLimit
    BY LimiterAssumption DEF TypeInv, TypeOK, ResolvesWithinDay
  <2>1. ASSUME NEW r \in Req, CallTool(r)
        PROVE  ResolvesWithinDay'
    <3>1. Today \in Nat /\ Today <= DailyLimit
      BY <2>0 DEF Today
    <3>2. \/ Today < DailyLimit /\ resolves' = Today + 1
          \/ resolves' = Today
          \/ resolves' = resolves
      BY <2>1, <3>1, <2>0 DEF CallTool, Admit
    <3> QED
      BY <2>0, <3>1, <3>2 DEF ResolvesWithinDay
  <2>2. CASE resolves' = resolves
    BY <2>2 DEF ResolvesWithinDay
  <2> QED
    BY <2>1, <2>2 DEF Next, TakeSlot, PassWindow, WaitForWindow, WakeUp, Enter, Return,
                      FloodWait, Retry, Cancel, Tick, DayPasses, vars, resolveVars
<1> QED
  BY <1>1, <1>2, TypeInvariant, PTL DEF Spec

-----------------------------------------------------------------------------
(* The statistics.                                                          *)

(* No more successes are counted than requests: in every interleaving each  *)
(* request counts one at most, however it ends.                             *)
THEOREM SuccessesCorrect == Spec => []SuccessesBounded
<1>1. Init => SuccessesBounded
  <2> SUFFICES ASSUME Init PROVE SuccessesBounded
    OBVIOUS
  <2>1. Held = {}
    BY DEF Init, Held, Holding, Waiting, Sleeping, Running
  <2>2. /\ Cardinality(Held) = 0
        /\ SuccessesBounded <=> stats["total"] >= stats["success"] + Cardinality(Held)
    BY <2>1, FS_EmptySet DEF SuccessesBounded, Held
  <2> QED
    BY <2>2 DEF Init
<1>2. TypeInv /\ SuccessesBounded /\ [Next]_vars => SuccessesBounded'
  <2> SUFFICES ASSUME TypeInv, SuccessesBounded, [Next]_vars
               PROVE  SuccessesBounded'
    OBVIOUS
  <2>0. /\ stats \in [{"total", "success"} -> Nat]
        /\ stats["total"] >= stats["success"] + Cardinality(Held)
        /\ SuccessesBounded' <=> stats'["total"] >= stats'["success"] + Cardinality(Held')
        /\ pc \in [Req -> {"new", "slot"} \cup Holding \cup Ended]
    BY DEF TypeInv, TypeOK, SuccessesBounded, Held
  <2>1. ASSUME NEW r \in Req, TakeSlot(r)
        PROVE  SuccessesBounded'
    <3>1. /\ pc[r] \notin Holding /\ pc'[r] \in Holding
          /\ \A o \in Req \ {r} : pc'[o] = pc[o]
          /\ stats'["total"] = stats["total"] + 1 /\ stats'["success"] = stats["success"]
      BY <2>0, <2>1 DEF TakeSlot, Holding, Waiting, Sleeping, Running
    <3> QED
      BY <2>0, <3>1, HeldChanges
  <2>2. ASSUME NEW r \in Req, Return(r)
        PROVE  SuccessesBounded'
    <3>1. /\ pc[r] \in Holding /\ pc'[r] \notin Holding
          /\ \A o \in Req \ {r} : pc'[o] = pc[o]
          /\ stats'["total"] = stats["total"] /\ stats'["success"] = stats["success"] + 1
      BY <2>0, <2>2 DEF Return, Holding, Waiting, Sleeping, Running
    <3> QED
      BY <2>0, <3>1, HeldChanges
  <2>3. ASSUME NEW r \in Req, Cancel(r)
        PROVE  SuccessesBounded'
    <3>1. /\ pc'[r] \notin Holding
          /\ \A o \in Req \ {r} : pc'[o] = pc[o]
          /\ stats'["total"] = stats["total"]
          /\ stats'["success"] = IF pc[r] \in Running THEN stats["success"] + 1
                                                      ELSE stats["success"]
          /\ pc[r] \in Running => pc[r] \in Holding
      BY <2>0, <2>3 DEF Cancel, Holding, Waiting, Sleeping, Running
    <3> QED
      BY <2>0, <3>1, HeldChanges
  <2>4. ASSUME NEW r \in Req, stats' = stats, pc[r] \in Holding <=> pc'[r] \in Holding,
               \A o \in Req \ {r} : pc'[o] = pc[o]
        PROVE  SuccessesBounded'
    BY <2>0, <2>4, HeldChanges
  <2>5. ASSUME NEW r \in Req,
               CallTool(r) \/ Enter(r) \/ FloodWait(r) \/ Retry(r)
                 \/ \E k \in Kind : PassWindow(k, r) \/ WaitForWindow(k, r) \/ WakeUp(k, r)
        PROVE  SuccessesBounded'
    <3>1. stats' = stats /\ \A o \in Req \ {r} : pc'[o] = pc[o]
      BY <2>0, <2>5 DEF CallTool, Admit, Enter, FloodWait, Retry, PassWindow, WaitForWindow,
                        WakeUp, LetThrough
    <3>2. pc[r] \in Holding <=> pc'[r] \in Holding
      BY <2>0, <2>5 DEF CallTool, Admit, Enter, FloodWait, Retry, PassWindow, WaitForWindow,
                        WakeUp, LetThrough, SleepIn, Holding, Waiting, Sleeping, Running
    <3> QED
      BY <2>4, <3>1, <3>2
  <2>6. CASE Tick \/ DayPasses \/ UNCHANGED vars
    BY <2>6 DEF Tick, DayPasses, vars, SuccessesBounded
  <2> QED
    BY <2>1, <2>2, <2>3, <2>5, <2>6 DEF Next
<1> QED
  BY <1>1, <1>2, TypeInvariant, PTL DEF Spec

-----------------------------------------------------------------------------
(* The locks of the windows.                                                *)

(* A call that neither begins nor ends a sleep leaves the locks in order.   *)
LEMMA LocksFrame ==
  ASSUME LocksMove, NEW r \in Req, \A o \in Req \ {r} : pc'[o] = pc[o],
         pc[r] \notin Sleeping, pc'[r] \notin Sleeping,
         lock \in [Kind -> Req \cup {None}],
         lock' = lock, stamp' = stamp, wake' = wake
  PROVE  LocksMove'
<1>1. ASSUME NEW k \in Kind, lock'[k] # None
      PROVE  pc'[lock'[k]] = SleepIn(k) /\ wake'[lock'[k]] <= stamp'[lock'[k]] + Window(k, lock'[k])
  <2>1. /\ lock[k] \in Req
        /\ pc[lock[k]] = SleepIn(k) /\ wake[lock[k]] <= stamp[lock[k]] + Window(k, lock[k])
    BY <1>1 DEF LocksMove
  <2>2. lock[k] # r
    BY <2>1 DEF SleepIn, Sleeping
  <2> QED
    BY <2>1, <2>2
<1>2. ASSUME NEW k \in Kind, NEW o \in Req, pc'[o] = SleepIn(k)
      PROVE  lock'[k] = o
  <2>1. o # r
    BY <1>2 DEF SleepIn, Sleeping
  <2> QED
    BY <1>2, <2>1 DEF LocksMove
<1> QED
  BY <1>1, <1>2 DEF LocksMove

(* A step that leaves queues, stamps and the clock's past alone keeps it.   *)
LEMMA StampsFrame ==
  ASSUME TypeOK, StampsPast, queue' = queue, now' \in Nat, now <= now',
         \A r \in Req : stamp'[r] \in {0, now, stamp[r]}
  PROVE  StampsPast'
<1>1. ASSUME NEW k \in Kind, NEW i \in 1 .. Len(queue[k])
      PROVE  queue[k][i] <= now'
  <2>1. queue[k] \in Seq(Time) /\ now \in Nat
    BY Times DEF TypeOK
  <2>2. queue[k][i] \in Nat
    BY <2>1, ElementOfSeq, Times
  <2> QED
    BY <2>1, <2>2 DEF StampsPast
<1>2. ASSUME NEW r \in Req
      PROVE  stamp'[r] <= now'
  <2>1. stamp[r] \in Nat /\ now \in Nat
    BY LimiterAssumption DEF TypeOK, Time
  <2> QED
    BY <2>1 DEF StampsPast
<1> QED
  BY <1>1, <1>2 DEF StampsPast

(* A queue that gets the end of itself and one more stamp.                  *)
LEMMA StampsAppend ==
  ASSUME TypeOK, StampsPast, NEW k \in Kind, NEW q \in Seq(Time), NEW time \in Time,
         \A i \in 1 .. Len(q) : q[i] <= now,
         time <= now, now' = now, queue' = [queue EXCEPT ![k] = Append(q, time)],
         \A r \in Req : stamp'[r] \in {0, now, stamp[r]}
  PROVE  StampsPast'
<1>1. /\ Len(Append(q, time)) = Len(q) + 1 /\ Len(q) \in Nat
      /\ \A i \in 1 .. Len(q) : Append(q, time)[i] = q[i]
      /\ Append(q, time)[Len(q) + 1] = time
  BY AppendProperties, LenProperties
<1>2. \A i \in 1 .. Len(Append(q, time)) : Append(q, time)[i] <= now
  BY <1>1
<1>3. ASSUME NEW j \in Kind
      PROVE  queue'[j] = IF j = k THEN Append(q, time) ELSE queue[j]
  BY DEF TypeOK
<1>4. ASSUME NEW r \in Req
      PROVE  stamp'[r] <= now'
  <2>1. stamp[r] \in Nat /\ now \in Nat
    BY LimiterAssumption DEF TypeOK, Time
  <2> QED
    BY <2>1 DEF StampsPast
<1> QED
  BY <1>2, <1>3, <1>4 DEF StampsPast

(* What is left of a queue of past stamps are past stamps.                  *)
LEMMA RecentIsPast ==
  ASSUME TypeOK, StampsPast, NEW k \in Kind, NEW r \in Req
  PROVE  LET q == Recent(queue[k], Window(k, r)) IN
         q \in Seq(Time) /\ \A i \in 1 .. Len(q) : q[i] <= now
<1> DEFINE q == Recent(queue[k], Window(k, r))
<1>1. PICK n \in 0 .. Len(queue[k]) :
        /\ q \in Seq(Time)
        /\ Len(q) = Len(queue[k]) - n
        /\ \A i \in 1 .. Len(queue[k]) - n : q[i] = queue[k][n + i]
  BY RecentOfQueue
<1>2. Len(queue[k]) \in Nat
  BY LenProperties DEF TypeOK
<1> HIDE DEF q
<1>3. ASSUME NEW i \in 1 .. Len(q)
      PROVE  q[i] <= now
  <2>1. n + i \in 1 .. Len(queue[k]) /\ q[i] = queue[k][n + i]
    BY <1>1, <1>2
  <2> QED
    BY <2>1 DEF StampsPast
<1> QED
  BY <1>1, <1>3 DEF q

(* Every step keeps both.                                                   *)
LEMMA LockStep ==
  ASSUME TypeInv, StampsPast, LocksMove, [Next]_vars
  PROVE  StampsPast' /\ LocksMove'
<1> USE DEF sleepVars, resolveVars
<1>0. /\ TypeOK /\ TypeOK' /\ now \in Nat /\ now \in Time /\ Time \subseteq Nat /\ None \notin Req
      /\ pc \in [Req -> {"new", "slot"} \cup Holding \cup Ended]
      /\ lock \in [Kind -> Req \cup {None}]
      /\ stamp \in [Req -> Time] /\ wake \in [Req -> Nat]
  <2>1. TypeOK /\ TypeOK'
    BY TypeStep DEF TypeInv
  <2>2. Time \subseteq Nat /\ None \notin Req
    BY LimiterAssumption, Times
  <2> QED
    BY <2>1, <2>2 DEF TypeOK
<1>1. ASSUME NEW r \in Req,
             CallTool(r) \/ TakeSlot(r) \/ Enter(r) \/ Return(r) \/ FloodWait(r) \/ Retry(r)
      PROVE  StampsPast' /\ LocksMove'
  <2>1. /\ queue' = queue /\ now' = now /\ lock' = lock /\ stamp' = stamp /\ wake' = wake
        /\ \A o \in Req \ {r} : pc'[o] = pc[o]
    BY <1>0, <1>1 DEF CallTool, Admit, TakeSlot, Enter, Return, FloodWait, Retry
  <2>2. pc[r] \notin Sleeping /\ pc'[r] \notin Sleeping
    BY <1>0, <1>1 DEF CallTool, Admit, TakeSlot, Enter, Return, FloodWait, Retry, Sleeping
  <2>3. TypeOK /\ queue' = queue /\ now' \in Nat /\ now <= now'
    BY <1>0, <2>1
  <2>4. \A o \in Req : stamp'[o] \in {0, now, stamp[o]}
    BY <2>1
  <2>5. StampsPast'
    BY <2>3, <2>4, StampsFrame
  <2> QED
    BY <1>0, <2>1, <2>2, <2>5, LocksFrame
<1>2. ASSUME NEW k \in Kind, NEW r \in Req, PassWindow(k, r)
      PROVE  StampsPast' /\ LocksMove'
  <2> DEFINE q == Recent(queue[k], Window(k, r))
  <2>1. q \in Seq(Time) /\ \A i \in 1 .. Len(q) : q[i] <= now
    BY <1>0, RecentIsPast
  <2>2. /\ now' = now /\ queue' = [queue EXCEPT ![k] = Append(q, now)]
        /\ lock' = lock /\ stamp' = stamp /\ wake' = wake
        /\ \A o \in Req \ {r} : pc'[o] = pc[o]
    BY <1>0, <1>2 DEF PassWindow, LetThrough
  <2>3. pc[r] \notin Sleeping /\ pc'[r] \notin Sleeping
    BY <1>0, <1>2 DEF PassWindow, LetThrough, Sleeping
  <2>4. TypeOK /\ now \in Time /\ now <= now /\ \A o \in Req : stamp'[o] \in {0, now, stamp[o]}
    BY <1>0, <2>2
  <2> HIDE DEF q
  <2>5. StampsPast'
    BY <2>1, <2>2, <2>4, StampsAppend
  <2> QED
    BY <1>0, <2>2, <2>3, <2>5, LocksFrame
<1>3. ASSUME NEW k \in Kind, NEW r \in Req, WaitForWindow(k, r)
      PROVE  StampsPast' /\ LocksMove'
  <2> DEFINE q == Recent(queue[k], Window(k, r))
  <2>1. q \in Seq(Time) /\ Len(q) \in Nat /\ \A i \in 1 .. Len(q) : q[i] <= now
    BY <1>0, RecentIsPast, LenProperties
  <2>2. /\ now' = now /\ queue' = [queue EXCEPT ![k] = q]
        /\ lock' = [lock EXCEPT ![k] = r] /\ lock[k] = None
        /\ stamp' = [stamp EXCEPT ![r] = now]
        /\ wake' = [wake EXCEPT ![r] = q[1] + Window(k, r)]
        /\ pc' = [pc EXCEPT ![r] = SleepIn(k)]
        /\ pc[r] = k /\ Len(q) >= Limit(k, r)
    BY <1>3 DEF WaitForWindow
  <2> HIDE DEF q
  <2>3. StampsPast'
    <3>1. \A j \in Kind : queue'[j] = IF j = k THEN q ELSE queue[j]
      BY <1>0, <2>2 DEF TypeOK
    <3>2. ASSUME NEW o \in Req
          PROVE  stamp'[o] <= now'
      BY <1>0, <2>2 DEF StampsPast
    <3> QED
      BY <2>1, <2>2, <3>1, <3>2 DEF StampsPast
  <2>4. wake'[r] <= stamp'[r] + Window(k, r)
    <3>1. Limit(k, r) \in Nat \ {0} /\ Window(k, r) \in Nat
      BY PositiveLimits
    <3>2. q[1] <= now /\ q[1] \in Time
      BY <2>1, <2>2, <3>1, ElementOfSeq
    <3>3. q[1] \in Nat
      BY <1>0, <3>2
    <3>4. wake'[r] = q[1] + Window(k, r) /\ stamp'[r] = now
      BY <1>0, <2>2
    <3> QED
      BY <1>0, <3>1, <3>2, <3>3, <3>4
  <2>5. ASSUME NEW j \in Kind, lock'[j] # None
        PROVE  pc'[lock'[j]] = SleepIn(j) /\ wake'[lock'[j]] <= stamp'[lock'[j]] + Window(j, lock'[j])
    <3>1. CASE j = k
      BY <1>0, <2>2, <2>4, <3>1
    <3>2. CASE j # k
      <4>1. lock'[j] = lock[j] /\ lock[j] \in Req /\ pc[lock[j]] = SleepIn(j)
        BY <1>0, <2>2, <2>5, <3>2 DEF LocksMove
      <4>2. lock[j] # r
        BY <2>2, <4>1 DEF SleepIn
      <4> QED
        BY <1>0, <2>2, <2>5, <4>1, <4>2 DEF LocksMove
    <3> QED
      BY <3>1, <3>2
  <2>6. ASSUME NEW j \in Kind, NEW o \in Req, pc'[o] = SleepIn(j)
        PROVE  lock'[j] = o
    <3>1. CASE o = r
      BY <1>0, <2>2, <2>6, <3>1 DEF SleepIn
    <3>2. CASE o # r
      <4>1. pc[o] = SleepIn(j)
        BY <1>0, <2>2, <2>6, <3>2
      <4>2. lock[j] = o
        BY <4>1 DEF LocksMove
      <4> QED
        BY <1>0, <2>2, <4>2
    <3> QED
      BY <3>1, <3>2
  <2> QED
    BY <2>3, <2>5, <2>6 DEF LocksMove
<1>4. ASSUME NEW r \in Req,
             \A o \in Req \ {r} : pc'[o] = pc[o] /\ stamp'[o] = stamp[o] /\ wake'[o] = wake[o],
             pc'[r] \notin Sleeping,
             \A j \in Kind : lock'[j] = IF lock[j] = r THEN None ELSE lock[j]
      PROVE  LocksMove'
  <2>2. ASSUME NEW j \in Kind, lock'[j] # None
        PROVE  pc'[lock'[j]] = SleepIn(j) /\ wake'[lock'[j]] <= stamp'[lock'[j]] + Window(j, lock'[j])
    <3>1. lock'[j] = lock[j] /\ lock[j] \in Req \ {r}
      BY <1>0, <1>4, <2>2
    <3> QED
      BY <1>4, <2>2, <3>1 DEF LocksMove
  <2>3. ASSUME NEW j \in Kind, NEW o \in Req, pc'[o] = SleepIn(j)
        PROVE  lock'[j] = o
    <3>1. o # r
      BY <1>4, <2>3 DEF SleepIn, Sleeping
    <3>2. lock[j] = o
      BY <1>4, <2>3, <3>1 DEF LocksMove
    <3> QED
      BY <1>4, <3>1, <3>2
  <2> QED
    BY <2>2, <2>3 DEF LocksMove
<1>5. ASSUME NEW r \in Req, Cancel(r)
      PROVE  StampsPast' /\ LocksMove'
  <2>1. /\ now' = now /\ queue' = queue
        /\ \A o \in Req \ {r} : pc'[o] = pc[o] /\ stamp'[o] = stamp[o] /\ wake'[o] = wake[o]
        /\ \A j \in Kind : lock'[j] = IF lock[j] = r THEN None ELSE lock[j]
    BY <1>0, <1>5 DEF Cancel
  <2>2. pc'[r] \notin Sleeping
    BY <1>0, <1>5 DEF Cancel, Sleeping
  <2>3. LocksMove'
    BY <1>4, <2>1, <2>2
  <2>4. stamp' = [stamp EXCEPT ![r] = 0]
    BY <1>5 DEF Cancel
  <2>5. StampsPast'
    BY <1>0, <2>1, <2>4, StampsFrame
  <2> QED
    BY <2>3, <2>5
<1>6. ASSUME NEW k \in Kind, NEW r \in Req, WakeUp(k, r)
      PROVE  StampsPast' /\ LocksMove'
  <2>1. /\ now' = now /\ queue' = [queue EXCEPT ![k] = Append(queue[k], stamp[r])]
        /\ \A o \in Req \ {r} : pc'[o] = pc[o] /\ stamp'[o] = stamp[o] /\ wake'[o] = wake[o]
        /\ lock' = [lock EXCEPT ![k] = None] /\ pc[r] = SleepIn(k)
        /\ stamp' = [stamp EXCEPT ![r] = 0]
    BY <1>0, <1>6 DEF WakeUp, LetThrough
  <2>2. pc'[r] \notin Sleeping
    BY <1>0, <1>6 DEF WakeUp, LetThrough, Sleeping
  <2>3. \A j \in Kind : lock'[j] = IF lock[j] = r THEN None ELSE lock[j]
    <3>1. lock[k] = r
      BY <2>1 DEF LocksMove
    <3>2. ASSUME NEW j \in Kind, j # k
          PROVE  lock[j] # r
      BY <1>0, <2>1, <3>2 DEF LocksMove, SleepIn
    <3> QED
      BY <1>0, <2>1, <3>1, <3>2
  <2>4. LocksMove'
    BY <1>4, <2>1, <2>2, <2>3
  <2>5. /\ queue[k] \in Seq(Time) /\ stamp[r] \in Time /\ stamp[r] <= now
        /\ \A i \in 1 .. Len(queue[k]) : queue[k][i] <= now
        /\ \A o \in Req : stamp'[o] \in {0, now, stamp[o]}
    BY <1>0, <2>1 DEF TypeOK, StampsPast
  <2>6. StampsPast'
    BY <1>0, <2>1, <2>5, StampsAppend
  <2> QED
    BY <2>4, <2>6
<1>7. CASE Tick \/ DayPasses \/ UNCHANGED vars
  <2>1. /\ queue' = queue /\ stamp' = stamp /\ lock' = lock /\ wake' = wake /\ pc' = pc
        /\ now' \in Nat /\ now <= now'
    BY <1>0, <1>7 DEF Tick, DayPasses, vars
  <2>2. StampsPast'
    BY <1>0, <2>1, StampsFrame
  <2>3. LocksMove'
    BY <2>1 DEF LocksMove
  <2> QED
    BY <2>2, <2>3
<1> QED
  BY <1>1, <1>2, <1>3, <1>5, <1>6, <1>7 DEF Next

LockInv == TypeInv /\ StampsPast /\ LocksMove

(* Types, stamps of the past and locks together are inductive.              *)
LEMMA LockInvariant == Spec => []LockInv
<1>1. Init => StampsPast /\ LocksMove
  BY LimiterAssumption DEF Init, StampsPast, LocksMove, SleepIn
<1>2. LockInv /\ [Next]_vars => LockInv'
  BY LockStep, TypeStep DEF LockInv, TypeInv
<1> QED
  BY <1>1, <1>2, TypeInit, PTL DEF Spec, LockInv

(* A lock is held by the one call that sleeps with it, and by nobody else:  *)
(* never by a call that has been cancelled or is past its window, and never *)
(* for longer than that window.                                             *)
THEOREM LocksMoveCorrect == Spec => []LocksMove
BY LockInvariant, PTL DEF LockInv

-----------------------------------------------------------------------------
(* The rate of the global window.                                           *)

(* One more event keeps a rate when the n-th before it is a window old.     *)
LEMMA AtMostAppend ==
  ASSUME NEW times \in Seq(Time), NEW n \in Nat \ {0}, NEW w \in Nat, NEW t \in Time,
         AtMost(n, w, times),
         Len(times) + 1 > n => t - times[Len(times) + 1 - n] >= w
  PROVE  AtMost(n, w, Append(times, t))
<1> DEFINE more == Append(times, t)
<1>1. /\ Len(more) = Len(times) + 1 /\ Len(times) \in Nat
      /\ \A i \in 1 .. Len(times) : more[i] = times[i]
      /\ more[Len(times) + 1] = t
      /\ DOMAIN more = 1 .. Len(times) + 1 /\ DOMAIN times = 1 .. Len(times)
  BY AppendProperties, LenProperties
<1> HIDE DEF more
<1>2. ASSUME NEW i \in DOMAIN more, i > n
      PROVE  more[i] - more[i - n] >= w
  <2>1. CASE i \in DOMAIN times
    <3>1. i - n \in 1 .. Len(times) /\ i \in 1 .. Len(times)
      BY <1>1, <1>2, <2>1
    <3> QED
      BY <1>1, <1>2, <2>1, <3>1 DEF AtMost
  <2>2. CASE i = Len(times) + 1
    <3>1. i - n \in 1 .. Len(times)
      BY <1>1, <1>2, <2>2
    <3> QED
      BY <1>1, <1>2, <2>2, <3>1
  <2> QED
    BY <1>1, <2>1, <2>2
<1> QED
  BY <1>2 DEF AtMost, more

(* The two sequences, and what is in them.                                  *)
LEMMA GlobalTypes ==
  ASSUME TypeOK
  PROVE  /\ grants["global"] \in Seq(Time) /\ queue["global"] \in Seq(Time)
         /\ Len(grants["global"]) \in Nat /\ Len(queue["global"]) \in Nat
         /\ \A i \in 1 .. Len(grants["global"]) : grants["global"][i] \in Nat
         /\ \A i \in 1 .. Len(queue["global"]) : queue["global"][i] \in Nat
         /\ now \in Nat /\ now \in Time
         /\ GlobalLimit \in Nat \ {0} /\ GlobalWindow \in Nat \ {0}
<1>1. grants["global"] \in Seq(Time) /\ queue["global"] \in Seq(Time) /\ now \in Time
  BY DEF TypeOK
<1>2. GlobalLimit \in Nat \ {0} /\ GlobalWindow \in Nat \ {0}
  BY LimiterAssumption
<1>3. /\ Len(grants["global"]) \in Nat /\ Len(queue["global"]) \in Nat
      /\ \A i \in 1 .. Len(grants["global"]) : grants["global"][i] \in Time
      /\ \A i \in 1 .. Len(queue["global"]) : queue["global"][i] \in Time
  BY <1>1, LenProperties, ElementOfSeq
<1> QED
  BY <1>1, <1>2, <1>3, Times

(* The clock moves on and a sleeper may go: nothing else is needed.         *)
LEMMA GlobalFrame ==
  ASSUME TypeOK, GlobalInv, now' \in Nat, now <= now', lock["global"] \in Req \cup {None},
         grants'["global"] = grants["global"], queue'["global"] = queue["global"],
         \/ lock'["global"] = None
         \/ /\ lock'["global"] = lock["global"]
            /\ stamp'[lock["global"]] = stamp[lock["global"]]
            /\ wake'[lock["global"]] = wake[lock["global"]]
  PROVE  GlobalInv'
<1> DEFINE g == grants["global"]
           q == queue["global"]
           d == Len(g) - Len(q)
<1>1. /\ Len(g) \in Nat /\ Len(q) \in Nat /\ now \in Nat
      /\ \A i \in 1 .. Len(g) : g[i] \in Nat
      /\ \A i \in 1 .. Len(q) : q[i] \in Nat
      /\ GlobalLimit \in Nat \ {0} /\ GlobalWindow \in Nat \ {0}
  BY GlobalTypes
<1>2. /\ d >= 0
      /\ \A i \in 1 .. Len(g) : g[i] <= now
      /\ \A i \in 1 .. d - 1 : g[i] <= now - GlobalWindow
      /\ \A i \in 1 .. Len(q) : d + i > 1 => g[d + i - 1] <= q[i]
  BY DEF GlobalInv, Trails
<1>3. lock["global"] = None => (Len(q) > GlobalLimit =>
               Len(q) = GlobalLimit + 1 /\ q[1] <= now - GlobalWindow)
  BY DEF GlobalInv, Trails
<1>4. lock["global"] # None =>
             /\ Len(q) = GlobalLimit
             /\ wake[lock["global"]] = q[1] + GlobalWindow
             /\ \A i \in 1 .. Len(g) : g[i] <= stamp[lock["global"]]
  BY DEF GlobalInv, Trails
<1> HIDE DEF g, q
<1>5. /\ \A i \in 1 .. Len(g) : g[i] <= now'
      /\ \A i \in 1 .. d - 1 : g[i] <= now' - GlobalWindow
  <2>1. ASSUME NEW i \in 1 .. Len(g)
        PROVE  g[i] <= now'
    BY <1>1, <1>2
  <2>2. ASSUME NEW i \in 1 .. d - 1
        PROVE  g[i] <= now' - GlobalWindow
    <3>1. g[i] \in Nat /\ g[i] <= now - GlobalWindow
      BY <1>1, <1>2
    <3> QED
      BY <1>1, <3>1
  <2> QED
    BY <2>1, <2>2
<1>6. lock'["global"] = None => (Len(q) > GlobalLimit =>
               Len(q) = GlobalLimit + 1 /\ q[1] <= now' - GlobalWindow)
  BY <1>1, <1>3, <1>4
<1>7. lock'["global"] # None =>
             /\ Len(q) = GlobalLimit
             /\ wake'[lock'["global"]] = q[1] + GlobalWindow
             /\ \A i \in 1 .. Len(g) : g[i] <= stamp'[lock'["global"]]
  BY <1>4
<1>8. g = grants'["global"] /\ q = queue'["global"]
  BY DEF g, q
<1> QED
  BY <1>2, <1>5, <1>6, <1>7, <1>8 DEF GlobalInv, Trails

(* Cleaning the queue drops entries whose grants are a window old, and      *)
(* leaves no more than the limit.                                           *)
LEMMA CleanQueue ==
  ASSUME TypeOK, GlobalInv, lock["global"] = None, NEW r \in Req
  PROVE  LET g == grants["global"]
             q == Recent(queue["global"], Window("global", r))
             d == Len(g) - Len(q)
         IN /\ q \in Seq(Time) /\ Len(q) \in Nat /\ Len(q) <= GlobalLimit /\ d >= 0
            /\ \A i \in 1 .. Len(q) : q[i] \in Nat
            /\ \A i \in 1 .. d - 1 : g[i] <= now - GlobalWindow
            /\ \A i \in 1 .. Len(q) : d + i > 1 => g[d + i - 1] <= q[i]
<1> DEFINE g == grants["global"]
           o == queue["global"]
           q == Recent(o, Window("global", r))
           d == Len(g) - Len(o)
<1>1. /\ Len(g) \in Nat /\ Len(o) \in Nat /\ now \in Nat
      /\ \A i \in 1 .. Len(g) : g[i] \in Nat
      /\ \A i \in 1 .. Len(o) : o[i] \in Nat
      /\ GlobalLimit \in Nat \ {0} /\ GlobalWindow \in Nat \ {0}
  BY GlobalTypes
<1>2. /\ d >= 0
      /\ \A i \in 1 .. d - 1 : g[i] <= now - GlobalWindow
      /\ \A i \in 1 .. Len(o) : d + i > 1 => g[d + i - 1] <= o[i]
      /\ Len(o) > GlobalLimit => Len(o) = GlobalLimit + 1 /\ o[1] <= now - GlobalWindow
  BY DEF GlobalInv, Trails
<1>3. Window("global", r) = GlobalWindow
  BY DEF Window
<1>4. PICK n \in 0 .. Len(o) :
        /\ q \in Seq(Time)
        /\ Len(q) = Len(o) - n
        /\ \A i \in 1 .. Len(o) - n : q[i] = o[n + i]
        /\ \A i \in 1 .. n : o[i] <= now - GlobalWindow
        /\ n < Len(o) => q[1] > now - GlobalWindow
  BY <1>3, RecentOfQueue
<1> HIDE DEF g, o, q
<1>5. Len(q) \in Nat /\ Len(g) - Len(q) = d + n /\ d + n >= 0
  BY <1>1, <1>2, <1>4
<1>6. ASSUME NEW i \in 1 .. d + n - 1
      PROVE  g[i] <= now - GlobalWindow
  <2>1. CASE i <= d - 1
    BY <1>1, <1>2, <2>1
  <2>2. CASE i > d - 1
    <3>1. i - d + 1 \in 1 .. n /\ i - d + 1 \in 1 .. Len(o)
      BY <1>1, <1>2, <1>4, <2>2
    <3>2. d + (i - d + 1) - 1 = i /\ d + (i - d + 1) > 1 /\ i \in 1 .. Len(g)
      BY <1>1, <1>2, <1>4, <2>2
    <3>3. g[i] <= o[i - d + 1]
      BY <1>2, <3>1, <3>2
    <3>4. o[i - d + 1] <= now - GlobalWindow
      BY <1>4, <3>1
    <3>5. g[i] \in Nat /\ o[i - d + 1] \in Nat
      BY <1>1, <3>1, <3>2
    <3> QED
      BY <1>1, <3>3, <3>4, <3>5
  <2> QED
    BY <1>1, <1>2, <2>1, <2>2
<1>7. ASSUME NEW i \in 1 .. Len(q), (d + n) + i > 1
      PROVE  q[i] \in Nat /\ g[(d + n) + i - 1] <= q[i]
  <2>1. n + i \in 1 .. Len(o) /\ q[i] = o[n + i]
    BY <1>1, <1>4
  <2>2. g[d + (n + i) - 1] <= o[n + i]
    BY <1>1, <1>2, <1>4, <1>7, <2>1
  <2>3. d + (n + i) - 1 = (d + n) + i - 1
    BY <1>1, <1>4
  <2> QED
    BY <1>1, <2>1, <2>2, <2>3
<1>8. Len(q) <= GlobalLimit
  <2>1. CASE Len(o) <= GlobalLimit
    BY <1>1, <1>4, <2>1
  <2>2. CASE Len(o) > GlobalLimit
    <3>1. n = 0 => q[1] = o[1]
      BY <1>1, <1>4, <2>2
    <3>2. 1 \in 1 .. Len(o) /\ o[1] \in Nat
      BY <1>1, <2>2
    <3>3. n # 0
      BY <1>1, <1>2, <1>4, <2>2, <3>1, <3>2
    <3> QED
      BY <1>1, <1>2, <1>4, <2>2, <3>3
  <2> QED
    BY <1>1, <2>1, <2>2
<1>9. \A i \in 1 .. Len(q) : q[i] \in Nat
  BY <1>1, <1>4
<1> DEFINE e == Len(g) - Len(q)
<1>10. e = d + n /\ e \in Int /\ d \in Int
  BY <1>1, <1>5
<1>11. /\ \A i \in 1 .. (d + n) - 1 : g[i] <= now - GlobalWindow
       /\ \A i \in 1 .. Len(q) : (d + n) + i > 1 => g[(d + n) + i - 1] <= q[i]
  BY <1>6, <1>7
<1> HIDE DEF d, e
<1>12. /\ e >= 0
       /\ \A i \in 1 .. e - 1 : g[i] <= now - GlobalWindow
       /\ \A i \in 1 .. Len(q) : e + i > 1 => g[e + i - 1] <= q[i]
  BY <1>5, <1>10, <1>11
<1> QED
  BY <1>4, <1>5, <1>8, <1>9, <1>12 DEF g, o, q, e

(* A grant of the global window: the queue q, cleaned and not longer than   *)
(* the limit, or full with its first entry too old, gets a stamp that is no *)
(* older than the grant before.                                             *)
LEMMA GlobalGrant ==
  ASSUME TypeOK, GlobalInv, GlobalRate, now' = now, lock'["global"] = None,
         NEW q \in Seq(Time), NEW time \in Time,
         Len(q) <= GlobalLimit, Len(grants["global"]) - Len(q) >= 0,
         \A i \in 1 .. Len(grants["global"]) - Len(q) - 1 :
           grants["global"][i] <= now - GlobalWindow,
         \A i \in 1 .. Len(q) : Len(grants["global"]) - Len(q) + i > 1 =>
           grants["global"][Len(grants["global"]) - Len(q) + i - 1] <= q[i],
         Len(q) = GlobalLimit => q[1] <= now - GlobalWindow,
         \A i \in 1 .. Len(grants["global"]) : grants["global"][i] <= time,
         queue'["global"] = Append(q, time),
         grants'["global"] = Append(grants["global"], now)
  PROVE  GlobalInv' /\ GlobalRate'
<1> DEFINE g == grants["global"]
           d == Len(g) - Len(q)
           gg == Append(g, now)
           qq == Append(q, time)
<1>1. /\ g \in Seq(Time) /\ Len(g) \in Nat /\ now \in Nat /\ now \in Time
      /\ \A i \in 1 .. Len(g) : g[i] \in Nat
      /\ GlobalLimit \in Nat \ {0} /\ GlobalWindow \in Nat \ {0}
  BY GlobalTypes
<1>2. /\ Len(q) \in Nat /\ \A i \in 1 .. Len(q) : q[i] \in Nat
  BY LenProperties, ElementOfSeq, Times
<1>3. /\ Len(gg) = Len(g) + 1 /\ gg[Len(g) + 1] = now
      /\ \A i \in 1 .. Len(g) : gg[i] = g[i]
  BY <1>1, AppendProperties
<1>4. /\ Len(qq) = Len(q) + 1 /\ qq[Len(q) + 1] = time
      /\ \A i \in 1 .. Len(q) : qq[i] = q[i]
  BY AppendProperties
<1>5. /\ \A i \in 1 .. Len(g) : g[i] <= now
      /\ AtMost(GlobalLimit + 1, GlobalWindow, g)
  BY DEF GlobalInv, Trails, GlobalRate
<1>6. /\ Len(q) <= GlobalLimit /\ d >= 0
      /\ \A i \in 1 .. d - 1 : g[i] <= now - GlobalWindow
      /\ \A i \in 1 .. Len(q) : d + i > 1 => g[d + i - 1] <= q[i]
      /\ Len(q) = GlobalLimit => q[1] <= now - GlobalWindow
      /\ \A i \in 1 .. Len(g) : g[i] <= time
  OBVIOUS
<1> HIDE DEF g, gg, qq
<1>7. GlobalRate'
  <2>1. ASSUME Len(g) + 1 > GlobalLimit + 1
        PROVE  now - g[Len(g) - GlobalLimit] >= GlobalWindow
    <3>1. Len(g) - GlobalLimit \in 1 .. Len(g) /\ g[Len(g) - GlobalLimit] \in Nat
      BY <1>1, <2>1
    <3>2. CASE Len(q) < GlobalLimit
      <4>1. Len(g) - GlobalLimit \in 1 .. d - 1
        BY <1>1, <1>2, <3>1, <3>2
      <4> DEFINE x == g[Len(g) - GlobalLimit]
      <4>2. x \in Nat /\ x <= now - GlobalWindow
        BY <1>6, <3>1, <4>1
      <4> HIDE DEF x
      <4>3. now - x >= GlobalWindow
        BY <1>1, <4>2
      <4> QED
        BY <4>3 DEF x
    <3>3. CASE Len(q) = GlobalLimit
      <4>1. 1 \in 1 .. Len(q) /\ d + 1 - 1 = Len(g) - GlobalLimit /\ d + 1 > 1
        BY <1>1, <1>2, <3>1, <3>3
      <4>2. g[Len(g) - GlobalLimit] <= q[1] /\ q[1] <= now - GlobalWindow /\ q[1] \in Nat
        BY <1>2, <1>6, <3>3, <4>1
      <4> DEFINE x == g[Len(g) - GlobalLimit]
                 y == q[1]
      <4>3. x \in Nat /\ y \in Nat /\ x <= y /\ y <= now - GlobalWindow
        BY <3>1, <4>2
      <4> HIDE DEF x, y
      <4>4. now - x >= GlobalWindow
        BY <1>1, <4>3
      <4> QED
        BY <4>4 DEF x
    <3> QED
      BY <1>1, <1>2, <1>6, <3>2, <3>3
  <2>2. Len(g) + 1 - (GlobalLimit + 1) = Len(g) - GlobalLimit /\ GlobalLimit + 1 \in Nat \ {0}
    BY <1>1
  <2>3. AtMost(GlobalLimit + 1, GlobalWindow, gg)
    BY <1>1, <1>5, <2>1, <2>2, AtMostAppend DEF gg
  <2> QED
    BY <2>3 DEF GlobalRate, g, gg
<1>8. GlobalInv'
  <2> DEFINE e == Len(gg) - Len(qq)
  <2>1. e = d /\ e \in Int /\ d \in Int
    BY <1>1, <1>2, <1>3, <1>4
  <2>2. ASSUME NEW i \in 1 .. Len(gg)
        PROVE  gg[i] <= now
    <3>1. i \in 1 .. Len(g) \/ i = Len(g) + 1
      BY <1>1, <1>3
    <3> QED
      BY <1>1, <1>3, <1>5, <3>1
  <2>3. ASSUME NEW i \in 1 .. d - 1
        PROVE  gg[i] <= now - GlobalWindow
    <3>1. i \in 1 .. Len(g)
      BY <1>1, <1>2
    <3> QED
      BY <1>3, <1>6, <3>1
  <2>4. ASSUME NEW i \in 1 .. Len(qq), d + i > 1
        PROVE  gg[d + i - 1] <= qq[i]
    <3>1. d + i - 1 \in 1 .. Len(g)
      BY <1>1, <1>2, <1>4, <1>6, <2>4
    <3>2. CASE i \in 1 .. Len(q)
      BY <1>3, <1>4, <1>6, <2>4, <3>1, <3>2
    <3>3. CASE i = Len(q) + 1
      BY <1>3, <1>4, <1>6, <3>1, <3>3
    <3> QED
      BY <1>2, <1>4, <3>2, <3>3
  <2>5. Len(qq) > GlobalLimit => Len(qq) = GlobalLimit + 1 /\ qq[1] <= now - GlobalWindow
    <3>1. 1 \in 1 .. Len(q) \/ Len(q) < GlobalLimit
      BY <1>1, <1>2, <1>6
    <3> QED
      BY <1>1, <1>2, <1>4, <1>6, <3>1
  <2> HIDE DEF e, d
  <2>6. /\ e >= 0
        /\ \A i \in 1 .. e - 1 : gg[i] <= now - GlobalWindow
        /\ \A i \in 1 .. Len(qq) : e + i > 1 => gg[e + i - 1] <= qq[i]
    BY <1>6, <2>1, <2>3, <2>4
  <2>7. gg = grants'["global"] /\ qq = queue'["global"]
    BY DEF gg, qq, g
  <2> QED
    BY <2>2, <2>5, <2>6, <2>7 DEF GlobalInv, Trails, e
<1> QED
  BY <1>7, <1>8

(* Every step keeps the rate.                                               *)
LEMMA GlobalStep ==
  ASSUME LockInv, GlobalInv, GlobalRate, [Next]_vars
  PROVE  GlobalInv' /\ GlobalRate'
<1> USE DEF sleepVars, resolveVars
<1>0. /\ TypeOK /\ StampsPast /\ LocksMove /\ now \in Nat /\ now <= now /\ None \notin Req
      /\ pc \in [Req -> {"new", "slot"} \cup Holding \cup Ended]
      /\ lock \in [Kind -> Req \cup {None}]
      /\ stamp \in [Req -> Time] /\ wake \in [Req -> Nat]
      /\ queue \in [Kind -> Seq(Time)]
      /\ grants \in [Kind \cup {"group"} -> Seq(Time)]
  <2>1. TypeOK /\ StampsPast /\ LocksMove /\ None \notin Req
    BY LimiterAssumption DEF LockInv, TypeInv
  <2>2. now \in Nat
    BY <2>1, GlobalTypes
  <2> QED
    BY <2>1, <2>2 DEF TypeOK
<1>1. ASSUME now' \in Nat, now <= now',
             grants'["global"] = grants["global"], queue'["global"] = queue["global"],
             \/ lock'["global"] = None
             \/ /\ lock'["global"] = lock["global"]
                /\ stamp'[lock["global"]] = stamp[lock["global"]]
                /\ wake'[lock["global"]] = wake[lock["global"]]
      PROVE  GlobalInv' /\ GlobalRate'
  <2>1. GlobalInv'
    BY <1>0, <1>1, GlobalFrame
  <2>2. GlobalRate'
    BY <1>1 DEF GlobalRate, AtMost
  <2> QED
    BY <2>1, <2>2
<1>2. ASSUME NEW r \in Req,
             CallTool(r) \/ TakeSlot(r) \/ Enter(r) \/ Return(r) \/ FloodWait(r) \/ Retry(r)
      PROVE  GlobalInv' /\ GlobalRate'
  <2>1. now' = now /\ grants' = grants /\ queue' = queue /\ lock' = lock /\ stamp' = stamp /\ wake' = wake
    BY <1>2 DEF CallTool, TakeSlot, Enter, Return, FloodWait, Retry
  <2> QED
    BY <1>0, <1>1, <2>1
<1>3. ASSUME NEW r \in Req, Cancel(r)
      PROVE  GlobalInv' /\ GlobalRate'
  <2>1. /\ now' = now /\ grants' = grants /\ queue' = queue
        /\ lock'["global"] = IF lock["global"] = r THEN None ELSE lock["global"]
        /\ \A o \in Req \ {r} : stamp'[o] = stamp[o] /\ wake'[o] = wake[o]
    BY <1>0, <1>3 DEF Cancel
  <2>2. lock["global"] \in Req \cup {None}
    BY <1>0
  <2> QED
    BY <1>0, <1>1, <2>1, <2>2
<1>4. ASSUME NEW r \in Req, PassWindow("chat", r) \/ WaitForWindow("chat", r) \/ WakeUp("chat", r)
      PROVE  GlobalInv' /\ GlobalRate'
  <2>1. lock["global"] # r
    BY <1>0, <1>4 DEF PassWindow, WaitForWindow, WakeUp, SleepIn, LocksMove
  <2>2. grants'["global"] = grants["global"]
    BY <1>0, <1>4 DEF PassWindow, WaitForWindow, WakeUp, LetThrough, GrantKinds
  <2>3. queue'["global"] = queue["global"]
    BY <1>0, <1>4 DEF PassWindow, WaitForWindow, WakeUp, LetThrough
  <2>4. /\ now' = now
        /\ lock'["global"] = lock["global"]
        /\ \A o \in Req \ {r} : stamp'[o] = stamp[o] /\ wake'[o] = wake[o]
    BY <1>0, <1>4 DEF PassWindow, WaitForWindow, WakeUp
  <2>5. lock["global"] \in Req \cup {None}
    BY <1>0
  <2> QED
    BY <1>0, <1>1, <2>1, <2>2, <2>3, <2>4, <2>5
<1>5. ASSUME NEW r \in Req, PassWindow("global", r)
      PROVE  GlobalInv' /\ GlobalRate'
  <2> DEFINE g == grants["global"]
             q == Recent(queue["global"], Window("global", r))
  <2>1. lock["global"] = None /\ lock' = lock /\ now' = now
    BY <1>5 DEF PassWindow
  <2>2. /\ Len(q) < GlobalLimit
        /\ queue' = [queue EXCEPT !["global"] = Append(q, now)]
    BY <1>5 DEF PassWindow, LetThrough, Limit
  <2>7. grants'["global"] = Append(g, now)
    BY <1>0, <1>5, LetThroughGrants DEF PassWindow
  <2>3. /\ q \in Seq(Time) /\ Len(q) \in Nat /\ Len(g) - Len(q) >= 0
        /\ \A i \in 1 .. Len(g) - Len(q) - 1 : g[i] <= now - GlobalWindow
        /\ \A i \in 1 .. Len(q) : Len(g) - Len(q) + i > 1 => g[Len(g) - Len(q) + i - 1] <= q[i]
    BY <1>0, <2>1, CleanQueue
  <2> HIDE DEF q
  <2>4. /\ queue'["global"] = Append(q, now)
        /\ grants'["global"] = Append(g, now)
    BY <1>0, <2>2, <2>7
  <2>5. /\ \A i \in 1 .. Len(g) : g[i] <= now
        /\ Len(q) <= GlobalLimit /\ Len(q) # GlobalLimit
        /\ now \in Time
    BY <1>0, <2>2, <2>3, GlobalTypes DEF GlobalInv, Trails
  <2> QED
    BY <1>0, <2>1, <2>3, <2>4, <2>5, GlobalGrant
<1>6. ASSUME NEW r \in Req, WakeUp("global", r)
      PROVE  GlobalInv' /\ GlobalRate'
  <2> DEFINE g == grants["global"]
             q == queue["global"]
  <2>1. /\ pc[r] = SleepIn("global") /\ now >= wake[r]
        /\ lock' = [lock EXCEPT !["global"] = None] /\ now' = now
        /\ queue' = [queue EXCEPT !["global"] = Append(q, stamp[r])]
    BY <1>6 DEF WakeUp, LetThrough
  <2>7. grants'["global"] = Append(g, now)
    BY <1>0, <1>6, LetThroughGrants DEF WakeUp
  <2>2. lock["global"] = r
    BY <1>0, <2>1 DEF LocksMove
  <2>3. /\ Len(g) - Len(q) >= 0
        /\ \A i \in 1 .. Len(g) - Len(q) - 1 : g[i] <= now - GlobalWindow
        /\ \A i \in 1 .. Len(q) : Len(g) - Len(q) + i > 1 => g[Len(g) - Len(q) + i - 1] <= q[i]
        /\ Len(q) = GlobalLimit /\ wake[r] = q[1] + GlobalWindow
        /\ \A i \in 1 .. Len(g) : g[i] <= stamp[r]
    BY <1>0, <2>2 DEF GlobalInv, Trails
  <2>4. /\ q \in Seq(Time) /\ stamp[r] \in Time
        /\ GlobalLimit \in Nat \ {0} /\ GlobalWindow \in Nat
        /\ \A i \in 1 .. Len(q) : q[i] \in Nat
    BY <1>0, GlobalTypes
  <2>5. q[1] <= now - GlobalWindow
    BY <1>0, <2>1, <2>3, <2>4
  <2>6. /\ queue'["global"] = Append(q, stamp[r])
        /\ grants'["global"] = Append(g, now)
        /\ lock'["global"] = None
        /\ Len(q) <= GlobalLimit
    BY <1>0, <2>1, <2>3, <2>4, <2>7
  <2> HIDE DEF q
  <2> QED
    BY <1>0, <2>1, <2>3, <2>4, <2>5, <2>6, GlobalGrant
<1>7. ASSUME NEW r \in Req, WaitForWindow("global", r)
      PROVE  GlobalInv' /\ GlobalRate'
  <2> DEFINE g == grants["global"]
             q == Recent(queue["global"], Window("global", r))
  <2>1. /\ lock["global"] = None /\ now' = now /\ grants' = grants
        /\ lock' = [lock EXCEPT !["global"] = r]
        /\ stamp' = [stamp EXCEPT ![r] = now]
        /\ wake' = [wake EXCEPT ![r] = q[1] + GlobalWindow]
        /\ queue' = [queue EXCEPT !["global"] = q]
        /\ Len(q) >= GlobalLimit
    BY <1>7 DEF WaitForWindow, Limit, Window
  <2>2. /\ q \in Seq(Time) /\ Len(q) \in Nat /\ Len(q) <= GlobalLimit /\ Len(g) - Len(q) >= 0
        /\ \A i \in 1 .. Len(g) - Len(q) - 1 : g[i] <= now - GlobalWindow
        /\ \A i \in 1 .. Len(q) : Len(g) - Len(q) + i > 1 => g[Len(g) - Len(q) + i - 1] <= q[i]
    BY <1>0, <2>1, CleanQueue
  <2> HIDE DEF q
  <2>3. /\ grants'["global"] = g /\ queue'["global"] = q /\ now' = now
        /\ lock'["global"] = r /\ r # None
        /\ stamp'[r] = now /\ wake'[r] = q[1] + GlobalWindow
    BY <1>0, <2>1
  <2>4. Len(q) = GlobalLimit /\ \A i \in 1 .. Len(g) : g[i] <= now
    BY <1>0, <2>1, <2>2, GlobalTypes DEF GlobalInv, Trails
  <2>5. GlobalInv'
    BY <2>2, <2>3, <2>4 DEF GlobalInv, Trails
  <2>6. GlobalRate'
    BY <2>3 DEF GlobalRate, AtMost
  <2> QED
    BY <2>5, <2>6
<1>8. CASE Tick \/ DayPasses \/ UNCHANGED vars
  <2>1. /\ grants' = grants /\ queue' = queue /\ lock' = lock /\ stamp' = stamp /\ wake' = wake
        /\ now' \in Nat /\ now <= now'
    BY <1>0, <1>8 DEF Tick, DayPasses, vars
  <2> QED
    BY <1>0, <1>1, <2>1
<1> QED
  BY <1>2, <1>3, <1>4, <1>5, <1>6, <1>7, <1>8 DEF Next

(* Before the first grant there is nothing to keep.                         *)
LEMMA GlobalInit == Init => GlobalInv /\ GlobalRate
<1> SUFFICES ASSUME Init PROVE GlobalInv /\ GlobalRate
  OBVIOUS
<1>1. /\ grants["global"] = <<>> /\ queue["global"] = <<>> /\ lock["global"] = None
      /\ Len(<<>>) = 0 /\ DOMAIN <<>> = {}
  BY EmptySeq DEF Init
<1>2. GlobalLimit \in Nat
  BY LimiterAssumption
<1> QED
  BY <1>1, <1>2 DEF GlobalInv, Trails, GlobalRate, AtMost

(* No window of GlobalWindow sees more than GlobalLimit + 1 calls pass,     *)
(* whichever calls wait, are cancelled in their sleep or wake up late: the  *)
(* stamp taken before the sleep costs one call and never more.              *)
THEOREM GlobalRateCorrect == Spec => []GlobalRate
<1>1. LockInv /\ GlobalInv /\ GlobalRate /\ [Next]_vars => (GlobalInv /\ GlobalRate)'
  BY GlobalStep
<1>2. Init => GlobalInv /\ GlobalRate
  BY GlobalInit
<1>3. Spec => [](GlobalInv /\ GlobalRate)
  BY <1>1, <1>2, LockInvariant, PTL DEF Spec
<1> QED
  BY <1>3, PTL

-----------------------------------------------------------------------------
(* The rate of a chat.                                                      *)

(* A rate of n is one of m as well, for m not less than n.                  *)
LEMMA AtMostMore ==
  ASSUME NEW times \in Seq(Time), NEW n \in Nat, NEW m \in Nat, n <= m, NEW w \in Nat,
         Ascending(times), AtMost(n, w, times)
  PROVE  AtMost(m, w, times)
<1>1. /\ Len(times) \in Nat /\ DOMAIN times = 1 .. Len(times)
      /\ \A i \in 1 .. Len(times) : times[i] \in Nat
  BY LenProperties, ElementOfSeq, Times
<1>2. ASSUME NEW i \in DOMAIN times, i > m
      PROVE  times[i] - times[i - m] >= w
  <2>1. /\ i \in 1 .. Len(times) /\ i - n \in 1 .. Len(times) /\ i - m \in 1 .. Len(times)
        /\ i - m <= i - n /\ i > n
    BY <1>1, <1>2
  <2>2. times[i] - times[i - n] >= w /\ times[i - m] <= times[i - n]
    BY <1>1, <2>1 DEF AtMost, Ascending
  <2>3. times[i] \in Nat /\ times[i - n] \in Nat /\ times[i - m] \in Nat
    BY <1>1, <2>1
  <2> QED
    BY <2>2, <2>3
<1> QED
  BY <1>2 DEF AtMost

(* A later element leaves a sequence in order.                              *)
LEMMA AscendingAppend ==
  ASSUME NEW s \in Seq(Time), NEW t \in Time, Ascending(s), \A i \in 1 .. Len(s) : s[i] <= t
  PROVE  Ascending(Append(s, t))
<1> DEFINE more == Append(s, t)
<1>1. /\ Len(more) = Len(s) + 1 /\ Len(s) \in Nat /\ t \in Nat
      /\ \A i \in 1 .. Len(s) : more[i] = s[i]
      /\ more[Len(s) + 1] = t
  BY AppendProperties, LenProperties, Times
<1> HIDE DEF more
<1>2. ASSUME NEW i \in 1 .. Len(more), NEW j \in 1 .. Len(more), i <= j
      PROVE  more[i] <= more[j]
  <2>1. CASE j \in 1 .. Len(s)
    <3>1. i \in 1 .. Len(s)
      BY <1>1, <1>2, <2>1
    <3> QED
      BY <1>1, <1>2, <2>1, <3>1 DEF Ascending
  <2>2. CASE j = Len(s) + 1
    <3>1. i \in 1 .. Len(s) \/ i = Len(s) + 1
      BY <1>1, <1>2
    <3> QED
      BY <1>1, <2>2, <3>1
  <2> QED
    BY <1>1, <2>1, <2>2
<1> QED
  BY <1>2 DEF Ascending, more

(* A queue of which only entries up to time t are dropped still trails its  *)
(* history, and has no more recent entries than before.                     *)
LEMMA TrailsClean ==
  ASSUME NEW g \in Seq(Time), NEW o \in Seq(Time), NEW t \in Int,
         Trails(o, g, t), Ascending(o),
         NEW n \in Nat, Len(o) > n => o[Len(o) - n] <= t,
         NEW m \in 0 .. Len(o), NEW q \in Seq(Time), Len(q) = Len(o) - m,
         \A i \in 1 .. Len(o) - m : q[i] = o[m + i],
         \A i \in 1 .. m : o[i] <= t
  PROVE  /\ Trails(q, g, t) /\ Ascending(q)
         /\ Len(q) > n => q[Len(q) - n] <= t
<1> DEFINE d == Len(g) - Len(o)
           e == Len(g) - Len(q)
<1>1. /\ Len(g) \in Nat /\ Len(o) \in Nat /\ Len(q) \in Nat
      /\ \A i \in 1 .. Len(g) : g[i] \in Nat
      /\ \A i \in 1 .. Len(o) : o[i] \in Nat
  BY LenProperties, ElementOfSeq, Times
<1>2. /\ d >= 0
      /\ \A i \in 1 .. d - 1 : g[i] <= t
      /\ \A i \in 1 .. Len(o) : d + i > 1 => g[d + i - 1] <= o[i]
  BY DEF Trails
<1>3. d \in Int /\ e \in Int /\ e = d + m /\ e >= 0 /\ m \in Nat
      /\ Len(g) = d + Len(o)
  BY <1>1, <1>2
<1> HIDE DEF d, e
<1>4. ASSUME NEW i \in 1 .. e - 1
      PROVE  g[i] <= t
  <2>1. CASE i <= d - 1
    BY <1>2, <1>3, <2>1
  <2>2. CASE i > d - 1
    <3>1. /\ i - d + 1 \in 1 .. m /\ i - d + 1 \in 1 .. Len(o)
          /\ d + (i - d + 1) - 1 = i /\ d + (i - d + 1) > 1 /\ i \in 1 .. Len(g)
      BY <1>1, <1>2, <1>3, <2>2
    <3>2. g[i] <= o[i - d + 1] /\ o[i - d + 1] <= t
      BY <1>2, <3>1
    <3>3. g[i] \in Nat /\ o[i - d + 1] \in Nat
      BY <1>1, <3>1
    <3> QED
      BY <3>2, <3>3
  <2> QED
    BY <1>3, <2>1, <2>2
<1>5. ASSUME NEW i \in 1 .. Len(q), e + i > 1
      PROVE  g[e + i - 1] <= q[i]
  <2>1. /\ m + i \in 1 .. Len(o) /\ i \in 1 .. Len(o) - m
        /\ d + (m + i) > 1 /\ d + (m + i) - 1 = e + i - 1
    BY <1>1, <1>3, <1>5
  <2> QED
    BY <1>2, <2>1
<1>6. ASSUME NEW i \in 1 .. Len(q), NEW j \in 1 .. Len(q), i <= j
      PROVE  q[i] <= q[j]
  <2>1. /\ m + i \in 1 .. Len(o) /\ m + j \in 1 .. Len(o) /\ m + i <= m + j
        /\ i \in 1 .. Len(o) - m /\ j \in 1 .. Len(o) - m
    BY <1>1, <1>3, <1>6
  <2>2. o[m + i] <= o[m + j]
    BY <2>1 DEF Ascending
  <2> QED
    BY <2>1, <2>2
<1>7. ASSUME Len(q) > n
      PROVE  q[Len(q) - n] <= t
  <2>1. /\ Len(q) - n \in 1 .. Len(o) - m /\ m + (Len(q) - n) = Len(o) - n /\ Len(o) > n
    BY <1>1, <1>3, <1>7
  <2> QED
    BY <2>1
<1> QED
  BY <1>3, <1>4, <1>5, <1>6, <1>7 DEF Trails, Ascending, e

(* A queue that trails its history still does when both get one more.       *)
LEMMA TrailsAppend ==
  ASSUME NEW g \in Seq(Time), NEW q \in Seq(Time), NEW t \in Int, Trails(q, g, t),
         NEW time \in Time, NEW last \in Time, \A i \in 1 .. Len(g) : g[i] <= time
  PROVE  Trails(Append(q, time), Append(g, last), t)
<1> DEFINE d == Len(g) - Len(q)
           gg == Append(g, last)
           qq == Append(q, time)
           e == Len(gg) - Len(qq)
<1>1. /\ Len(g) \in Nat /\ Len(q) \in Nat
      /\ Len(gg) = Len(g) + 1 /\ Len(qq) = Len(q) + 1
      /\ \A i \in 1 .. Len(g) : gg[i] = g[i]
      /\ \A i \in 1 .. Len(q) : qq[i] = q[i]
      /\ qq[Len(q) + 1] = time
  BY AppendProperties, LenProperties
<1>2. /\ d >= 0
      /\ \A i \in 1 .. d - 1 : g[i] <= t
      /\ \A i \in 1 .. Len(q) : d + i > 1 => g[d + i - 1] <= q[i]
  BY DEF Trails
<1> HIDE DEF gg, qq
<1>3. d \in Int /\ e = d /\ Len(g) = d + Len(q)
  BY <1>1
<1> HIDE DEF d, e
<1>4. ASSUME NEW i \in 1 .. d - 1
      PROVE  gg[i] <= t
  <2>1. i \in 1 .. Len(g)
    BY <1>1, <1>2, <1>3
  <2> QED
    BY <1>1, <1>2, <2>1
<1>5. ASSUME NEW i \in 1 .. Len(qq), d + i > 1
      PROVE  gg[d + i - 1] <= qq[i]
  <2>1. d + i - 1 \in 1 .. Len(g)
    BY <1>1, <1>2, <1>3, <1>5
  <2>2. CASE i \in 1 .. Len(q)
    BY <1>1, <1>2, <1>5, <2>1, <2>2
  <2>3. CASE i = Len(q) + 1
    BY <1>1, <2>1, <2>3
  <2> QED
    BY <1>1, <2>2, <2>3
<1> QED
  BY <1>2, <1>3, <1>4, <1>5 DEF Trails, e, gg, qq

(* The grant that a rate of M + 1 compares with the next one is too old to  *)
(* count, when of the queue fewer than M entries are recent.                *)
LEMMA OldGrant ==
  ASSUME NEW g \in Seq(Time), NEW q \in Seq(Time), NEW t \in Int, Trails(q, g, t),
         NEW M \in Nat \ {0}, Len(g) > M,
         Len(q) >= M => q[Len(q) - M + 1] <= t
  PROVE  Len(g) - M \in 1 .. Len(g) /\ g[Len(g) - M] <= t
<1> DEFINE d == Len(g) - Len(q)
<1>1. /\ Len(g) \in Nat /\ Len(q) \in Nat
      /\ \A i \in 1 .. Len(g) : g[i] \in Nat
      /\ \A i \in 1 .. Len(q) : q[i] \in Nat
  BY LenProperties, ElementOfSeq, Times
<1>2. /\ d >= 0
      /\ \A i \in 1 .. d - 1 : g[i] <= t
      /\ \A i \in 1 .. Len(q) : d + i > 1 => g[d + i - 1] <= q[i]
  BY DEF Trails
<1>3. d \in Int /\ Len(g) = d + Len(q) /\ Len(g) - M \in 1 .. Len(g)
  BY <1>1
<1> HIDE DEF d
<1>4. CASE Len(q) < M
  <2>1. Len(g) - M \in 1 .. d - 1
    BY <1>1, <1>3, <1>4
  <2> QED
    BY <1>2, <1>3, <2>1
<1>5. CASE Len(q) >= M
  <2>1. /\ Len(q) - M + 1 \in 1 .. Len(q)
        /\ d + (Len(q) - M + 1) > 1 /\ d + (Len(q) - M + 1) - 1 = Len(g) - M
    BY <1>1, <1>3, <1>5
  <2>2. g[Len(g) - M] <= q[Len(q) - M + 1] /\ q[Len(q) - M + 1] <= t
    BY <1>2, <1>5, <2>1
  <2>3. g[Len(g) - M] \in Nat /\ q[Len(q) - M + 1] \in Nat
    BY <1>1, <1>3, <2>1
  <2> QED
    BY <1>3, <2>2, <2>3
<1> QED
  BY <1>1, <1>4, <1>5

(* The sequences of a chat, and what is in them.                            *)
LEMMA ChatTypes ==
  ASSUME TypeOK
  PROVE  /\ grants["chat"] \in Seq(Time) /\ queue["chat"] \in Seq(Time)
         /\ Len(grants["chat"]) \in Nat /\ Len(queue["chat"]) \in Nat
         /\ grants["group"] \in Seq(Time) /\ Len(grants["group"]) \in Nat
         /\ \A i \in 1 .. Len(grants["chat"]) : grants["chat"][i] \in Nat
         /\ \A i \in 1 .. Len(queue["chat"]) : queue["chat"][i] \in Nat
         /\ now \in Nat /\ now \in Time
         /\ ChatLimit \in Nat \ {0} /\ ChatWindow \in Nat \ {0} /\ GroupWindow \in Nat
         /\ ChatWindow <= GroupWindow
<1>1. /\ grants["chat"] \in Seq(Time) /\ grants["group"] \in Seq(Time)
      /\ queue["chat"] \in Seq(Time) /\ now \in Time
  BY DEF TypeOK
<1>2. /\ ChatLimit \in Nat \ {0} /\ ChatWindow \in Nat \ {0} /\ GroupWindow \in Nat
      /\ ChatWindow <= GroupWindow
  BY LimiterAssumption
<1>3. /\ Len(grants["chat"]) \in Nat /\ Len(queue["chat"]) \in Nat
      /\ Len(grants["group"]) \in Nat
      /\ \A i \in 1 .. Len(grants["chat"]) : grants["chat"][i] \in Time
      /\ \A i \in 1 .. Len(queue["chat"]) : queue["chat"][i] \in Time
  BY <1>1, LenProperties, ElementOfSeq
<1> QED
  BY <1>1, <1>2, <1>3, Times

(* The clock moves on and a sleeper may go: nothing else is needed.         *)
LEMMA ChatFrame ==
  ASSUME TypeOK, ChatInv, now' \in Nat, now <= now', lock["chat"] \in Req \cup {None},
         grants'["chat"] = grants["chat"], grants'["group"] = grants["group"],
         queue'["chat"] = queue["chat"],
         \/ lock'["chat"] = None
         \/ /\ lock'["chat"] = lock["chat"]
            /\ stamp'[lock["chat"]] = stamp[lock["chat"]]
            /\ wake'[lock["chat"]] = wake[lock["chat"]]
  PROVE  ChatInv'
<1> DEFINE g == grants["chat"]
           q == queue["chat"]
           n == ChatLimit + Len(grants["group"])
           d == Len(g) - Len(q)
<1>1. /\ Len(g) \in Nat /\ Len(q) \in Nat /\ now \in Nat /\ n \in Nat
      /\ \A i \in 1 .. Len(g) : g[i] \in Nat
      /\ \A i \in 1 .. Len(q) : q[i] \in Nat
      /\ ChatWindow \in Nat
  BY ChatTypes
<1>2. /\ \A i \in 1 .. Len(g) : g[i] <= now
      /\ Ascending(g) /\ Ascending(q)
      /\ Trails(q, g, now - ChatWindow)
      /\ Len(q) > n => q[Len(q) - n] <= now - ChatWindow
  BY DEF ChatInv
<1>3. lock["chat"] # None =>
        /\ \A i \in 1 .. Len(g) : g[i] <= stamp[lock["chat"]]
        /\ \A i \in 1 .. Len(q) : q[i] <= stamp[lock["chat"]]
        /\ lock["chat"] \notin Group => Len(q) <= n /\ wake[lock["chat"]] = q[1] + ChatWindow
  BY DEF ChatInv
<1>4. g = grants'["chat"] /\ q = queue'["chat"] /\ n = ChatLimit + Len(grants'["group"])
  OBVIOUS
<1> HIDE DEF g, q, n
<1>5. \A i \in 1 .. Len(g) : g[i] <= now'
  BY <1>1, <1>2
<1>6. Trails(q, g, now' - ChatWindow)
  <2>1. /\ d >= 0
        /\ \A i \in 1 .. d - 1 : g[i] <= now - ChatWindow
        /\ \A i \in 1 .. Len(q) : d + i > 1 => g[d + i - 1] <= q[i]
    BY <1>2 DEF Trails
  <2>2. ASSUME NEW i \in 1 .. d - 1
        PROVE  g[i] <= now' - ChatWindow
    <3>1. g[i] \in Nat /\ g[i] <= now - ChatWindow
      BY <1>1, <2>1
    <3> QED
      BY <1>1, <3>1
  <2> QED
    BY <2>1, <2>2 DEF Trails
<1>7. ASSUME Len(q) > n
      PROVE  q[Len(q) - n] <= now' - ChatWindow
  <2>1. q[Len(q) - n] \in Nat /\ q[Len(q) - n] <= now - ChatWindow
    <3>1. Len(q) - n \in 1 .. Len(q)
      BY <1>1, <1>7
    <3> QED
      BY <1>1, <1>2, <1>7, <3>1
  <2> QED
    BY <1>1, <2>1
<1>8. lock'["chat"] # None =>
        /\ \A i \in 1 .. Len(g) : g[i] <= stamp'[lock'["chat"]]
        /\ \A i \in 1 .. Len(q) : q[i] <= stamp'[lock'["chat"]]
        /\ lock'["chat"] \notin Group => Len(q) <= n /\ wake'[lock'["chat"]] = q[1] + ChatWindow
  BY <1>3
<1> QED
  BY <1>2, <1>4, <1>5, <1>6, <1>7, <1>8 DEF ChatInv

(* What a call of either kind finds in the queue of its chat: a group call  *)
(* drops nothing that a private call still counts, and a private call finds *)
(* none but recent entries.                                                 *)
LEMMA ChatClean ==
  ASSUME TypeOK, StampsPast, ChatInv, NEW r \in Req
  PROVE  LET g == grants["chat"]
             q == Recent(queue["chat"], Window("chat", r))
             n == ChatLimit + Len(grants["group"])
         IN /\ q \in Seq(Time) /\ Len(q) \in Nat /\ \A i \in 1 .. Len(q) : q[i] \in Nat /\ q[i] <= now
            /\ Trails(q, g, now - ChatWindow) /\ Ascending(q)
            /\ Len(q) > n => q[Len(q) - n] <= now - ChatWindow
            /\ r \notin Group => Len(q) <= n
<1> DEFINE g == grants["chat"]
           o == queue["chat"]
           w == Window("chat", r)
           q == Recent(o, w)
           n == ChatLimit + Len(grants["group"])
           t == now - ChatWindow
<1>1. /\ g \in Seq(Time) /\ o \in Seq(Time) /\ Len(o) \in Nat /\ t \in Int /\ n \in Nat
      /\ \A i \in 1 .. Len(o) : o[i] \in Nat
      /\ now \in Nat /\ ChatWindow \in Nat /\ GroupWindow \in Nat /\ ChatWindow <= GroupWindow
  BY ChatTypes
<1>2. /\ Trails(o, g, t) /\ Ascending(o)
      /\ Len(o) > n => o[Len(o) - n] <= t
  BY DEF ChatInv
<1>3. w = (IF r \in Group THEN GroupWindow ELSE ChatWindow)
  BY DEF Window
<1>4. PICK m \in 0 .. Len(o) :
        /\ q \in Seq(Time)
        /\ Len(q) = Len(o) - m
        /\ \A i \in 1 .. Len(o) - m : q[i] = o[m + i]
        /\ \A i \in 1 .. m : o[i] <= now - w
        /\ m < Len(o) => q[1] > now - w
  BY RecentOfQueue
<1>5. /\ q \in Seq(Time) /\ \A i \in 1 .. Len(q) : q[i] <= now
  BY RecentIsPast
<1>6. Len(q) \in Nat /\ \A i \in 1 .. Len(q) : q[i] \in Nat
  BY <1>5, LenProperties, ElementOfSeq, Times
<1> HIDE DEF g, o, w, q, n
<1>7. \A i \in 1 .. m : o[i] <= t
  <2>1. w \in Nat /\ now - w <= t
    BY <1>1, <1>3
  <2>2. ASSUME NEW i \in 1 .. m
        PROVE  o[i] <= t
    <3>1. o[i] \in Nat /\ o[i] <= now - w
      BY <1>1, <1>4
    <3> QED
      BY <1>1, <2>1, <3>1
  <2> QED
    BY <2>2
<1> HIDE DEF t
<1>8. /\ Trails(q, g, t) /\ Ascending(q)
      /\ Len(q) > n => q[Len(q) - n] <= t
  BY <1>1, <1>2, <1>4, <1>7, TrailsClean
<1>9. ASSUME r \notin Group
      PROVE  Len(q) <= n
  <2>1. SUFFICES ASSUME Len(q) > n PROVE FALSE
    BY <1>1, <1>6
  <2>2. Len(q) - n \in 1 .. Len(q) /\ 1 \in 1 .. Len(q) /\ 1 <= Len(q) - n /\ m < Len(o)
    BY <1>1, <1>4, <1>6, <2>1
  <2>3. q[1] <= q[Len(q) - n]
    BY <1>8, <2>2 DEF Ascending
  <2>4. q[Len(q) - n] <= t /\ q[1] > now - w
    BY <1>4, <1>8, <2>1, <2>2
  <2>5. now - w = t
    BY <1>3, <1>9 DEF t
  <2>6. q[1] \in Nat /\ q[Len(q) - n] \in Nat /\ t \in Int
    BY <1>1, <1>6, <2>2
  <2> QED
    BY <2>3, <2>4, <2>5, <2>6
<1> QED
  BY <1>4, <1>5, <1>6, <1>8, <1>9 DEF g, o, w, q, n, t

(* A grant of a chat's window: fewer than M entries of the queue are recent *)
(* when the call passes, M of them then, and M is the limit with one for    *)
(* each group call so far.                                                  *)
LEMMA ChatGrant ==
  ASSUME TypeOK, ChatInv, ChatRate, now' = now, lock'["chat"] = None,
         NEW q \in Seq(Time), NEW time \in Time, NEW M \in Nat,
         Trails(q, grants["chat"], now - ChatWindow), Ascending(q),
         \A i \in 1 .. Len(q) : q[i] <= time,
         \A i \in 1 .. Len(grants["chat"]) : grants["chat"][i] <= time,
         Len(grants'["group"]) \in Nat,
         M = ChatLimit + Len(grants'["group"]), ChatLimit + Len(grants["group"]) <= M,
         Len(q) >= M => q[Len(q) - M + 1] <= now - ChatWindow,
         queue'["chat"] = Append(q, time),
         grants'["chat"] = Append(grants["chat"], now)
  PROVE  ChatInv' /\ ChatRate'
<1> DEFINE g == grants["chat"]
           gg == Append(g, now)
           qq == Append(q, time)
           n == ChatLimit + Len(grants["group"])
           t == now - ChatWindow
           k == Len(grants["group"])
           kk == Len(grants'["group"])
<1>0. /\ n \in Nat \ {0} /\ M \in Nat \ {0} /\ n <= M
      /\ n + 1 = ChatLimit + 1 + k /\ M + 1 = ChatLimit + 1 + kk
  <2>1. ChatLimit \in Nat \ {0} /\ k \in Nat /\ kk \in Nat
    BY ChatTypes
  <2>2. n = ChatLimit + k /\ M = ChatLimit + kk /\ ChatLimit + k <= M
    OBVIOUS
  <2> HIDE DEF n, k, kk
  <2> QED
    BY <2>1, <2>2
<1>1. /\ g \in Seq(Time) /\ Len(g) \in Nat /\ now \in Nat /\ now \in Time
      /\ \A i \in 1 .. Len(g) : g[i] \in Nat
      /\ ChatWindow \in Nat /\ t \in Int
  BY ChatTypes
<1>2. Len(q) \in Nat /\ \A i \in 1 .. Len(q) : q[i] \in Nat
  BY LenProperties, ElementOfSeq, Times
<1>3. /\ Len(gg) = Len(g) + 1 /\ gg[Len(g) + 1] = now
      /\ \A i \in 1 .. Len(g) : gg[i] = g[i]
  BY <1>1, AppendProperties
<1>4. /\ Len(qq) = Len(q) + 1 /\ qq[Len(q) + 1] = time
      /\ \A i \in 1 .. Len(q) : qq[i] = q[i]
  BY AppendProperties
<1>5. /\ \A i \in 1 .. Len(g) : g[i] <= now
      /\ Ascending(g)
      /\ AtMost(n + 1, ChatWindow, g)
  BY <1>0 DEF ChatInv, ChatRate
<1>6. M \in Nat \ {0} /\ n <= M /\ n \in Nat \ {0}
  BY <1>0
<1>7. Trails(q, g, t) /\ (Len(q) >= M => q[Len(q) - M + 1] <= t)
  OBVIOUS
<1>8. Trails(qq, gg, t) /\ Ascending(qq) /\ Ascending(gg)
  BY <1>1, <1>5, <1>7, TrailsAppend, AscendingAppend
<1> HIDE DEF g, gg, qq, n
<1>9. AtMost(M + 1, ChatWindow, gg)
  <2>1. AtMost(M + 1, ChatWindow, g)
    <3>1. n + 1 \in Nat /\ M + 1 \in Nat /\ n + 1 <= M + 1
      BY <1>6
    <3> QED
      BY <1>1, <1>5, <3>1, AtMostMore
  <2>2. ASSUME Len(g) + 1 > M + 1
        PROVE  now - g[Len(g) + 1 - (M + 1)] >= ChatWindow
    <3>1. Len(g) > M /\ Len(g) + 1 - (M + 1) = Len(g) - M
      BY <1>1, <1>6, <2>2
    <3>2. Len(g) - M \in 1 .. Len(g) /\ g[Len(g) - M] <= t
      BY <1>1, <1>6, <1>7, <3>1, OldGrant
    <3>3. g[Len(g) - M] \in Nat
      BY <1>1, <3>2
    <3> QED
      BY <1>1, <3>1, <3>2, <3>3
  <2>3. M + 1 \in Nat \ {0}
    BY <1>6
  <2> QED
    BY <1>1, <2>1, <2>2, <2>3, AtMostAppend DEF gg
<1>10. ASSUME Len(qq) > M
       PROVE  qq[Len(qq) - M] <= t
  <2>1. Len(qq) - M \in 1 .. Len(q) /\ Len(qq) - M = Len(q) - M + 1 /\ Len(q) >= M
    BY <1>2, <1>4, <1>6, <1>10
  <2> QED
    BY <1>4, <1>7, <2>1
<1>11. \A i \in 1 .. Len(gg) : gg[i] <= now
  <2>1. ASSUME NEW i \in 1 .. Len(gg)
        PROVE  gg[i] <= now
    <3>1. i \in 1 .. Len(g) \/ i = Len(g) + 1
      BY <1>1, <1>3
    <3> QED
      BY <1>1, <1>3, <1>5, <3>1
  <2> QED
    BY <2>1
<1>12. /\ gg = grants'["chat"] /\ qq = queue'["chat"] /\ M = ChatLimit + Len(grants'["group"])
       /\ t = now' - ChatWindow
  BY DEF gg, qq, g
<1> HIDE DEF t
<1>13. ChatInv'
  BY <1>8, <1>10, <1>11, <1>12 DEF ChatInv
<1>14. M + 1 = ChatLimit + 1 + Len(grants'["group"])
  BY <1>0
<1> QED
  BY <1>9, <1>12, <1>13, <1>14 DEF ChatRate

(* One group call more is one recent entry more.                            *)
LEMMA ChatCount ==
  ASSUME TypeOK, NEW r \in Req, NEW q \in Seq(Time),
         grants'["group"] = IF r \in Group THEN Append(grants["group"], now) ELSE grants["group"],
         LET n == ChatLimit + Len(grants["group"]) IN
         /\ Len(q) > n => q[Len(q) - n] <= now - ChatWindow
         /\ r \notin Group => Len(q) <= n /\ (Len(q) = n => q[1] <= now - ChatWindow)
  PROVE  LET M == ChatLimit + Len(grants'["group"]) IN
         /\ Len(grants'["group"]) \in Nat /\ M \in Nat
         /\ ChatLimit + Len(grants["group"]) <= M
         /\ Len(q) >= M => q[Len(q) - M + 1] <= now - ChatWindow
<1> DEFINE k == Len(grants["group"])
           kk == Len(grants'["group"])
           n == ChatLimit + k
           M == ChatLimit + kk
<1>1. k \in Nat /\ grants["group"] \in Seq(Time) /\ now \in Time /\ ChatLimit \in Nat /\ Len(q) \in Nat
  BY ChatTypes, LenProperties
<1>2. Len(Append(grants["group"], now)) = k + 1
  BY <1>1, AppendProperties
<1>3. kk = IF r \in Group THEN k + 1 ELSE k
  BY <1>2
<1>4. /\ Len(q) > n => q[Len(q) - n] <= now - ChatWindow
      /\ r \notin Group => Len(q) <= n /\ (Len(q) = n => q[1] <= now - ChatWindow)
  OBVIOUS
<1> HIDE DEF k, kk
<1>5. kk \in Nat /\ n \in Nat /\ M \in Nat /\ n <= M
      /\ (r \in Group => M = n + 1) /\ (r \notin Group => M = n)
  BY <1>1, <1>3
<1> HIDE DEF n, M
<1>6. ASSUME Len(q) >= M
      PROVE  q[Len(q) - M + 1] <= now - ChatWindow
  <2>1. CASE r \in Group
    <3>1. Len(q) - M + 1 = Len(q) - n /\ Len(q) > n
      BY <1>1, <1>5, <1>6, <2>1
    <3> QED
      BY <1>4, <3>1
  <2>2. CASE r \notin Group
    <3>1. Len(q) = n /\ Len(q) - M + 1 = 1
      BY <1>1, <1>4, <1>5, <1>6, <2>2
    <3> QED
      BY <1>4, <2>2, <3>1
  <2> QED
    BY <2>1, <2>2
<1> QED
  BY <1>5, <1>6 DEF n, M, k, kk

(* Every step keeps the rate of the chat.                                   *)
LEMMA ChatStep ==
  ASSUME LockInv, ChatInv, ChatRate, [Next]_vars
  PROVE  ChatInv' /\ ChatRate'
<1> USE DEF sleepVars, resolveVars
<1>0. /\ TypeOK /\ StampsPast /\ LocksMove /\ now \in Nat /\ now <= now /\ None \notin Req
      /\ lock \in [Kind -> Req \cup {None}]
      /\ stamp \in [Req -> Time] /\ wake \in [Req -> Nat]
      /\ queue \in [Kind -> Seq(Time)]
  <2>1. TypeOK /\ StampsPast /\ LocksMove /\ None \notin Req
    BY LimiterAssumption DEF LockInv, TypeInv
  <2>2. now \in Nat
    BY <2>1, ChatTypes
  <2> QED
    BY <2>1, <2>2 DEF TypeOK
<1>1. ASSUME now' \in Nat, now <= now',
             grants'["chat"] = grants["chat"], grants'["group"] = grants["group"],
             queue'["chat"] = queue["chat"],
             \/ lock'["chat"] = None
             \/ /\ lock'["chat"] = lock["chat"]
                /\ stamp'[lock["chat"]] = stamp[lock["chat"]]
                /\ wake'[lock["chat"]] = wake[lock["chat"]]
      PROVE  ChatInv' /\ ChatRate'
  <2>1. ChatInv'
    BY <1>0, <1>1, ChatFrame
  <2>2. ChatRate'
    BY <1>1 DEF ChatRate, AtMost
  <2> QED
    BY <2>1, <2>2
<1>2. ASSUME NEW r \in Req,
             CallTool(r) \/ TakeSlot(r) \/ Enter(r) \/ Return(r) \/ FloodWait(r) \/ Retry(r)
      PROVE  ChatInv' /\ ChatRate'
  <2>1. now' = now /\ grants' = grants /\ queue' = queue /\ lock' = lock /\ stamp' = stamp /\ wake' = wake
    BY <1>2 DEF CallTool, TakeSlot, Enter, Return, FloodWait, Retry
  <2> QED
    BY <1>0, <1>1, <2>1
<1>3. ASSUME NEW r \in Req, Cancel(r)
      PROVE  ChatInv' /\ ChatRate'
  <2>1. /\ now' = now /\ grants' = grants /\ queue' = queue
        /\ lock'["chat"] = IF lock["chat"] = r THEN None ELSE lock["chat"]
        /\ \A o \in Req \ {r} : stamp'[o] = stamp[o] /\ wake'[o] = wake[o]
    BY <1>0, <1>3 DEF Cancel
  <2>2. lock["chat"] \in Req \cup {None}
    BY <1>0
  <2> QED
    BY <1>0, <1>1, <2>1, <2>2
<1>4. ASSUME NEW r \in Req,
             PassWindow("global", r) \/ WaitForWindow("global", r) \/ WakeUp("global", r)
      PROVE  ChatInv' /\ ChatRate'
  <2>1. lock["chat"] # r
    BY <1>0, <1>4 DEF PassWindow, WaitForWindow, WakeUp, SleepIn, LocksMove
  <2>2. grants'["chat"] = grants["chat"] /\ grants'["group"] = grants["group"]
    <3>1. CASE WaitForWindow("global", r)
      BY <3>1 DEF WaitForWindow
    <3>2. CASE PassWindow("global", r)
      BY <1>0, <3>2, LetThroughGrants DEF PassWindow
    <3>3. CASE WakeUp("global", r)
      BY <1>0, <3>3, LetThroughGrants DEF WakeUp
    <3> QED
      BY <1>4, <3>1, <3>2, <3>3
  <2>3. queue'["chat"] = queue["chat"]
    BY <1>0, <1>4 DEF PassWindow, WaitForWindow, WakeUp, LetThrough
  <2>4. /\ now' = now
        /\ lock'["chat"] = lock["chat"]
        /\ \A o \in Req \ {r} : stamp'[o] = stamp[o] /\ wake'[o] = wake[o]
    BY <1>0, <1>4 DEF PassWindow, WaitForWindow, WakeUp
  <2>5. lock["chat"] \in Req \cup {None}
    BY <1>0
  <2> QED
    BY <1>0, <1>1, <2>1, <2>2, <2>3, <2>4, <2>5
<1>5. ASSUME NEW r \in Req, PassWindow("chat", r)
      PROVE  ChatInv' /\ ChatRate'
  <2> DEFINE g == grants["chat"]
             q == Recent(queue["chat"], Window("chat", r))
             n == ChatLimit + Len(grants["group"])
             M == ChatLimit + Len(grants'["group"])
  <2>1. /\ lock["chat"] = None /\ lock' = lock /\ now' = now
        /\ Len(q) < Limit("chat", r)
        /\ LetThrough("chat", r, q, now)
    BY <1>5 DEF PassWindow
  <2>2. queue'["chat"] = Append(q, now)
    BY <1>0, <2>1 DEF LetThrough
  <2>3. /\ grants'["chat"] = Append(g, now)
        /\ grants'["group"] = IF r \in Group THEN Append(grants["group"], now)
                                               ELSE grants["group"]
    BY <1>0, <2>1, LetThroughGrants
  <2>4. /\ q \in Seq(Time) /\ Len(q) \in Nat /\ \A i \in 1 .. Len(q) : q[i] \in Nat /\ q[i] <= now
        /\ Trails(q, g, now - ChatWindow) /\ Ascending(q)
        /\ Len(q) > n => q[Len(q) - n] <= now - ChatWindow
    BY <1>0, ChatClean
  <2>5. r \notin Group => Len(q) < ChatLimit
    BY <2>1 DEF Limit
  <2> HIDE DEF q
  <2>6. r \notin Group => Len(q) <= n /\ Len(q) # n
    <3> DEFINE k == Len(grants["group"])
    <3>1. k \in Nat /\ ChatLimit \in Nat /\ n = ChatLimit + k
      BY <1>0, ChatTypes
    <3> HIDE DEF k, n
    <3> QED
      BY <2>4, <2>5, <3>1
  <2>7. /\ Len(grants'["group"]) \in Nat /\ M \in Nat
        /\ ChatLimit + Len(grants["group"]) <= M
        /\ Len(q) >= M => q[Len(q) - M + 1] <= now - ChatWindow
    BY <1>0, <2>3, <2>4, <2>6, ChatCount
  <2>8. now \in Time /\ (\A i \in 1 .. Len(g) : g[i] <= now) /\ lock'["chat"] = None
    BY <1>0, <2>1, ChatTypes DEF ChatInv
  <2> QED
    BY <1>0, <2>1, <2>2, <2>3, <2>4, <2>7, <2>8, ChatGrant
<1>6. ASSUME NEW r \in Req, WakeUp("chat", r)
      PROVE  ChatInv' /\ ChatRate'
  <2> DEFINE g == grants["chat"]
             q == queue["chat"]
             n == ChatLimit + Len(grants["group"])
             M == ChatLimit + Len(grants'["group"])
  <2>1. /\ pc[r] = SleepIn("chat") /\ now >= wake[r]
        /\ lock' = [lock EXCEPT !["chat"] = None] /\ now' = now
        /\ LetThrough("chat", r, q, stamp[r])
    BY <1>6 DEF WakeUp
  <2>2. lock["chat"] = r
    BY <1>0, <2>1 DEF LocksMove
  <2>3. queue'["chat"] = Append(q, stamp[r]) /\ lock'["chat"] = None
    BY <1>0, <2>1 DEF LetThrough
  <2>4. /\ grants'["chat"] = Append(g, now)
        /\ grants'["group"] = IF r \in Group THEN Append(grants["group"], now)
                                               ELSE grants["group"]
    BY <1>0, <2>1, LetThroughGrants
  <2>5. /\ Trails(q, g, now - ChatWindow) /\ Ascending(q)
        /\ Len(q) > n => q[Len(q) - n] <= now - ChatWindow
        /\ \A i \in 1 .. Len(g) : g[i] <= stamp[r]
        /\ \A i \in 1 .. Len(q) : q[i] <= stamp[r]
        /\ r \notin Group => Len(q) <= n /\ wake[r] = q[1] + ChatWindow
    BY <1>0, <2>2 DEF ChatInv
  <2>6. /\ q \in Seq(Time) /\ Len(q) \in Nat /\ stamp[r] \in Time /\ ChatWindow \in Nat /\ n \in Nat \ {0}
        /\ \A i \in 1 .. Len(q) : q[i] \in Nat
    <3> DEFINE k == Len(grants["group"])
    <3>1. k \in Nat /\ ChatLimit \in Nat \ {0} /\ n = ChatLimit + k
      BY <1>0, ChatTypes
    <3>2. n \in Nat \ {0}
      <4> HIDE DEF k, n
      <4> QED
        BY <3>1
    <3> QED
      BY <1>0, <3>2, ChatTypes
  <2> HIDE DEF n
  <2>7. ASSUME r \notin Group, Len(q) = n
        PROVE  q[1] <= now - ChatWindow
    <3>1. q[1] \in Nat /\ wake[r] = q[1] + ChatWindow /\ wake[r] <= now
      BY <1>0, <2>1, <2>5, <2>6, <2>7
    <3> QED
      BY <1>0, <2>6, <3>1
  <2>8. /\ Len(grants'["group"]) \in Nat /\ M \in Nat
        /\ ChatLimit + Len(grants["group"]) <= M
        /\ Len(q) >= M => q[Len(q) - M + 1] <= now - ChatWindow
    BY <1>0, <2>4, <2>5, <2>6, <2>7, ChatCount DEF n
  <2> QED
    BY <1>0, <2>1, <2>3, <2>4, <2>5, <2>6, <2>8, ChatGrant
<1>7. ASSUME NEW r \in Req, WaitForWindow("chat", r)
      PROVE  ChatInv' /\ ChatRate'
  <2> DEFINE g == grants["chat"]
             q == Recent(queue["chat"], Window("chat", r))
             n == ChatLimit + Len(grants["group"])
  <2>1. /\ lock["chat"] = None /\ now' = now /\ grants' = grants
        /\ lock' = [lock EXCEPT !["chat"] = r]
        /\ stamp' = [stamp EXCEPT ![r] = now]
        /\ wake' = [wake EXCEPT ![r] = q[1] + Window("chat", r)]
        /\ queue' = [queue EXCEPT !["chat"] = q]
    BY <1>7 DEF WaitForWindow
  <2>2. /\ q \in Seq(Time) /\ \A i \in 1 .. Len(q) : q[i] <= now
        /\ Trails(q, g, now - ChatWindow) /\ Ascending(q)
        /\ Len(q) > n => q[Len(q) - n] <= now - ChatWindow
        /\ r \notin Group => Len(q) <= n
    BY <1>0, ChatClean
  <2>3. r \notin Group => Window("chat", r) = ChatWindow
    BY DEF Window
  <2> HIDE DEF q
  <2>4. /\ grants'["chat"] = g /\ grants'["group"] = grants["group"] /\ queue'["chat"] = q
        /\ lock'["chat"] = r /\ r # None
        /\ stamp'[r] = now /\ wake'[r] = q[1] + Window("chat", r)
    BY <1>0, <2>1
  <2>5. (\A i \in 1 .. Len(g) : g[i] <= now) /\ Ascending(g)
    BY DEF ChatInv
  <2>6. ChatInv'
    BY <2>1, <2>2, <2>3, <2>4, <2>5 DEF ChatInv
  <2>7. ChatRate'
    BY <2>4 DEF ChatRate, AtMost
  <2> QED
    BY <2>6, <2>7
<1>8. CASE Tick \/ DayPasses \/ UNCHANGED vars
  <2>1. /\ grants' = grants /\ queue' = queue /\ lock' = lock /\ stamp' = stamp /\ wake' = wake
        /\ now' \in Nat /\ now <= now'
    BY <1>0, <1>8 DEF Tick, DayPasses, vars
  <2>2. lock["chat"] \in Req \cup {None}
    BY <1>0
  <2> QED
    BY <1>0, <1>1, <2>1, <2>2
<1> QED
  BY <1>2, <1>3, <1>4, <1>5, <1>6, <1>7, <1>8 DEF Next

(* Before the first grant there is nothing to keep.                         *)
LEMMA ChatInit == Init => ChatInv /\ ChatRate
<1> SUFFICES ASSUME Init PROVE ChatInv /\ ChatRate
  OBVIOUS
<1>1. /\ grants["chat"] = <<>> /\ grants["group"] = <<>> /\ queue["chat"] = <<>>
      /\ lock["chat"] = None
      /\ Len(<<>>) = 0 /\ DOMAIN <<>> = {}
  BY EmptySeq DEF Init
<1>2. ChatLimit \in Nat
  BY LimiterAssumption
<1> QED
  BY <1>1, <1>2 DEF ChatInv, ChatRate, AtMost, Ascending, Trails

(* No ChatWindow sees more than ChatLimit + 1 calls of a chat and as many   *)
(* more as there have been group calls, though the two kinds clear the      *)
(* queue they share by different windows and a private call waits for its   *)
(* first entry only, however long it is.  Without group calls this is the   *)
(* limit of the global window again.                                        *)
THEOREM ChatRateCorrect == Spec => []ChatRate
<1>1. LockInv /\ ChatInv /\ ChatRate /\ [Next]_vars => (ChatInv /\ ChatRate)'
  BY ChatStep
<1>2. Init => ChatInv /\ ChatRate
  BY ChatInit
<1>3. Spec => [](ChatInv /\ ChatRate)
  BY <1>1, <1>2, LockInvariant, PTL DEF Spec
<1> QED
  BY <1>3, PTL
=============================================================================
