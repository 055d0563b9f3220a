---------------------------- MODULE InboxProofs -----------------------------
(***************************************************************************)
(* What TLAPS proves of module Inbox, for every set of topics, proxies and  *)
(* watchers and every value of the bounds.                                  *)
(***************************************************************************)
EXTENDS Inbox, SequenceTheorems, FiniteSetTheorems, TLAPS

-----------------------------------------------------------------------------
(* The queue of the store's lock.                                           *)

(* Submitting an operation keeps the queue and adds the operation behind it. *)
LEMMA SubmitQueue ==
  ASSUME lockq \in Seq(StoreOp), NEW kind \in {"append", "read", "ack"},
         NEW t \in Topic, NEW m \in Nat, NEW p \in Proxy \cup {NoProxy},
         Submit(kind, t, m, p)
  PROVE  /\ lockq' \in Seq(StoreOp)
         /\ Len(lockq') = Len(lockq) + 1
         /\ \A i \in 1 .. Len(lockq) : lockq'[i] = lockq[i]
         /\ lockq'[Len(lockq) + 1] = [kind |-> kind, topic |-> t, id |-> m, by |-> p]
<1> DEFINE op == [kind |-> kind, topic |-> t, id |-> m, by |-> p]
<1>1. op \in StoreOp
  BY DEF StoreOp
<1> QED
  BY <1>1, AppendProperties DEF Submit

(* Releasing the lock drops the head and moves the others up by one.        *)
LEMMA ReleaseQueue ==
  ASSUME lockq \in Seq(StoreOp), lockq # <<>>, Release
  PROVE  /\ lockq' \in Seq(StoreOp)
         /\ Len(lockq) \in Nat /\ Len(lockq) >= 1
         /\ Len(lockq') = Len(lockq) - 1
         /\ Head(lockq) \in StoreOp
         /\ Head(lockq) = lockq[1]
         /\ \A i \in 1 .. Len(lockq') : lockq'[i] = lockq[i + 1]
<1>1. /\ Head(lockq) \in StoreOp
      /\ Tail(lockq) \in Seq(StoreOp)
      /\ Len(Tail(lockq)) = Len(lockq) - 1
      /\ \A i \in 1 .. Len(Tail(lockq)) : Tail(lockq)[i] = lockq[i + 1]
  BY HeadTailProperties
<1>2. Len(lockq) \in Nat /\ Len(lockq) >= 1
  BY EmptySeq, LenProperties
<1> QED
  BY <1>1, <1>2 DEF Release

(* Orphaning the operations of a proxy changes whom they are for, only.     *)
LEMMA OrphanQueue ==
  ASSUME lockq \in Seq(StoreOp), NEW p \in Proxy, Orphan(p)
  PROVE  /\ lockq' \in Seq(StoreOp)
         /\ Len(lockq') = Len(lockq)
         /\ \A i \in 1 .. Len(lockq) :
              /\ lockq'[i].kind = lockq[i].kind
              /\ lockq'[i].topic = lockq[i].topic
              /\ lockq'[i].id = lockq[i].id
              /\ lockq'[i].by \in {lockq[i].by, NoProxy}
<1> DEFINE e(i) == IF lockq[i].by = p THEN [lockq[i] EXCEPT !.by = NoProxy]
                                     ELSE lockq[i]
<1>1. /\ Len(lockq) \in Nat
      /\ DOMAIN lockq = 1 .. Len(lockq)
      /\ \A i \in 1 .. Len(lockq) : lockq[i] \in StoreOp
  BY LenProperties, ElementOfSeq
<1>2. \A i \in 1 .. Len(lockq) : e(i) \in StoreOp
  BY <1>1 DEF StoreOp
<1>3. lockq' = [i \in 1 .. Len(lockq) |-> e(i)]
  BY <1>1 DEF Orphan
<1>4. lockq' \in Seq(StoreOp)
  <2> HIDE DEF e
  <2>1. lockq' \in [1 .. Len(lockq) -> StoreOp]
    BY <1>2, <1>3
  <2> QED
    BY <1>1, <2>1, SeqDef
<1>5. Len(lockq') = Len(lockq)
  <2> HIDE DEF e
  <2>1. DOMAIN lockq' = 1 .. Len(lockq)
    BY <1>3
  <2>2. Len(lockq') \in Nat /\ DOMAIN lockq' = 1 .. Len(lockq')
    BY <1>4, LenProperties
  <2> QED
    BY <1>1, <2>1, <2>2
<1>6. ASSUME NEW i \in 1 .. Len(lockq)
      PROVE  /\ lockq'[i].kind = lockq[i].kind
             /\ lockq'[i].topic = lockq[i].topic
             /\ lockq'[i].id = lockq[i].id
             /\ lockq'[i].by \in {lockq[i].by, NoProxy}
  <2>1. lockq'[i] = e(i) /\ lockq[i] \in StoreOp
    BY <1>1, <1>3
  <2> QED
    BY <2>1 DEF StoreOp
<1> QED
  BY <1>4, <1>5, <1>6

-----------------------------------------------------------------------------
(* The newest of a set of records.                                          *)

(* A set of ids none of which exceeds the last one posted is finite, and so *)
(* is what is newer than any of them.                                       *)
LEMMA BoundedIsFinite ==
  ASSUME NEW S \in SUBSET Nat, NEW n \in Nat, \A x \in S : x <= n, NEW x
  PROVE  /\ IsFiniteSet(S)
         /\ IsFiniteSet({y \in S : y > x})
         /\ Cardinality({y \in S : y > x}) \in Nat
<1>1. IsFiniteSet(S)
  BY FS_BoundedSetOfNaturals
<1>2. {y \in S : y > x} \in SUBSET S
  OBVIOUS
<1>3. IsFiniteSet({y \in S : y > x})
  BY <1>1, <1>2, FS_Subset
<1> QED
  BY <1>1, <1>3, FS_CardinalityType

(* Dropping the oldest keeps everything newer than what is kept.            *)
LEMMA NewestUpClosed ==
  ASSUME NEW S \in SUBSET Nat, NEW k \in Nat, \A z \in S : z <= k, NEW n \in Nat,
         NEW x \in Newest(S, n), NEW y \in S, y > x
  PROVE  y \in Newest(S, n)
<1> DEFINE above(v) == {z \in S : z > v}
<1>1. x \in S /\ x \in Nat /\ y \in Nat /\ Cardinality(above(x)) < n
  BY DEF Newest
<1>2. above(y) \in SUBSET above(x)
  <2>1. ASSUME NEW z \in S, z > y
        PROVE  z > x
    <3>1. z \in Nat
      OBVIOUS
    <3> QED
      BY <1>1, <2>1, <3>1
  <2> QED
    BY <2>1
<1>3. IsFiniteSet(above(x)) /\ Cardinality(above(x)) \in Nat /\ Cardinality(above(y)) \in Nat
  BY BoundedIsFinite
<1>4. Cardinality(above(y)) <= Cardinality(above(x))
  <2> HIDE DEF above
  <2> QED
    BY <1>2, <1>3, FS_Subset
<1>5. Cardinality(above(y)) < n
  BY <1>1, <1>3, <1>4
<1> QED
  BY <1>5 DEF Newest

(* What is among the n newest of R is among the k newest of D when, of what *)
(* D has newer, R lacks only members of J, and k leaves room for those.     *)
LEMMA NewestOfTail ==
  ASSUME NEW D \in SUBSET Nat, NEW R \in SUBSET Nat, NEW b \in Nat,
         \A z \in D \cup R : z <= b,
         NEW J, IsFiniteSet(J), \A x \in R, y \in D : y > x => y \in R \cup J,
         NEW n \in Nat, NEW k \in Nat, n + Cardinality(J) <= k,
         NEW x \in Newest(R, n), x \in D
  PROVE  x \in Newest(D, k)
<1> DEFINE A == {y \in R : y > x}
           B == {y \in D : y > x}
<1>1. x \in R /\ Cardinality(A) < n
  BY DEF Newest
<1>2. IsFiniteSet(A) /\ Cardinality(A) \in Nat /\ Cardinality(B) \in Nat
  BY BoundedIsFinite
<1>3. B \in SUBSET (A \cup J)
  BY <1>1
<1> HIDE DEF A, B
<1>4. /\ IsFiniteSet(A \cup J)
      /\ Cardinality(A \cup J) = Cardinality(A) + Cardinality(J) - Cardinality(A \cap J)
  BY <1>2, FS_Union
<1>5. Cardinality(J) \in Nat /\ Cardinality(A \cap J) \in Nat /\ Cardinality(A \cup J) \in Nat
  <2>1. IsFiniteSet(A \cap J)
    BY <1>2, FS_Intersection
  <2> QED
    BY <1>4, <2>1, FS_CardinalityType
<1>6. Cardinality(B) <= Cardinality(A \cup J)
  BY <1>3, <1>4, FS_Subset
<1>7. Cardinality(B) < k
  BY <1>1, <1>2, <1>4, <1>5, <1>6
<1> QED
  BY <1>7 DEF B, Newest

(* Retention keeps a newest part of the records.                            *)
LEMMA RetainUpClosed ==
  ASSUME NEW S \in SUBSET Nat, NEW k \in Nat, \A z \in S : z <= k
  PROVE  /\ Retain(S) \in SUBSET S
         /\ \A x \in Retain(S), y \in S : y > x => y \in Retain(S)
<1>1. CASE Cap > 0
  <2>1. Retain(S) = Newest(S, Cap)
    BY <1>1 DEF Retain
  <2>2. Newest(S, Cap) \in SUBSET S
    BY DEF Newest
  <2> QED
    BY <2>1, <2>2, NewestUpClosed, StoreAssumption
<1>2. CASE ~(Cap > 0)
  BY <1>2 DEF Retain
<1> QED
  BY <1>1, <1>2

-----------------------------------------------------------------------------
(* Types.                                                                   *)

LEMMA NewestType ==
  ASSUME NEW S \in SUBSET Nat, NEW n
  PROVE  Newest(S, n) \in SUBSET Nat /\ Retain(S) \in SUBSET Nat
BY DEF Newest, Retain

LEMMA TypeInit == Init => TypeOK
<1> SUFFICES ASSUME Init PROVE TypeOK
  OBVIOUS
<1>1. StoreTypeOK
  <2>1. <<>> \in Seq(StoreOp)
    BY EmptySeq
  <2> QED
    BY <2>1 DEF Init, StoreInit, StoreTypeOK
<1>2. EngineTypeOK
  BY DEF Init, EngineInit, EngineTypeOK
<1>3. BridgeTypeOK
  BY BridgeAssumption DEF Init, BridgeInit, BridgeTypeOK
<1> QED
  BY <1>1, <1>2, <1>3 DEF Init, TypeOK, ProxyState

(* The file operations and the lock's queue keep their types.               *)
LEMMA SubmitType ==
  ASSUME StoreTypeOK, UNCHANGED disk,
         NEW kind \in {"append", "read", "ack"}, NEW t \in Topic, NEW m \in Nat,
         NEW p \in Proxy \cup {NoProxy}, Submit(kind, t, m, p)
  PROVE  StoreTypeOK'
BY SubmitQueue DEF StoreTypeOK

LEMMA ReleaseType ==
  ASSUME StoreTypeOK, lockq # <<>>, Release, disk' \in [Topic -> SUBSET Nat]
  PROVE  StoreTypeOK'
BY ReleaseQueue DEF StoreTypeOK

LEMMA AppendSyncType ==
  ASSUME StoreTypeOK, NEW op \in StoreOp, AppendSync(op.topic, op.id)
  PROVE  disk' \in [Topic -> SUBSET Nat]
<1>1. op.topic \in Topic /\ op.id \in Nat
  BY DEF StoreOp
<1>2. disk[op.topic] \cup {op.id} \in SUBSET Nat
  BY <1>1 DEF StoreTypeOK
<1>3. Retain(disk[op.topic] \cup {op.id}) \in SUBSET Nat
  BY <1>2, NewestType
<1> QED
  BY <1>3 DEF StoreTypeOK, AppendSync

LEMMA AppendUntrimmedType ==
  ASSUME StoreTypeOK, NEW op \in StoreOp, AppendUntrimmed(op.topic, op.id)
  PROVE  disk' \in [Topic -> SUBSET Nat]
BY DEF StoreTypeOK, AppendUntrimmed, StoreOp

LEMMA AckSyncType ==
  ASSUME StoreTypeOK, NEW op \in StoreOp, AckSync(op.topic, op.id)
  PROVE  disk' \in [Topic -> SUBSET Nat]
BY DEF StoreTypeOK, AckSync, Readable, StoreOp

(* What a proxy is given has the type of what it holds.                     *)
LEMMA PeekReplyType ==
  ASSUME TypeOK, NEW p \in Proxy, NEW S \in SUBSET Nat, PeekReply(p, S)
  PROVE  /\ ppc' \in [Proxy -> ProxyState]
         /\ held' \in [Proxy -> SUBSET Nat]
         /\ handed' \in [Topic -> SUBSET Nat]
BY InboxAssumption DEF TypeOK, PeekReply, ProxyState

(* Every step of the daemon's store keeps the types.                        *)
LEMMA TypeServe == TypeOK /\ Serve => TypeOK'
<1> SUFFICES ASSUME TypeOK, Serve PROVE TypeOK'
  OBVIOUS
<1> DEFINE op == Head(lockq)
<1>0. StoreTypeOK /\ lockq # <<>> /\ Release
  BY DEF TypeOK, Serve, ServeAppend, ServeRead, ServeAck, ServeError
<1>1. op \in StoreOp /\ op.topic \in Topic /\ op.id \in Nat
  <2>1. op \in StoreOp
    BY <1>0, ReleaseQueue DEF StoreTypeOK
  <2> QED
    BY <2>1 DEF StoreOp
<1> HIDE DEF op
<1>2. CASE ServeAppend
  <2>1. AppendSync(op.topic, op.id)
    BY <1>2 DEF ServeAppend, HandleStored, op
  <2>2. StoreTypeOK'
    BY <1>0, <1>1, <2>1, AppendSyncType, ReleaseType
  <2>3. Newest(ram[op.topic] \cup {op.id}, MaxLen) \in SUBSET Nat
    BY <1>1, NewestType DEF TypeOK, EngineTypeOK
  <2>4. EngineTypeOK'
    BY <1>1, <1>2, <2>3 DEF ServeAppend, HandleStored, SetEvent, TypeOK, EngineTypeOK, op
  <2> QED
    BY <1>2, <2>2, <2>4
       DEF ServeAppend, TypeOK, BridgeTypeOK, bridgeVars, proxyVars, worldVars
<1>3. CASE ServeRead
  <2>1. StoreTypeOK'
    BY <1>0, <1>3, ReleaseType DEF ServeRead, StoreTypeOK
  <2>2. ReadAllSync(op.topic) \in SUBSET Nat
    <3>1. Readable(op.topic) \in SUBSET Nat
      BY <1>0, <1>1 DEF Readable, StoreTypeOK
    <3> QED
      BY <3>1, NewestType DEF ReadAllSync
  <2>3. /\ ppc' \in [Proxy -> ProxyState]
        /\ held' \in [Proxy -> SUBSET Nat]
        /\ handed' \in [Topic -> SUBSET Nat]
    <3>1. CASE op.by \in Proxy
      BY <1>3, <2>2, <3>1, PeekReplyType DEF ServeRead, op
    <3>2. CASE op.by \notin Proxy
      BY <1>3, <3>2 DEF ServeRead, proxyVars, TypeOK, op
    <3> QED
      BY <3>1, <3>2
  <2> QED
    BY <1>3, <2>1, <2>3
       DEF ServeRead, TypeOK, EngineTypeOK, BridgeTypeOK, engineVars, bridgeVars, worldVars
<1>4. CASE ServeAck
  <2>1. StoreTypeOK'
    BY <1>0, <1>1, <1>4, AckSyncType, ReleaseType DEF ServeAck, op
  <2>2. ppc' \in [Proxy -> ProxyState]
    BY <1>4 DEF ServeAck, TypeOK, ProxyState
  <2> QED
    BY <1>4, <2>1, <2>2
       DEF ServeAck, TypeOK, EngineTypeOK, BridgeTypeOK, engineVars, bridgeVars, worldVars
<1>5. CASE ServeError
  <2>1. \/ UNCHANGED <<disk, failed>>
        \/ /\ AppendUntrimmed(op.topic, op.id)
           /\ failed' = [failed EXCEPT ![op.topic] = @ \cup {op.id}]
    BY <1>5 DEF ServeError, op
  <2>2. disk' \in [Topic -> SUBSET Nat]
    BY <1>0, <1>1, <2>1, AppendUntrimmedType DEF StoreTypeOK
  <2>3. StoreTypeOK'
    BY <1>0, <2>2, ReleaseType
  <2>4. failed' \in [Topic -> SUBSET Nat]
    BY <1>1, <2>1 DEF TypeOK
  <2>5. ppc' \in [Proxy -> ProxyState] /\ held' \in [Proxy -> SUBSET Nat]
    BY <1>5 DEF ServeError, TypeOK, ProxyState
  <2> QED
    BY <1>5, <2>3, <2>4, <2>5
       DEF ServeError, TypeOK, EngineTypeOK, BridgeTypeOK, engineVars, bridgeVars
<1> QED
  BY <1>2, <1>3, <1>4, <1>5 DEF Serve

(* Every step of a watcher keeps the types.                                 *)
LEMMA TypeWatch == ASSUME TypeOK, NEW w \in Watcher, Watch(w) PROVE TypeOK'
<1>1. UNCHANGED storeVars
  BY DEF Watch, WatchEnter, WatchWake, PushOk, PushRetry, PushFail, PushOver
<1>2. StoreTypeOK'
  BY <1>1 DEF TypeOK, StoreTypeOK, storeVars
<1>3. WatchTopic[w] \in Topic
  BY EngineAssumption
<1>4. EngineTypeOK'
  BY <1>3 DEF Watch, WatchEnter, WatchWake, PushOk, PushRetry, PushFail, PushOver,
              WaitEnter, WaitWake, ClearRamBuffer, engineVars, TypeOK, EngineTypeOK
<1>5. ram[WatchTopic[w]] \in SUBSET Nat /\ batch[w] \in SUBSET Nat
  BY <1>3 DEF TypeOK, EngineTypeOK, BridgeTypeOK
<1>6. BridgeTypeOK'
  <2>1. CASE WatchEnter(w) \/ WatchWake(w)
    BY <1>5, <2>1 DEF WatchEnter, WatchWake, TakeBatch, TypeOK, BridgeTypeOK
  <2>2. CASE PushOk(w) \/ PushFail(w)
    BY <1>3, <1>5, <2>2, BridgeAssumption
       DEF PushOk, PushFail, PushOver, TypeOK, BridgeTypeOK
  <2>3. CASE PushRetry(w)
    <3>1. attempt[w] + 1 \in 0 .. RetryMax
      BY <2>3, BridgeAssumption DEF PushRetry, TypeOK, BridgeTypeOK
    <3> QED
      BY <2>3, <3>1 DEF PushRetry, TypeOK, BridgeTypeOK
  <2> QED
    BY <2>1, <2>2, <2>3 DEF Watch
<1> QED
  BY <1>2, <1>4, <1>6 DEF Watch, TypeOK, proxyVars, worldVars

(* Every step of a proxy keeps the types.                                   *)
LEMMA TypeProxy ==
  ASSUME TypeOK, NEW p \in Proxy,
         CallRead(p) \/ Dispatch(p) \/ Return(p) \/ GiveUp(p) \/ ProxyKilled(p)
  PROVE  TypeOK'
<1>0. ProxyTopic[p] \in Topic /\ StoreTypeOK
  BY InboxAssumption DEF TypeOK
<1>1. CASE CallRead(p) \/ AckOfNothing(p) \/ Return(p) \/ GiveUp(p)
  <2>1. /\ UNCHANGED <<storeVars, engineVars, bridgeVars, handed, worldVars>>
        /\ ppc' \in [Proxy -> ProxyState]
        /\ held' \in [Proxy -> SUBSET Nat]
    BY <1>1 DEF CallRead, AckOfNothing, Return, GiveUp, TypeOK, ProxyState
  <2> QED
    BY <2>1 DEF TypeOK, StoreTypeOK, EngineTypeOK, BridgeTypeOK,
                storeVars, engineVars, bridgeVars, worldVars
<1>2. CASE PeekFromRam(p)
  <2>1. ram[ProxyTopic[p]] \in SUBSET Nat
    BY <1>0 DEF TypeOK, EngineTypeOK
  <2>2. PeekReply(p, ram[ProxyTopic[p]])
    BY <1>2 DEF PeekFromRam
  <2>3. /\ ppc' \in [Proxy -> ProxyState]
        /\ held' \in [Proxy -> SUBSET Nat]
        /\ handed' \in [Topic -> SUBSET Nat]
    BY <2>1, <2>2, PeekReplyType
  <2> QED
    BY <1>2, <2>3 DEF PeekFromRam, TypeOK, StoreTypeOK, EngineTypeOK, BridgeTypeOK,
                      storeVars, engineVars, bridgeVars, worldVars
<1>3. CASE PeekFromStore(p)
  <2>1. StoreTypeOK'
    BY <1>0, <1>3, SubmitType DEF PeekFromStore
  <2>2. ppc' \in [Proxy -> ProxyState]
    BY <1>3 DEF PeekFromStore, TypeOK, ProxyState
  <2> QED
    BY <1>3, <2>1, <2>2 DEF PeekFromStore, TypeOK, EngineTypeOK, BridgeTypeOK,
                            engineVars, bridgeVars, worldVars
<1>4. CASE AckAfterPeek(p)
  <2>1. PICK last \in held[p] : AckRequest(ProxyTopic[p], last, p)
    BY <1>4 DEF AckAfterPeek
  <2>2. last \in Nat
    BY <2>1 DEF TypeOK
  <2>3. StoreTypeOK'
    BY <1>0, <2>1, <2>2, SubmitType DEF AckRequest
  <2>4. EngineTypeOK'
    BY <1>0, <2>1 DEF AckRequest, TypeOK, EngineTypeOK
  <2>5. ppc' \in [Proxy -> ProxyState]
    BY <1>4 DEF AckAfterPeek, TypeOK, ProxyState
  <2> QED
    BY <1>4, <2>3, <2>4, <2>5 DEF AckAfterPeek, TypeOK, BridgeTypeOK, bridgeVars, worldVars
<1>5. CASE ProxyKilled(p)
  <2>1. StoreTypeOK'
    BY <1>0, <1>5, OrphanQueue DEF ProxyKilled, StoreTypeOK
  <2>2. /\ ppc' \in [Proxy -> ProxyState]
        /\ held' \in [Proxy -> SUBSET Nat]
        /\ kills' \in Nat
    BY <1>5 DEF ProxyKilled, TypeOK, ProxyState
  <2> QED
    BY <1>5, <2>1, <2>2 DEF ProxyKilled, TypeOK, EngineTypeOK, BridgeTypeOK,
                            engineVars, bridgeVars
<1> QED
  BY <1>1, <1>2, <1>3, <1>4, <1>5 DEF Dispatch

LEMMA TypePost == ASSUME TypeOK, NEW t \in Topic, Post(t) PROVE TypeOK'
<1>1. StoreTypeOK'
  <2>1. CASE up
    <3>1. posted + 1 \in Nat
      BY DEF TypeOK
    <3>2. Submit("append", t, posted + 1, NoProxy) /\ UNCHANGED disk
      BY <2>1 DEF Post, HandleRequest
    <3> QED
      BY <3>1, <3>2, SubmitType DEF TypeOK
  <2>2. CASE ~up
    BY <2>2 DEF Post, TypeOK, StoreTypeOK, storeVars
  <2> QED
    BY <2>1, <2>2 DEF TypeOK
<1>2. UNCHANGED engineVars
  BY DEF Post, HandleRequest
<1> QED
  BY <1>1, <1>2 DEF Post, TypeOK, EngineTypeOK, BridgeTypeOK,
                    engineVars, bridgeVars, proxyVars

LEMMA TypeCrash == ASSUME TypeOK, Crash PROVE TypeOK'
<1> DEFINE op == Head(lockq)
<1>0. StoreTypeOK
  BY DEF TypeOK
<1>1. disk' \in [Topic -> SUBSET Nat]
  <2>1. CASE UNCHANGED disk
    BY <1>0, <2>1 DEF StoreTypeOK
  <2>2. CASE lockq # <<>> /\ (\/ AppendSync(op.topic, op.id)
                             \/ AppendUntrimmed(op.topic, op.id)
                             \/ AckSync(op.topic, op.id))
    <3>1. op \in StoreOp
      BY <1>0, <2>2, HeadTailProperties DEF StoreTypeOK
    <3> QED
      BY <1>0, <2>2, <3>1, AppendSyncType, AppendUntrimmedType, AckSyncType
  <2> QED
    BY <2>1, <2>2 DEF Crash
<1>2. StoreTypeOK'
  BY <1>1, EmptySeq DEF Crash, StoreTypeOK
<1>3. EngineTypeOK'
  BY DEF Crash, EngineTypeOK
<1>4. BridgeTypeOK'
  BY BridgeAssumption DEF Crash, BridgeReset, TypeOK, BridgeTypeOK
<1>5. ppc' \in [Proxy -> ProxyState]
  BY DEF Crash, TypeOK, ProxyState
<1>6. up' \in BOOLEAN
  BY DEF Crash
<1>7. crashes' = crashes + 1 /\ UNCHANGED <<held, handed, posted, kills>>
  BY DEF Crash
<1>8. /\ crashes' \in Nat /\ posted' \in Nat /\ kills' \in Nat
      /\ held' \in [Proxy -> SUBSET Nat] /\ handed' \in [Topic -> SUBSET Nat]
  BY <1>7 DEF TypeOK
<1>9. failed' \in [Topic -> SUBSET Nat]
  BY DEF Crash
<1> QED
  BY <1>2, <1>3, <1>4, <1>5, <1>6, <1>8, <1>9 DEF TypeOK

LEMMA TypeStart == ASSUME TypeOK, Start PROVE TypeOK'
<1>1. \A t \in Topic : Newest(ReadAllSync(t), MaxLen) \in SUBSET Nat
  <2>1. \A t \in Topic : Readable(t) \in SUBSET Nat
    BY DEF TypeOK, StoreTypeOK, Readable
  <2> QED
    BY <2>1, NewestType DEF ReadAllSync
<1>2. EngineTypeOK'
  BY <1>1 DEF Start, RestoreFromStore, EngineTypeOK
<1> QED
  BY <1>2 DEF Start, TypeOK, StoreTypeOK, BridgeTypeOK, storeVars, bridgeVars, proxyVars

LEMMA TypeStep == TypeOK /\ [Next]_vars => TypeOK'
<1> SUFFICES ASSUME TypeOK, [Next]_vars PROVE TypeOK'
  OBVIOUS
<1>1. CASE UNCHANGED vars
  BY <1>1 DEF TypeOK, StoreTypeOK, EngineTypeOK, BridgeTypeOK, vars,
              storeVars, engineVars, bridgeVars, proxyVars, worldVars
<1>2. CASE Next
  BY <1>2, TypePost, TypeServe, TypeWatch, TypeProxy, TypeCrash, TypeStart DEF Next
<1> QED
  BY <1>1, <1>2

(* Every variable of the daemon and of the proxies keeps its type; of the   *)
(* bridge, that it never makes more than retry_max attempts at one push.    *)
THEOREM TypeCorrect == Spec => []TypeOK
BY TypeInit, TypeStep, PTL DEF Spec

-----------------------------------------------------------------------------
(* The invariant.                                                           *)

LEMMA InvInit == Init => InboxInv
<1> SUFFICES ASSUME Init PROVE InboxInv
  OBVIOUS
<1>1. lockq = <<>> /\ Len(lockq) = 0
  BY DEF Init, StoreInit
<1>2. RamIsTail
  BY DEF Init, StoreInit, EngineInit, RamIsTail
<1>3. QueueOrdered
  BY <1>1 DEF QueueOrdered
<1>4. Bookkeeping
  BY InboxAssumption, RoomAssumption, FS_EmptySet DEF Init, StoreInit, EngineInit, Bookkeeping
<1> QED
  BY <1>2, <1>3, <1>4, TypeInit DEF InboxInv

(* The records of the queue, one by one.                                    *)
LEMMA QueueItem ==
  ASSUME TypeOK, NEW i \in 1 .. Len(lockq)
  PROVE  /\ lockq[i] \in StoreOp
         /\ lockq[i].topic \in Topic
         /\ lockq[i].id \in Nat
         /\ lockq[i].by \in Proxy \cup {NoProxy}
<1>1. lockq[i] \in StoreOp
  BY ElementOfSeq DEF TypeOK, StoreTypeOK
<1> QED
  BY <1>1 DEF StoreOp

(* A step that leaves the store alone, empties buffers or not, and gives no *)
(* proxy anything.                                                          *)
LEMMA InvFrame ==
  ASSUME InboxInv, TypeOK', UNCHANGED <<disk, lockq, handed, failed, posted, up>>,
         \A t \in Topic : ram'[t] = ram[t] \/ ram'[t] = {},
         \A p \in Proxy : held'[p] = held[p] \/ held'[p] = {}
  PROVE  InboxInv'
<1>1. RamIsTail'
  BY DEF InboxInv, RamIsTail, Readable
<1>2. QueueOrdered'
  <2>1. \A i \in 1 .. Len(lockq) : lockq[i].topic \in Topic
    BY QueueItem DEF InboxInv
  <2> QED
    BY <2>1 DEF InboxInv, QueueOrdered
<1>3. Bookkeeping'
  BY DEF InboxInv, Bookkeeping
<1> QED
  BY <1>1, <1>2, <1>3 DEF InboxInv

(* Everything on disk or in a proxy's hands has been posted.                *)
LEMMA Posted ==
  ASSUME InboxInv, NEW t \in Topic
  PROVE  /\ disk[t] \in SUBSET Nat /\ ram[t] \in SUBSET Nat /\ handed[t] \in SUBSET Nat
         /\ failed[t] \in SUBSET Nat
         /\ posted \in Nat
         /\ \A m \in disk[t] \cup ram[t] \cup handed[t] \cup failed[t] : m <= posted
<1>1. /\ disk[t] \in SUBSET Nat /\ ram[t] \in SUBSET Nat /\ handed[t] \in SUBSET Nat
      /\ failed[t] \in SUBSET Nat
      /\ posted \in Nat
  BY DEF InboxInv, TypeOK, StoreTypeOK, EngineTypeOK
<1> QED
  BY <1>1 DEF InboxInv, Bookkeeping

LEMMA InvPost == ASSUME InboxInv, NEW t \in Topic, Post(t) PROVE InboxInv'
<1>0. TypeOK /\ TypeOK'
  BY TypePost DEF InboxInv
<1>1. /\ UNCHANGED <<disk, ram, held, handed, failed, up>>
      /\ posted' = posted + 1 /\ posted \in Nat
  BY <1>0 DEF Post, HandleRequest, storeVars, engineVars, proxyVars, TypeOK
<1>2. RamIsTail'
  BY <1>1 DEF InboxInv, RamIsTail, Readable
<1>3. Bookkeeping'
  <2>1. posted' <= MaxMsgs
    BY <1>1, InboxAssumption DEF Post
  <2>2. ~up' => lockq' = <<>> /\ \A u \in Topic : ram'[u] = {}
    BY <1>1 DEF Post, storeVars, InboxInv, Bookkeeping
  <2>3. \A u \in Topic : \A m \in disk'[u] \cup ram'[u] \cup handed'[u] \cup failed'[u] :
                              m <= posted'
    BY <1>1, Posted
  <2> QED
    BY <1>1, <2>1, <2>2, <2>3 DEF InboxInv, Bookkeeping
<1>4. QueueOrdered'
  <2>1. CASE ~up
    <3>1. lockq' = <<>>
      BY <1>1, <1>3, <2>1 DEF Bookkeeping
    <3> QED
      BY <3>1 DEF QueueOrdered
  <2>2. CASE up
    <3> DEFINE n == Len(lockq)
    <3>1. /\ Len(lockq') = n + 1 /\ n \in Nat
          /\ \A i \in 1 .. n : lockq'[i] = lockq[i]
          /\ lockq'[n + 1] = [kind |-> "append", topic |-> t, id |-> posted + 1,
                              by |-> NoProxy]
      <4>1. Submit("append", t, posted + 1, NoProxy)
        BY <2>2 DEF Post, HandleRequest
      <4>2. lockq \in Seq(StoreOp)
        BY <1>0 DEF TypeOK, StoreTypeOK
      <4>3. posted + 1 \in Nat /\ "append" \in {"append", "read", "ack"}
        BY <1>1
      <4> QED
        BY <4>1, <4>2, <4>3, SubmitQueue, LenProperties
    <3> HIDE DEF n
    <3>2. \A i \in 1 .. n : lockq[i] \in StoreOp /\ lockq[i].topic \in Topic
                            /\ lockq[i].id \in Nat
      BY <1>0, QueueItem DEF n
    <3> SUFFICES ASSUME NEW i \in 1 .. n + 1
                 PROVE  LET op == lockq'[i] IN
                        /\ op.by \in Proxy => ProxyTopic[op.by] = op.topic
                        /\ op.kind = "append" =>
                             /\ 0 < op.id /\ op.id <= posted'
                             /\ \A m \in disk[op.topic] \cup ram[op.topic] \cup handed[op.topic] :
                                  m < op.id
                             /\ \A j \in i + 1 .. n + 1 :
                                  lockq'[j].kind = "append" /\ lockq'[j].topic = op.topic
                                     => op.id < lockq'[j].id
                        /\ op.kind = "ack" => /\ op.id \in handed[op.topic]
                                              /\ \A m \in ram[op.topic] : op.id < m
      BY <1>1, <3>1 DEF QueueOrdered
    <3>3. CASE i \in 1 .. n
      <4>1. lockq'[i] = lockq[i]
        BY <3>1, <3>3
      <4>2. lockq[i].kind = "append" => lockq[i].id < posted + 1
        BY <1>1, <3>2, <3>3 DEF InboxInv, QueueOrdered, n
      <4>3. ASSUME lockq[i].kind = "append", NEW j \in i + 1 .. n + 1,
                   lockq'[j].kind = "append", lockq'[j].topic = lockq[i].topic
            PROVE  lockq[i].id < lockq'[j].id
        <5>1. CASE j = n + 1
          BY <3>1, <4>2, <4>3, <5>1
        <5>2. CASE j \in i + 1 .. n
          <6>1. lockq'[j] = lockq[j]
            BY <3>1, <3>3, <5>2
          <6> QED
            BY <3>3, <4>3, <5>2, <6>1 DEF InboxInv, QueueOrdered, n
        <5> QED
          BY <3>1, <3>3, <5>1, <5>2
      <4>4. lockq[i].kind = "append" => 0 < lockq[i].id /\ lockq[i].id <= posted'
        BY <1>1, <3>2, <3>3, <4>2 DEF InboxInv, QueueOrdered, n
      <4> QED
        BY <3>3, <4>1, <4>3, <4>4 DEF InboxInv, QueueOrdered, n
    <3>4. CASE i = n + 1
      <4>1. \A m \in disk[t] \cup ram[t] \cup handed[t] : m < posted + 1
        BY <1>1, Posted
      <4>2. ~ \E j \in i + 1 .. n + 1 : TRUE
        BY <3>1, <3>4
      <4> QED
        BY <1>1, <3>1, <3>4, <4>1, <4>2, StoreAssumption
    <3> QED
      BY <3>1, <3>3, <3>4
  <2> QED
    BY <2>1, <2>2, <1>0 DEF TypeOK
<1> QED
  BY <1>0, <1>2, <1>3, <1>4 DEF InboxInv

(* When the head of the queue is released, the order of the rest stands: at *)
(* most the head's record has become part of a file or a buffer.            *)
LEMMA QueueRelease ==
  ASSUME InboxInv, lockq # <<>>, Release, posted' = posted,
         \A t \in Topic : handed[t] \subseteq handed'[t],
         \A t \in Topic : \A m \in disk'[t] \cup handed'[t] :
            \/ m \in disk[t] \cup ram[t] \cup handed[t]
            \/ Head(lockq).kind = "append" /\ Head(lockq).topic = t /\ m = Head(lockq).id,
         \A t \in Topic : \A m \in ram'[t] :
            \/ m \in ram[t]
            \/ Head(lockq).kind = "append" /\ Head(lockq).topic = t /\ m = Head(lockq).id
  PROVE  QueueOrdered'
<1> DEFINE n == Len(lockq)
<1>1. /\ n \in Nat /\ n >= 1 /\ Len(lockq') = n - 1 /\ Head(lockq) = lockq[1]
      /\ \A i \in 1 .. n - 1 : lockq'[i] = lockq[i + 1]
  BY ReleaseQueue DEF InboxInv, TypeOK, StoreTypeOK
<1>2. \A i \in 1 .. n : lockq[i].topic \in Topic /\ lockq[i].id \in Nat
  BY QueueItem DEF InboxInv
<1> HIDE DEF n
<1> SUFFICES ASSUME NEW i \in 1 .. n - 1
             PROVE  LET op == lockq'[i] IN
                    /\ op.by \in Proxy => ProxyTopic[op.by] = op.topic
                    /\ op.kind = "append" =>
                         /\ 0 < op.id /\ op.id <= posted'
                         /\ \A m \in disk'[op.topic] \cup ram'[op.topic] \cup handed'[op.topic] :
                              m < op.id
                         /\ \A j \in i + 1 .. n - 1 :
                              lockq'[j].kind = "append" /\ lockq'[j].topic = op.topic
                                 => op.id < lockq'[j].id
                    /\ op.kind = "ack" => /\ op.id \in handed'[op.topic]
                                          /\ \A m \in ram'[op.topic] : op.id < m
  BY <1>1 DEF QueueOrdered
<1> DEFINE op == lockq[i + 1]
<1>3. i + 1 \in 1 .. n /\ i + 1 \in 1 + 1 .. n /\ 1 \in 1 .. n /\ i \in 1 .. n - 1
  BY <1>1
<1>4. op.topic \in Topic /\ op.id \in Nat
  BY <1>2, <1>3
<1>5. /\ op.by \in Proxy => ProxyTopic[op.by] = op.topic
      /\ op.kind = "append" => 0 < op.id /\ op.id <= posted'
  BY <1>3 DEF InboxInv, QueueOrdered, n
<1>6. /\ op.kind = "append" =>
           \A m \in disk[op.topic] \cup ram[op.topic] \cup handed[op.topic] : m < op.id
      /\ op.kind = "ack" => op.id \in handed[op.topic] /\ \A m \in ram[op.topic] : op.id < m
  BY <1>3 DEF InboxInv, QueueOrdered, n
<1>7. lockq[1].kind = "append" =>
        /\ \A m \in handed[lockq[1].topic] : m < lockq[1].id
        /\ op.kind = "append" /\ op.topic = lockq[1].topic => lockq[1].id < op.id
  BY <1>3 DEF InboxInv, QueueOrdered, n
<1>8. ASSUME op.kind = "append", NEW j \in i + 1 .. n - 1,
             lockq'[j].kind = "append", lockq'[j].topic = op.topic
      PROVE  op.id < lockq'[j].id
  <2>1. lockq'[j] = lockq[j + 1] /\ j + 1 \in (i + 1) + 1 .. n
    BY <1>1, <1>3
  <2> QED
    BY <1>3, <1>8, <2>1 DEF InboxInv, QueueOrdered, n
<1>9. op.kind = "append" =>
        \A m \in disk'[op.topic] \cup ram'[op.topic] \cup handed'[op.topic] : m < op.id
  <2> HIDE DEF op
  <2> QED
    BY <1>1, <1>4, <1>6, <1>7
<1>10. op.kind = "ack" => op.id \in handed'[op.topic] /\ \A m \in ram'[op.topic] : op.id < m
  <2> HIDE DEF op
  <2> QED
    BY <1>1, <1>4, <1>6, <1>7
<1>11. lockq'[i] = op
  BY <1>1
<1> QED
  BY <1>5, <1>8, <1>9, <1>10, <1>11

(* A record the append has just stored is the newest, and RAM stays a tail: *)
(* the trim takes nothing of it, since there is room for the buffer and for *)
(* what the buffer lacks.                                                   *)
LEMMA AppendKeepsTail ==
  ASSUME InboxInv, NEW t \in Topic, NEW m \in Nat, \A x \in disk[t] \cup ram[t] : x < m,
         AppendSync(t, m), ram' = [ram EXCEPT ![t] = Newest(@ \cup {m}, MaxLen)],
         UNCHANGED failed
  PROVE  RamIsTail'
<1> DEFINE D == disk[t] \cup {m}
           R == ram[t] \cup {m}
           J == failed[t] \cup Unreadable
<1>1. D \in SUBSET Nat /\ R \in SUBSET Nat /\ \A x \in D \cup R : x <= m
  BY Posted
<1>2. /\ R \ Unreadable \subseteq D
      /\ \A x \in R, y \in D : y > x => y \in R \cup J
      /\ \A x \in R, y \in D \ Unreadable : y > x => y \in R \cup failed[t]
  BY <1>1 DEF InboxInv, RamIsTail, Readable
<1>3. disk'[t] = Retain(D) /\ ram'[t] = Newest(R, MaxLen)
  BY DEF AppendSync, InboxInv, TypeOK, StoreTypeOK, EngineTypeOK
<1>4. \A u \in Topic \ {t} : disk'[u] = disk[u] /\ ram'[u] = ram[u]
  BY DEF AppendSync, InboxInv, TypeOK, StoreTypeOK, EngineTypeOK
<1>5. /\ IsFiniteSet(J)
      /\ Cardinality(J) \in Nat
      /\ Cap > 0 => MaxLen + Cardinality(J) <= Cap
  <2> DEFINE F == failed[t]
             f == Cardinality(F)
             u == Cardinality(Unreadable)
             c == Cardinality(F \cap Unreadable)
             j == Cardinality(J)
  <2>1. IsFiniteSet(F) /\ IsFiniteSet(Unreadable)
    BY Posted, FS_BoundedSetOfNaturals, RoomAssumption
  <2>2. IsFiniteSet(J) /\ j = f + u - c
    BY <2>1, FS_Union
  <2>3. f \in Nat /\ u \in Nat /\ c \in Nat /\ j \in Nat
    <3>1. IsFiniteSet(F \cap Unreadable)
      BY <2>1, FS_Intersection
    <3> QED
      BY <2>1, <2>2, <3>1, FS_CardinalityType
  <2>4. f <= MaxFails
    BY DEF InboxInv, Bookkeeping
  <2>5. Cap = 0 \/ MaxLen + MaxFails + u <= Cap
    BY RoomAssumption
  <2> HIDE DEF f, u, c, j
  <2>6. Cap > 0 => MaxLen + j <= Cap
    BY <2>2, <2>3, <2>4, <2>5, StoreAssumption, EngineAssumption, RoomAssumption
  <2> QED
    BY <2>2, <2>3, <2>6 DEF j
<1> HIDE DEF D, R, J
<1>6. Newest(R, MaxLen) \ Unreadable \subseteq Retain(D)
  <2>1. CASE Cap > 0
    <3> SUFFICES ASSUME NEW x \in Newest(R, MaxLen), x \notin Unreadable
                 PROVE  x \in Newest(D, Cap)
      BY <2>1 DEF Retain
    <3>1. x \in D
      BY <1>2 DEF Newest
    <3>2. MaxLen \in Nat /\ Cap \in Nat /\ MaxLen + Cardinality(J) <= Cap
      BY <1>5, <2>1, StoreAssumption, EngineAssumption
    <3> QED
      BY <1>1, <1>2, <1>5, <3>1, <3>2, NewestOfTail
  <2>2. CASE ~(Cap > 0)
    BY <1>2, <2>2 DEF Retain, Newest
  <2> QED
    BY <2>1, <2>2
<1>7. ASSUME NEW x \in Newest(R, MaxLen), NEW y \in Retain(D) \ Unreadable, y > x
      PROVE  y \in Newest(R, MaxLen) \cup failed[t]
  <2>1. y \in D \ Unreadable /\ x \in R
    BY <1>1, RetainUpClosed DEF Newest
  <2>2. y \in R \cup failed[t]
    BY <1>2, <1>7, <2>1
  <2>3. CASE y \in R
    BY <1>1, <1>7, <2>3, NewestUpClosed, EngineAssumption
  <2> QED
    BY <2>2, <2>3
<1> QED
  BY <1>3, <1>4, <1>6, <1>7 DEF InboxInv, RamIsTail, Readable

(* ServeAppend: the second half of handle().                                *)
LEMMA InvServeAppend == ASSUME InboxInv, ServeAppend PROVE InboxInv'
<1> DEFINE op == Head(lockq)
<1>0. lockq # <<>> /\ Release /\ op.kind = "append" /\ HandleStored(op)
  BY DEF ServeAppend
<1>1. TypeOK'
  BY TypeServe DEF InboxInv, Serve
<1>2. op = lockq[1] /\ 1 \in 1 .. Len(lockq)
  BY <1>0, ReleaseQueue DEF InboxInv, TypeOK, StoreTypeOK
<1>3. op.topic \in Topic /\ op.id \in Nat
  BY <1>2, QueueItem DEF InboxInv
<1>4. /\ op.id <= posted
      /\ \A m \in disk[op.topic] \cup ram[op.topic] \cup handed[op.topic] : m < op.id
  BY <1>0, <1>2 DEF InboxInv, QueueOrdered
<1>5. /\ UNCHANGED <<held, handed, failed, posted, up>>
      /\ AppendSync(op.topic, op.id)
      /\ ram' = [ram EXCEPT ![op.topic] = Newest(@ \cup {op.id}, MaxLen)]
  BY DEF ServeAppend, HandleStored, proxyVars, worldVars
<1>6. up
  BY <1>0 DEF InboxInv, Bookkeeping
<1> HIDE DEF op
<1>7. RamIsTail'
  BY <1>3, <1>4, <1>5, AppendKeepsTail
<1>8. /\ \A t \in Topic : \A m \in disk'[t] : m \in disk[t] \/ (t = op.topic /\ m = op.id)
      /\ \A t \in Topic : \A m \in ram'[t] : m \in ram[t] \/ (t = op.topic /\ m = op.id)
  <2>1. Retain(disk[op.topic] \cup {op.id}) \subseteq disk[op.topic] \cup {op.id}
    BY DEF Retain, Newest
  <2>2. Newest(ram[op.topic] \cup {op.id}, MaxLen) \subseteq ram[op.topic] \cup {op.id}
    BY DEF Newest
  <2> QED
    BY <1>3, <1>5, <2>1, <2>2
       DEF AppendSync, InboxInv, TypeOK, StoreTypeOK, EngineTypeOK
<1>9. QueueOrdered'
  BY <1>0, <1>5, <1>8, QueueRelease DEF op
<1>10. Bookkeeping'
  <2>1. \A t \in Topic :
          /\ \A m \in disk'[t] \cup ram'[t] \cup handed'[t] \cup failed'[t] : m <= posted'
          /\ Cardinality(failed'[t]) <= MaxFails
    <3>1. \A t \in Topic : /\ \A m \in disk[t] \cup ram[t] \cup handed[t] \cup failed[t] :
                                 m <= posted
                           /\ Cardinality(failed[t]) <= MaxFails
      BY DEF InboxInv, Bookkeeping
    <3> QED
      BY <1>4, <1>5, <1>8, <3>1
  <2> QED
    BY <1>5, <1>6, <2>1 DEF InboxInv, Bookkeeping
<1> QED
  BY <1>1, <1>7, <1>9, <1>10 DEF InboxInv

(* A proxy is given what is on disk or in RAM.                              *)
LEMMA Given ==
  ASSUME InboxInv, NEW p \in Proxy,
         NEW S \in SUBSET (disk[ProxyTopic[p]] \cup ram[ProxyTopic[p]]), PeekReply(p, S)
  PROVE  /\ \A t \in Topic : handed[t] \subseteq handed'[t]
         /\ \A t \in Topic : handed'[t] \subseteq handed[t] \cup disk[t] \cup ram[t]
         /\ \A q \in Proxy : held'[q] \subseteq handed'[ProxyTopic[q]]
<1>1. ProxyTopic \in [Proxy -> Topic] /\ handed \in [Topic -> SUBSET Nat]
      /\ held \in [Proxy -> SUBSET Nat]
  BY InboxAssumption DEF InboxInv, TypeOK
<1>2. /\ handed' = [handed EXCEPT ![ProxyTopic[p]] = @ \cup S]
      /\ held' = [held EXCEPT ![p] = S]
  BY DEF PeekReply
<1>3. \A q \in Proxy : held[q] \subseteq handed[ProxyTopic[q]]
  BY DEF InboxInv, Bookkeeping
<1> QED
  BY <1>1, <1>2, <1>3

(* ServeRead: the reply of an inbox_peek that had to read the file.         *)
LEMMA InvServeRead == ASSUME InboxInv, ServeRead PROVE InboxInv'
<1> DEFINE op == Head(lockq)
<1>0. lockq # <<>> /\ Release /\ op.kind = "read"
  BY DEF ServeRead
<1>1. TypeOK'
  BY TypeServe DEF InboxInv, Serve
<1>2. op = lockq[1] /\ 1 \in 1 .. Len(lockq)
  BY <1>0, ReleaseQueue DEF InboxInv, TypeOK, StoreTypeOK
<1>3. op.topic \in Topic /\ (op.by \in Proxy => ProxyTopic[op.by] = op.topic)
  BY <1>2, QueueItem DEF InboxInv, QueueOrdered
<1>4. UNCHANGED <<disk, ram, failed, posted, up>>
  BY DEF ServeRead, engineVars, worldVars
<1>5. up
  BY <1>0 DEF InboxInv, Bookkeeping
<1>6. /\ \A t \in Topic : handed[t] \subseteq handed'[t]
      /\ \A t \in Topic : handed'[t] \subseteq handed[t] \cup disk[t] \cup ram[t]
      /\ \A q \in Proxy : held'[q] \subseteq handed'[ProxyTopic[q]]
  <2>1. CASE op.by \in Proxy
    <3>1. ReadAllSync(op.topic) \in SUBSET disk[op.topic]
      BY DEF ReadAllSync, Readable, Retain, Newest
    <3>2. PeekReply(op.by, ReadAllSync(op.topic))
      BY <2>1 DEF ServeRead
    <3> QED
      BY <1>3, <2>1, <3>1, <3>2, Given
  <2>2. CASE op.by \notin Proxy
    BY <2>2 DEF ServeRead, proxyVars, InboxInv, Bookkeeping
  <2> QED
    BY <2>1, <2>2
<1>7. RamIsTail'
  BY <1>4 DEF InboxInv, RamIsTail, Readable
<1>8. QueueOrdered'
  BY <1>0, <1>4, <1>6, QueueRelease DEF op
<1>9. Bookkeeping'
  <2>1. /\ posted' <= MaxMsgs
        /\ \A t \in Topic :
             /\ \A m \in disk'[t] \cup ram'[t] \cup handed'[t] \cup failed'[t] : m <= posted'
             /\ Cardinality(failed'[t]) <= MaxFails
    BY <1>4, <1>6 DEF InboxInv, Bookkeeping
  <2> QED
    BY <1>4, <1>5, <1>6, <2>1 DEF Bookkeeping
<1> QED
  BY <1>1, <1>7, <1>8, <1>9 DEF InboxInv

(* ServeAck: RAM lost the acknowledged records first, now the file does.    *)
LEMMA InvServeAck == ASSUME InboxInv, ServeAck PROVE InboxInv'
<1> DEFINE op == Head(lockq)
<1>0. lockq # <<>> /\ Release /\ op.kind = "ack" /\ AckSync(op.topic, op.id)
  BY DEF ServeAck
<1>1. TypeOK'
  BY TypeServe DEF InboxInv, Serve
<1>2. op = lockq[1] /\ 1 \in 1 .. Len(lockq)
  BY <1>0, ReleaseQueue DEF InboxInv, TypeOK, StoreTypeOK
<1>3. op.topic \in Topic /\ \A m \in ram[op.topic] : op.id < m
  BY <1>0, <1>2, QueueItem DEF InboxInv, QueueOrdered
<1>4. UNCHANGED <<ram, failed, posted, up, held, handed>>
  BY DEF ServeAck, engineVars, worldVars
<1>5. up
  BY <1>0 DEF InboxInv, Bookkeeping
<1>6. /\ disk' = [disk EXCEPT ![op.topic] = {m \in disk[op.topic] \ Unreadable : m > op.id}]
      /\ disk \in [Topic -> SUBSET Nat] /\ ram \in [Topic -> SUBSET Nat]
  BY <1>0 DEF AckSync, Readable, InboxInv, TypeOK, StoreTypeOK, EngineTypeOK
<1> HIDE DEF op
<1>7. \A t \in Topic : disk'[t] \subseteq disk[t]
  BY <1>3, <1>6
<1>8. op.id \in Nat
  BY <1>2, QueueItem DEF InboxInv
<1>9. RamIsTail'
  BY <1>3, <1>4, <1>6, <1>7, <1>8 DEF InboxInv, RamIsTail, Readable
<1>10. QueueOrdered'
  BY <1>0, <1>4, <1>7, QueueRelease DEF op
<1>11. Bookkeeping'
  BY <1>4, <1>5, <1>7 DEF InboxInv, Bookkeeping
<1> QED
  BY <1>1, <1>9, <1>10, <1>11 DEF InboxInv

(* ServeError: the operation is gone, or its record is in the file and not  *)
(* in RAM, newer than all that is.                                          *)
LEMMA InvServeError == ASSUME InboxInv, ServeError PROVE InboxInv'
<1> DEFINE op == Head(lockq)
<1>0. lockq # <<>> /\ Release
  BY DEF ServeError
<1>1. TypeOK'
  BY TypeServe DEF InboxInv, Serve
<1>2. UNCHANGED <<ram, posted, up, handed>>
  BY DEF ServeError, engineVars
<1>3. \A q \in Proxy : held'[q] \subseteq held[q]
  BY DEF ServeError, InboxInv, TypeOK
<1>4. up
  BY <1>0 DEF InboxInv, Bookkeeping
<1>5. CASE UNCHANGED <<disk, failed>>
  <2>1. RamIsTail'
    BY <1>2, <1>5 DEF InboxInv, RamIsTail, Readable
  <2>2. QueueOrdered'
    BY <1>0, <1>2, <1>5, QueueRelease
  <2>3. Bookkeeping'
    BY <1>2, <1>3, <1>4, <1>5 DEF InboxInv, Bookkeeping
  <2> QED
    BY <1>1, <2>1, <2>2, <2>3 DEF InboxInv
<1>6. CASE /\ op.kind = "append"
           /\ Cardinality(failed[op.topic]) < MaxFails
           /\ AppendUntrimmed(op.topic, op.id)
           /\ failed' = [failed EXCEPT ![op.topic] = @ \cup {op.id}]
  <2>1. op = lockq[1] /\ 1 \in 1 .. Len(lockq)
    BY <1>0, ReleaseQueue DEF InboxInv, TypeOK, StoreTypeOK
  <2>2. /\ op.topic \in Topic /\ op.id \in Nat /\ op.id <= posted
        /\ \A m \in disk[op.topic] \cup ram[op.topic] \cup handed[op.topic] : m < op.id
    BY <1>6, <2>1, QueueItem DEF InboxInv, QueueOrdered
  <2>3. /\ disk' = [disk EXCEPT ![op.topic] = @ \cup {op.id}]
        /\ disk \in [Topic -> SUBSET Nat] /\ failed \in [Topic -> SUBSET Nat]
    BY <1>6 DEF AppendUntrimmed, InboxInv, TypeOK, StoreTypeOK
  <2>4. Cardinality(failed[op.topic] \cup {op.id}) <= MaxFails
    <3>1. /\ IsFiniteSet(failed[op.topic])
          /\ Cardinality(failed[op.topic]) \in Nat
      BY <2>2, Posted, FS_BoundedSetOfNaturals, FS_CardinalityType
    <3>2. \/ Cardinality(failed[op.topic] \cup {op.id}) = Cardinality(failed[op.topic])
          \/ Cardinality(failed[op.topic] \cup {op.id}) = Cardinality(failed[op.topic]) + 1
      BY <3>1, FS_AddElement
    <3> QED
      BY <1>6, <3>1, <3>2, RoomAssumption
  <2>5. \A t \in Topic : \A m \in disk'[t] : m \in disk[t] \/ (t = op.topic /\ m = op.id)
    BY <2>2, <2>3
  <2> HIDE DEF op
  <2>6. RamIsTail'
    BY <1>2, <1>6, <2>2, <2>3 DEF InboxInv, RamIsTail, Readable
  <2>7. QueueOrdered'
    BY <1>0, <1>2, <1>6, <2>5, QueueRelease DEF op
  <2>8. Bookkeeping'
    <3>1. \A t \in Topic :
            /\ \A m \in disk'[t] \cup ram'[t] \cup handed'[t] \cup failed'[t] : m <= posted'
            /\ Cardinality(failed'[t]) <= MaxFails
      BY <1>2, <1>6, <2>2, <2>3, <2>4 DEF InboxInv, Bookkeeping
    <3> QED
      BY <1>2, <1>3, <1>4, <3>1 DEF InboxInv, Bookkeeping
  <2> QED
    BY <1>1, <2>6, <2>7, <2>8 DEF InboxInv
<1> QED
  BY <1>5, <1>6 DEF ServeError

(* PeekFromRam: what is in RAM is older than every queued record.           *)
LEMMA InvPeekFromRam == ASSUME InboxInv, NEW p \in Proxy, PeekFromRam(p) PROVE InboxInv'
<1>1. TypeOK'
  BY TypeProxy DEF InboxInv, Dispatch
<1>2. UNCHANGED <<disk, lockq, ram, failed, posted, up>> /\ up
  BY DEF PeekFromRam, storeVars, engineVars, worldVars
<1>3. /\ \A t \in Topic : handed[t] \subseteq handed'[t]
      /\ \A t \in Topic : handed'[t] \subseteq handed[t] \cup disk[t] \cup ram[t]
      /\ \A q \in Proxy : held'[q] \subseteq handed'[ProxyTopic[q]]
  <2>1. ram[ProxyTopic[p]] \in SUBSET (disk[ProxyTopic[p]] \cup ram[ProxyTopic[p]])
    OBVIOUS
  <2> QED
    BY <2>1, Given DEF PeekFromRam
<1>4. RamIsTail'
  BY <1>2 DEF InboxInv, RamIsTail, Readable
<1>5. QueueOrdered'
  <2>1. \A i \in 1 .. Len(lockq) : lockq[i].topic \in Topic
    BY QueueItem DEF InboxInv
  <2> QED
    BY <1>2, <1>3, <2>1 DEF InboxInv, QueueOrdered
<1>6. Bookkeeping'
  <2>1. /\ posted' <= MaxMsgs
        /\ \A t \in Topic :
             /\ \A m \in disk'[t] \cup ram'[t] \cup handed'[t] \cup failed'[t] : m <= posted'
             /\ Cardinality(failed'[t]) <= MaxFails
    BY <1>2, <1>3 DEF InboxInv, Bookkeeping
  <2> QED
    BY <1>2, <1>3, <2>1 DEF Bookkeeping
<1> QED
  BY <1>1, <1>4, <1>5, <1>6 DEF InboxInv

(* A read or an ack goes to the end of the queue.                           *)
LEMMA QueueSubmit ==
  ASSUME InboxInv, NEW kind \in {"read", "ack"}, NEW p \in Proxy, NEW last \in Nat,
         NEW t \in Topic, t = ProxyTopic[p],
         Submit(kind, t, last, p), UNCHANGED <<disk, handed, posted>>,
         \A u \in Topic : ram'[u] \subseteq ram[u],
         kind = "ack" => last \in handed[t] /\ \A m \in ram'[t] : last < m
  PROVE  QueueOrdered'
<1> DEFINE n == Len(lockq)
<1>1. lockq \in Seq(StoreOp) /\ p \in Proxy \cup {NoProxy}
      /\ kind \in {"append", "read", "ack"}
  BY DEF InboxInv, TypeOK, StoreTypeOK
<1>2. /\ Len(lockq') = n + 1 /\ n \in Nat
      /\ \A i \in 1 .. n : lockq'[i] = lockq[i]
      /\ lockq'[n + 1] = [kind |-> kind, topic |-> t, id |-> last, by |-> p]
  <2>1. Len(lockq) \in Nat
    BY <1>1, LenProperties
  <2>2. Submit(kind, t, last, p)
    OBVIOUS
  <2> QED
    BY <1>1, <2>1, <2>2, SubmitQueue
<1>3. \A i \in 1 .. n : lockq[i].topic \in Topic
  BY QueueItem DEF InboxInv
<1> HIDE DEF n
<1> SUFFICES ASSUME NEW i \in 1 .. n + 1
             PROVE  LET op == lockq'[i] IN
                    /\ op.by \in Proxy => ProxyTopic[op.by] = op.topic
                    /\ op.kind = "append" =>
                         /\ 0 < op.id /\ op.id <= posted
                         /\ \A m \in disk[op.topic] \cup ram'[op.topic] \cup handed[op.topic] :
                              m < op.id
                         /\ \A j \in i + 1 .. n + 1 :
                              lockq'[j].kind = "append" /\ lockq'[j].topic = op.topic
                                 => op.id < lockq'[j].id
                    /\ op.kind = "ack" => /\ op.id \in handed[op.topic]
                                          /\ \A m \in ram'[op.topic] : op.id < m
  BY <1>2 DEF QueueOrdered
<1>4. CASE i \in 1 .. n
  <2>1. lockq'[i] = lockq[i]
    BY <1>2, <1>4
  <2>2. ASSUME lockq[i].kind = "append", NEW j \in i + 1 .. n + 1,
               lockq'[j].kind = "append", lockq'[j].topic = lockq[i].topic
        PROVE  lockq[i].id < lockq'[j].id
    <3>1. j \in i + 1 .. n
      BY <1>2, <2>2
    <3>2. lockq'[j] = lockq[j]
      BY <1>2, <1>4, <3>1
    <3> QED
      BY <1>4, <2>2, <3>1, <3>2 DEF InboxInv, QueueOrdered, n
  <2> QED
    BY <1>3, <1>4, <2>1, <2>2 DEF InboxInv, QueueOrdered, n
<1>5. CASE i = n + 1
  BY <1>2, <1>5
<1> QED
  BY <1>2, <1>4, <1>5

LEMMA InvPeekFromStore ==
  ASSUME InboxInv, NEW p \in Proxy, PeekFromStore(p) PROVE InboxInv'
<1>1. TypeOK'
  BY TypeProxy DEF InboxInv, Dispatch
<1>2. UNCHANGED <<disk, ram, failed, posted, up, handed, held>> /\ up
  BY DEF PeekFromStore, engineVars, worldVars
<1>3. RamIsTail'
  BY <1>2 DEF InboxInv, RamIsTail, Readable
<1>4. QueueOrdered'
  BY <1>2, QueueSubmit, InboxAssumption DEF PeekFromStore
<1>5. Bookkeeping'
  BY <1>2 DEF InboxInv, Bookkeeping
<1> QED
  BY <1>1, <1>3, <1>4, <1>5 DEF InboxInv

(* AckAfterPeek: RAM drops what the proxy was given before the file does.   *)
LEMMA InvAckAfterPeek ==
  ASSUME InboxInv, NEW p \in Proxy, AckAfterPeek(p) PROVE InboxInv'
<1>1. TypeOK'
  BY TypeProxy DEF InboxInv, Dispatch
<1>2. PICK last \in held[p] : AckRequest(ProxyTopic[p], last, p)
  BY DEF AckAfterPeek
<1>3. UNCHANGED <<disk, failed, posted, up, handed, held>> /\ up
  BY <1>2 DEF AckAfterPeek, AckRequest, worldVars
<1>4. ProxyTopic[p] \in Topic /\ last \in Nat /\ last \in handed[ProxyTopic[p]]
  BY InboxAssumption DEF InboxInv, TypeOK, Bookkeeping
<1>5. /\ ram' = [ram EXCEPT ![ProxyTopic[p]] = {m \in @ : m > last}]
      /\ ram \in [Topic -> SUBSET Nat] /\ disk \in [Topic -> SUBSET Nat]
  BY <1>2 DEF AckRequest, InboxInv, TypeOK, StoreTypeOK, EngineTypeOK
<1>6. /\ \A t \in Topic : ram'[t] \subseteq ram[t]
      /\ \A m \in ram'[ProxyTopic[p]] : last < m
  BY <1>4, <1>5
<1>7. RamIsTail'
  <2>1. ASSUME NEW t \in Topic, NEW x \in ram'[t], NEW y \in Readable(t), y > x,
               y \notin failed[t]
        PROVE  y \in ram'[t]
    <3>1. y \in ram[t] /\ x \in Nat /\ y \in Nat
      BY <1>5, <1>6, <2>1 DEF InboxInv, RamIsTail, Readable
    <3>2. CASE t = ProxyTopic[p]
      BY <1>4, <1>5, <1>6, <2>1, <3>1, <3>2
    <3>3. CASE t # ProxyTopic[p]
      BY <1>5, <3>1, <3>3
    <3> QED
      BY <3>2, <3>3
  <2> QED
    BY <1>3, <1>6, <2>1 DEF InboxInv, RamIsTail, Readable
<1>8. QueueOrdered'
  BY <1>2, <1>3, <1>4, <1>6, QueueSubmit DEF AckRequest
<1>9. Bookkeeping'
  BY <1>3, <1>6 DEF InboxInv, Bookkeeping
<1> QED
  BY <1>1, <1>7, <1>8, <1>9 DEF InboxInv

(* ProxyKilled: the queue keeps its operations and their order.             *)
LEMMA InvProxyKilled == ASSUME InboxInv, NEW p \in Proxy, ProxyKilled(p) PROVE InboxInv'
<1>1. TypeOK'
  BY TypeProxy DEF InboxInv
<1>2. UNCHANGED <<disk, ram, failed, posted, up, handed>>
  BY DEF ProxyKilled, engineVars
<1>3. \A q \in Proxy : held'[q] \subseteq held[q]
  BY DEF ProxyKilled, InboxInv, TypeOK
<1>4. /\ Len(lockq') = Len(lockq)
      /\ \A i \in 1 .. Len(lockq) :
           /\ lockq'[i].kind = lockq[i].kind
           /\ lockq'[i].topic = lockq[i].topic
           /\ lockq'[i].id = lockq[i].id
           /\ lockq'[i].by \in {lockq[i].by, NoProxy}
  BY OrphanQueue DEF ProxyKilled, InboxInv, TypeOK, StoreTypeOK
<1>5. RamIsTail'
  BY <1>2 DEF InboxInv, RamIsTail, Readable
<1>6. QueueOrdered'
  <2> DEFINE n == Len(lockq)
  <2>1. n \in Nat /\ \A i \in 1 .. n : lockq[i].topic \in Topic
    BY QueueItem, LenProperties DEF InboxInv, TypeOK, StoreTypeOK
  <2>2. \A i \in 1 .. n, j \in 1 .. n : j \in i + 1 .. n => lockq'[j].id = lockq[j].id
    BY <1>4
  <2>3. \A i \in 1 .. n : \A j \in i + 1 .. n : j \in 1 .. n
    BY <2>1
  <2> HIDE DEF n
  <2> SUFFICES ASSUME NEW i \in 1 .. n
               PROVE  /\ lockq'[i].by \in Proxy => ProxyTopic[lockq'[i].by] = lockq[i].topic
                      /\ lockq[i].kind = "append" =>
                           /\ 0 < lockq[i].id /\ lockq[i].id <= posted
                           /\ \A m \in disk[lockq[i].topic] \cup ram[lockq[i].topic]
                                        \cup handed[lockq[i].topic] : m < lockq[i].id
                           /\ \A j \in i + 1 .. n :
                                lockq[j].kind = "append" /\ lockq[j].topic = lockq[i].topic
                                   => lockq[i].id < lockq[j].id
                      /\ lockq[i].kind = "ack" =>
                           /\ lockq[i].id \in handed[lockq[i].topic]
                           /\ \A m \in ram[lockq[i].topic] : lockq[i].id < m
    BY <1>2, <1>4, <2>1, <2>3 DEF QueueOrdered, n
  <2>4. lockq'[i].by \in Proxy => lockq'[i].by = lockq[i].by
    BY <1>4, StoreAssumption DEF n
  <2> QED
    BY <2>4 DEF InboxInv, QueueOrdered, n
<1>7. Bookkeeping'
  <2>1. ~up' => lockq' = <<>>
    <3>1. ~up' => Len(lockq) = 0
      BY <1>2 DEF InboxInv, Bookkeeping
    <3>2. lockq' \in Seq(StoreOp)
      BY <1>1 DEF TypeOK, StoreTypeOK
    <3> QED
      BY <1>4, <3>1, <3>2, EmptySeq
  <2> QED
    BY <1>2, <1>3, <2>1 DEF InboxInv, Bookkeeping
<1> QED
  BY <1>1, <1>5, <1>6, <1>7 DEF InboxInv

(* What a crash leaves of the file: all of it, or what the operation that   *)
(* held the lock makes of it.                                               *)
LEMMA CrashedDisk ==
  ASSUME InboxInv, Crash
  PROVE  \/ UNCHANGED disk
         \/ \E t \in Topic, m \in 1 .. posted :
               /\ AppendSync(t, m) \/ AppendUntrimmed(t, m)
               /\ \A x \in disk[t] \cup handed[t] : x < m
         \/ \E t \in Topic : \E m \in handed[t] : AckSync(t, m)
<1> DEFINE op == Head(lockq)
<1>1. CASE UNCHANGED disk
  BY <1>1
<1>2. CASE /\ lockq # <<>>
           /\ \/ op.kind = "append" /\ AppendSync(op.topic, op.id)
              \/ op.kind = "append" /\ AppendUntrimmed(op.topic, op.id)
              \/ op.kind = "ack" /\ AckSync(op.topic, op.id)
  <2>1. op = lockq[1] /\ 1 \in 1 .. Len(lockq)
    <3>1. lockq \in Seq(StoreOp)
      BY DEF InboxInv, TypeOK, StoreTypeOK
    <3> QED
      BY <1>2, <3>1, HeadTailProperties, EmptySeq, LenProperties
  <2>2. op.topic \in Topic /\ op.id \in Nat
    BY <2>1, QueueItem DEF InboxInv
  <2>3. /\ op.kind = "append" => /\ 0 < op.id /\ op.id <= posted
                                 /\ \A m \in disk[op.topic] \cup handed[op.topic] : m < op.id
        /\ op.kind = "ack" => op.id \in handed[op.topic]
    BY <2>1 DEF InboxInv, QueueOrdered
  <2>4. posted \in Nat
    BY DEF InboxInv, TypeOK
  <2> HIDE DEF op
  <2>5. CASE /\ op.kind = "append"
             /\ AppendSync(op.topic, op.id) \/ AppendUntrimmed(op.topic, op.id)
    <3>1. op.id \in 1 .. posted
      BY <2>2, <2>3, <2>4, <2>5
    <3> QED
      BY <2>2, <2>3, <2>5, <3>1
  <2>6. CASE op.kind = "ack" /\ AckSync(op.topic, op.id)
    BY <2>2, <2>3, <2>6
  <2> QED
    BY <1>2, <2>5, <2>6 DEF op
<1> QED
  BY <1>1, <1>2 DEF Crash

LEMMA InvCrash == ASSUME InboxInv, Crash PROVE InboxInv'
<1>1. TypeOK'
  BY TypeCrash DEF InboxInv
<1>2. /\ UNCHANGED <<held, handed, posted>> /\ lockq' = <<>>
      /\ \A t \in Topic : ram'[t] = {} /\ failed'[t] = {}
  BY DEF Crash
<1>3. RamIsTail'
  BY <1>2 DEF RamIsTail
<1>4. QueueOrdered'
  <2>1. Len(lockq') = 0
    BY <1>2
  <2> QED
    BY <2>1 DEF QueueOrdered
<1>5. ASSUME NEW t \in Topic, NEW m \in disk'[t]
      PROVE  m <= posted
  <2>0. posted \in Nat /\ disk \in [Topic -> SUBSET Nat]
        /\ \A u \in Topic : \A x \in disk[u] : x <= posted
    BY DEF InboxInv, TypeOK, StoreTypeOK, Bookkeeping
  <2>1. CASE UNCHANGED disk
    BY <1>5, <2>0, <2>1
  <2>2. ASSUME NEW u \in Topic, NEW n \in 1 .. posted,
               AppendSync(u, n) \/ AppendUntrimmed(u, n)
        PROVE  m <= posted
    <3>1. Retain(disk[u] \cup {n}) \subseteq disk[u] \cup {n}
      BY DEF Retain, Newest
    <3>2. m \in disk[t] \/ m = n
      BY <1>5, <2>0, <2>2, <3>1 DEF AppendSync, AppendUntrimmed
    <3> QED
      BY <2>0, <3>2
  <2>3. ASSUME NEW u \in Topic, NEW n, AckSync(u, n)
        PROVE  m <= posted
    BY <1>5, <2>0, <2>3 DEF AckSync, Readable
  <2> QED
    BY <2>1, <2>2, <2>3, CrashedDisk
<1>6. Bookkeeping'
  <2>1. \A t \in Topic : Cardinality(failed'[t]) <= MaxFails
    <3>1. Cardinality({}) = 0 /\ 0 <= MaxFails
      BY FS_EmptySet, RoomAssumption
    <3> QED
      BY <1>2, <3>1, Zenon
  <2>2. \A t \in Topic : \A m \in disk'[t] \cup ram'[t] \cup handed'[t] \cup failed'[t] :
                          m <= posted'
    BY <1>2, <1>5 DEF InboxInv, Bookkeeping
  <2> QED
    BY <1>2, <2>1, <2>2 DEF InboxInv, Bookkeeping
<1> QED
  BY <1>1, <1>3, <1>4, <1>6 DEF InboxInv

(* Start: the buffers are the newest MaxLen records of the files.           *)
LEMMA InvStart == ASSUME InboxInv, Start PROVE InboxInv'
<1>1. TypeOK'
  BY TypeStart DEF InboxInv
<1>2. UNCHANGED <<disk, lockq, held, handed, failed, posted>> /\ up' = TRUE /\ lockq = <<>>
  BY DEF Start, storeVars, proxyVars, InboxInv, Bookkeeping
<1>3. RamIsTail'
  <2> SUFFICES ASSUME NEW t \in Topic
               PROVE  /\ ram'[t] \subseteq disk[t]
                      /\ \A x \in ram'[t], y \in Readable(t) : y > x => y \in ram'[t]
    BY <1>2 DEF RamIsTail, Readable
  <2> DEFINE R == Retain(Readable(t))
  <2>1. ram'[t] = Newest(R, MaxLen)
    BY DEF Start, RestoreFromStore, ReadAllSync
  <2>2. /\ Readable(t) \in SUBSET Nat /\ Readable(t) \subseteq disk[t]
        /\ posted \in Nat /\ \A z \in Readable(t) : z <= posted
    BY Posted DEF Readable
  <2>3. R \in SUBSET Readable(t) /\ \A x \in R, y \in Readable(t) : y > x => y \in R
    BY <2>2, RetainUpClosed
  <2> HIDE DEF R
  <2>4. R \in SUBSET Nat /\ \A z \in R : z <= posted
    BY <2>2, <2>3
  <2>5. Newest(R, MaxLen) \subseteq R
    BY DEF Newest
  <2>6. ASSUME NEW x \in Newest(R, MaxLen), NEW y \in Readable(t), y > x
        PROVE  y \in Newest(R, MaxLen)
    <3>1. y \in R
      BY <2>3, <2>5, <2>6
    <3> QED
      BY <2>2, <2>4, <2>6, <3>1, NewestUpClosed, EngineAssumption
  <2> QED
    BY <2>1, <2>2, <2>3, <2>5, <2>6
<1>4. QueueOrdered'
  <2>1. Len(lockq') = 0
    BY <1>2
  <2> QED
    BY <2>1 DEF QueueOrdered
<1>5. Bookkeeping'
  <2>1. \A t \in Topic : ram'[t] \subseteq disk[t]
    BY DEF Start, RestoreFromStore, ReadAllSync, Readable, Retain, Newest
  <2> QED
    BY <1>2, <2>1 DEF InboxInv, Bookkeeping
<1> QED
  BY <1>1, <1>3, <1>4, <1>5 DEF InboxInv

LEMMA InvWatch == ASSUME InboxInv, NEW w \in Watcher, Watch(w) PROVE InboxInv'
<1>1. TypeOK'
  BY TypeWatch DEF InboxInv
<1>2. UNCHANGED <<disk, lockq, handed, held, failed, posted, up>>
  BY DEF Watch, WatchEnter, WatchWake, PushOk, PushRetry, PushFail, PushOver,
         storeVars, proxyVars, worldVars
<1>3. \A t \in Topic : ram'[t] = ram[t] \/ ram'[t] = {}
  BY DEF Watch, WatchEnter, WatchWake, PushOk, PushRetry, PushFail, PushOver,
         WaitEnter, WaitWake, ClearRamBuffer, engineVars, InboxInv, TypeOK, EngineTypeOK
<1> QED
  BY <1>1, <1>2, <1>3, InvFrame

LEMMA InvQuiet ==
  ASSUME InboxInv, NEW p \in Proxy,
         CallRead(p) \/ AckOfNothing(p) \/ Return(p) \/ GiveUp(p)
  PROVE  InboxInv'
<1>1. TypeOK'
  BY TypeProxy DEF InboxInv, Dispatch
<1>2. UNCHANGED <<disk, lockq, ram, handed, failed, posted, up>>
  BY DEF CallRead, AckOfNothing, Return, GiveUp, storeVars, engineVars, worldVars
<1>3. \A q \in Proxy : held'[q] = held[q] \/ held'[q] = {}
  BY DEF CallRead, AckOfNothing, Return, GiveUp, InboxInv, TypeOK
<1> QED
  BY <1>1, <1>2, <1>3, InvFrame

LEMMA InvStep == InboxInv /\ [Next]_vars => InboxInv'
<1> SUFFICES ASSUME InboxInv, [Next]_vars PROVE InboxInv'
  OBVIOUS
<1>1. CASE UNCHANGED vars
  <2>1. TypeOK'
    BY <1>1, TypeStep DEF InboxInv
  <2>2. UNCHANGED <<disk, lockq, ram, handed, held, failed, posted, up>>
    BY <1>1 DEF vars, storeVars, engineVars, proxyVars, worldVars
  <2> QED
    BY <2>1, <2>2, InvFrame
<1>2. CASE Serve
  BY <1>2, InvServeAppend, InvServeRead, InvServeAck, InvServeError DEF Serve
<1>3. ASSUME NEW p \in Proxy,
             CallRead(p) \/ Dispatch(p) \/ Return(p) \/ GiveUp(p) \/ ProxyKilled(p)
      PROVE  InboxInv'
  BY <1>3, InvQuiet, InvPeekFromRam, InvPeekFromStore, InvAckAfterPeek, InvProxyKilled
     DEF Dispatch
<1> QED
  BY <1>1, <1>2, <1>3, InvPost, InvWatch, InvCrash, InvStart DEF Next

(* The inductive invariant: types, the buffer a tail of the file, the queue *)
(* in the order of the ids, and the bookkeeping of who holds what.          *)
THEOREM InvCorrect == Spec => []InboxInv
BY InvInit, InvStep, PTL DEF Spec

(* The RAM buffer of a topic is the newest part of its file, through every  *)
(* interleaving of handle, ack, push and restore, every crash and every     *)
(* error: but for the records whose append raised after the write, which    *)
(* RAM lacks, and the unreadable ones, which an ack takes from the file.    *)
THEOREM BufferIsTail == Spec => []RamIsTail
<1>1. InboxInv => RamIsTail
  BY DEF InboxInv
<1> QED
  BY <1>1, InvCorrect, PTL

-----------------------------------------------------------------------------
(* No lost wakeup.                                                          *)

LEMMA SleepStep == TypeOK /\ SleepsOnlyWhenEmpty /\ [Next]_vars => SleepsOnlyWhenEmpty'
<1> SUFFICES ASSUME TypeOK, SleepsOnlyWhenEmpty, [Next]_vars
             PROVE  SleepsOnlyWhenEmpty'
  OBVIOUS
<1> DEFINE Quiet == /\ up' = up
                    /\ wpc' = wpc
                    /\ \A t \in Topic : ram'[t] \subseteq ram[t]
<1>0. WatchTopic \in [Watcher -> Topic]
  BY EngineAssumption
<1>1. CASE Quiet
  BY <1>0, <1>1 DEF SleepsOnlyWhenEmpty
<1>2. CASE UNCHANGED vars
  BY <1>1, <1>2 DEF vars, engineVars, worldVars
<1>3. CASE \E t \in Topic : Post(t)
  BY <1>1, <1>3 DEF Post, HandleRequest, engineVars
<1>4. CASE Serve
  <2>1. CASE ServeAppend
    <3> DEFINE op == Head(lockq)
    <3>1. /\ ram' = [ram EXCEPT ![op.topic] = Newest(@ \cup {op.id}, MaxLen)]
          /\ SetEvent(op.topic) /\ up' = up
      BY <2>1 DEF ServeAppend, HandleStored, worldVars
    <3> HIDE DEF op
    <3>2. ASSUME NEW w \in Watcher, wpc'[w] = "blocked"
          PROVE  wpc[w] = "blocked" /\ ram'[WatchTopic[w]] = ram[WatchTopic[w]]
      <4>1. wpc'[w] = IF WatchTopic[w] = op.topic /\ wpc[w] = "blocked"
                        THEN "woken" ELSE wpc[w]
        BY <3>1 DEF SetEvent
      <4>2. wpc[w] = "blocked" /\ WatchTopic[w] # op.topic
        BY <3>2, <4>1
      <4> QED
        BY <1>0, <3>1, <4>2 DEF TypeOK, EngineTypeOK
    <3> QED
      BY <3>1, <3>2 DEF SleepsOnlyWhenEmpty
  <2>2. CASE ServeRead \/ ServeAck \/ ServeError
    BY <1>1, <2>2 DEF ServeRead, ServeAck, ServeError, engineVars, worldVars
  <2> QED
    BY <1>4, <2>1, <2>2 DEF Serve
<1>5. ASSUME NEW w \in Watcher, Watch(w)
      PROVE  SleepsOnlyWhenEmpty'
  <2>0. up' = up /\ WatchTopic[w] \in Topic
    BY <1>0, <1>5 DEF Watch, worldVars
  <2>1. CASE WatchEnter(w)
    <3>1. UNCHANGED ram /\ wpc' = [wpc EXCEPT ![w] = IF ram[WatchTopic[w]] # {}
                                                      THEN "push" ELSE "blocked"]
      BY <2>1 DEF WatchEnter, WaitEnter
    <3>2. ASSUME NEW v \in Watcher, wpc'[v] = "blocked"
          PROVE  (v = w /\ ram[WatchTopic[w]] = {}) \/ wpc[v] = "blocked"
      BY <3>1, <3>2 DEF TypeOK, EngineTypeOK
    <3> QED
      BY <2>0, <3>1, <3>2 DEF SleepsOnlyWhenEmpty
  <2>2. CASE WatchWake(w)
    <3>1. UNCHANGED ram /\ wpc' = [wpc EXCEPT ![w] = IF ram[WatchTopic[w]] # {}
                                                      THEN "push" ELSE "enter"]
      BY <2>2 DEF WatchWake, WaitWake
    <3>2. \A v \in Watcher : wpc'[v] = "blocked" => wpc[v] = "blocked"
      BY <3>1 DEF TypeOK, EngineTypeOK
    <3> QED
      BY <2>0, <3>1, <3>2 DEF SleepsOnlyWhenEmpty
  <2>3. CASE PushOk(w) \/ PushFail(w)
    <3>1. ram' = [ram EXCEPT ![WatchTopic[w]] = {}] /\ wpc' = [wpc EXCEPT ![w] = "enter"]
      BY <2>3 DEF PushOk, PushFail, PushOver, ClearRamBuffer
    <3>2. \A v \in Watcher : wpc'[v] = "blocked" => wpc[v] = "blocked"
      BY <3>1 DEF TypeOK, EngineTypeOK
    <3>3. \A t \in Topic : ram[t] = {} => ram'[t] = {}
      BY <3>1 DEF TypeOK, EngineTypeOK
    <3> QED
      BY <1>0, <2>0, <3>2, <3>3 DEF SleepsOnlyWhenEmpty
  <2>4. CASE PushRetry(w)
    BY <1>1, <2>0, <2>4 DEF PushRetry, engineVars
  <2> QED
    BY <1>5, <2>1, <2>2, <2>3, <2>4 DEF Watch
<1>6. ASSUME NEW p \in Proxy,
             CallRead(p) \/ Dispatch(p) \/ Return(p) \/ GiveUp(p) \/ ProxyKilled(p)
      PROVE  SleepsOnlyWhenEmpty'
  <2>1. up' = up /\ wpc' = wpc
    BY <1>6 DEF CallRead, Dispatch, Return, GiveUp, ProxyKilled, PeekFromRam, PeekFromStore,
                AckAfterPeek, AckOfNothing, AckRequest, engineVars, worldVars
  <2>2. \A t \in Topic : ram'[t] \subseteq ram[t]
    BY <1>6 DEF CallRead, Dispatch, Return, GiveUp, ProxyKilled, PeekFromRam, PeekFromStore,
                AckAfterPeek, AckOfNothing, AckRequest, engineVars, TypeOK, EngineTypeOK
  <2> QED
    BY <1>1, <2>1, <2>2
<1>7. CASE Crash
  BY <1>7 DEF Crash, SleepsOnlyWhenEmpty
<1>8. CASE Start
  BY <1>8 DEF Start, RestoreFromStore, SleepsOnlyWhenEmpty
<1> QED
  BY <1>2, <1>3, <1>4, <1>5, <1>6, <1>7, <1>8 DEF Next

(* A watcher that sleeps in ev.wait() has nothing to push.                  *)
THEOREM NoLostWakeup == Spec => []SleepsOnlyWhenEmpty
<1>1. Init => SleepsOnlyWhenEmpty
  BY EngineAssumption DEF Init, EngineInit, SleepsOnlyWhenEmpty
<1> QED
  BY <1>1, TypeInit, TypeStep, SleepStep, PTL DEF Spec

-----------------------------------------------------------------------------
(* One push attempt per message.                                            *)

(* The message m of topic t waits to be stored.                             *)
Waits(t, m) == \E i \in 1 .. Len(lockq) :
                 lockq[i].kind = "append" /\ lockq[i].topic = t /\ lockq[i].id = m

(* What is queued changes nothing about what waits, the message aside that  *)
(* an append is about; what leaves the queue adds nothing.                  *)
LEMMA WaitsSubmit ==
  ASSUME lockq \in Seq(StoreOp), NEW kind \in {"append", "read", "ack"},
         NEW t \in Topic, NEW m \in Nat, NEW p \in Proxy \cup {NoProxy},
         Submit(kind, t, m, p), NEW u, NEW n, Waits(u, n)'
  PROVE  Waits(u, n) \/ (kind = "append" /\ u = t /\ n = m)
<1>1. Len(lockq) \in Nat /\ Len(lockq') = Len(lockq) + 1
  BY SubmitQueue, LenProperties
<1>2. PICK i \in 1 .. Len(lockq') :
        lockq'[i].kind = "append" /\ lockq'[i].topic = u /\ lockq'[i].id = n
  BY DEF Waits
<1>3. CASE i \in 1 .. Len(lockq)
  BY <1>2, <1>3, SubmitQueue DEF Waits
<1>4. CASE i = Len(lockq) + 1
  <2>1. lockq'[i] = [kind |-> kind, topic |-> t, id |-> m, by |-> p]
    BY <1>4, SubmitQueue
  <2> QED
    BY <1>2, <2>1
<1> QED
  BY <1>1, <1>2, <1>3, <1>4

LEMMA WaitsRelease ==
  ASSUME lockq \in Seq(StoreOp), lockq # <<>>, Release, NEW u, NEW n, Waits(u, n)'
  PROVE  Waits(u, n)
<1>1. PICK i \in 1 .. Len(lockq') :
        lockq'[i].kind = "append" /\ lockq'[i].topic = u /\ lockq'[i].id = n
  BY DEF Waits
<1>2. i + 1 \in 1 .. Len(lockq) /\ lockq'[i] = lockq[i + 1]
  BY ReleaseQueue
<1> QED
  BY <1>1, <1>2 DEF Waits

LEMMA WaitsOrphan ==
  ASSUME lockq \in Seq(StoreOp), NEW p \in Proxy, Orphan(p), NEW u, NEW n, Waits(u, n)'
  PROVE  Waits(u, n)
BY OrphanQueue DEF Waits

(* What TakenUp says of the queue.                                          *)
LEMMA TakenIsOlder ==
  ASSUME TakenUp, NEW w \in Watcher, NEW m \in offered[w], NEW n,
         Waits(WatchTopic[w], n)
  PROVE  m < n
BY DEF TakenUp, Waits

(* A step that offers nothing keeps TakenUp when nothing of what was offered *)
(* returns to RAM and no more waits than before, but a message newer than   *)
(* the last one posted.                                                     *)
LEMMA TakenFrame ==
  ASSUME TypeOK, TypeOK', TakenUp, posted' >= posted,
         \A w \in Watcher : /\ offered'[w] \subseteq offered[w]
                            /\ ~up' => offered'[w] = {}
                            /\ wpc'[w] # "push" =>
                                 ram'[WatchTopic[w]] \cap offered'[w] = {},
         \A u \in Topic, n \in Nat : Waits(u, n)' => Waits(u, n) \/ n > posted
  PROVE  TakenUp'
<1> SUFFICES ASSUME NEW w \in Watcher
             PROVE  /\ \A m \in offered'[w] : m <= posted'
                    /\ \A i \in 1 .. Len(lockq'), m \in offered'[w] :
                         lockq'[i].kind = "append" /\ lockq'[i].topic = WatchTopic[w]
                           => m < lockq'[i].id
  BY DEF TakenUp
<1>0. /\ offered[w] \in SUBSET Nat /\ posted \in Nat /\ posted' \in Nat
      /\ WatchTopic[w] \in Topic /\ lockq' \in Seq(StoreOp)
  BY EngineAssumption DEF TypeOK, BridgeTypeOK, StoreTypeOK
<1>1. ASSUME NEW m \in offered'[w]
      PROVE  m \in offered[w] /\ m \in Nat /\ m <= posted /\ m <= posted'
  <2>1. m \in offered[w]
    OBVIOUS
  <2>2. m \in Nat /\ m <= posted
    BY <1>0, <2>1 DEF TakenUp
  <2> QED
    BY <1>0, <2>1, <2>2
<1>2. ASSUME NEW i \in 1 .. Len(lockq'), NEW m \in offered'[w],
             lockq'[i].kind = "append", lockq'[i].topic = WatchTopic[w]
      PROVE  m < lockq'[i].id
  <2>1. PICK n \in Nat : n = lockq'[i].id
    <3>1. lockq'[i] \in StoreOp
      BY <1>0, ElementOfSeq
    <3> QED
      BY <3>1 DEF StoreOp
  <2>2. \A u : u = WatchTopic[w] => Waits(u, n)'
    BY <1>2, <2>1 DEF Waits
  <2>3. PICK u \in Topic : u = WatchTopic[w]
    BY <1>0
  <2>4. Waits(u, n) \/ n > posted
    BY <2>2, <2>3
  <2>5. m < n
    BY <1>0, <1>1, <2>1, <2>3, <2>4, TakenIsOlder
  <2> QED
    BY <2>1, <2>5
<1> QED
  BY <1>1, <1>2

LEMMA TakenServe == ASSUME InboxInv, InboxInv', TakenUp, Serve PROVE TakenUp'
<1> DEFINE op == Head(lockq)
<1>1. /\ TypeOK /\ TypeOK' /\ lockq \in Seq(StoreOp) /\ posted \in Nat
      /\ lockq # <<>> /\ Release
      /\ UNCHANGED <<offered, up, posted>>
  BY DEF InboxInv, TypeOK, StoreTypeOK, Serve, ServeAppend, ServeRead, ServeAck,
         ServeError, bridgeVars, worldVars
<1>2. \A u \in Topic, n \in Nat : Waits(u, n)' => Waits(u, n) \/ n > posted
  BY <1>1, WaitsRelease
<1>3. ASSUME NEW w \in Watcher, wpc'[w] # "push"
      PROVE  ram'[WatchTopic[w]] \cap offered[w] = {}
  <2>0. WatchTopic[w] \in Topic
    BY EngineAssumption
  <2>1. CASE ServeAppend
    <3>1. /\ ram' = [ram EXCEPT ![op.topic] = Newest(@ \cup {op.id}, MaxLen)]
          /\ SetEvent(op.topic) /\ op.kind = "append"
      BY <2>1 DEF ServeAppend, HandleStored
    <3>2. op = lockq[1] /\ 1 \in 1 .. Len(lockq) /\ op \in StoreOp
      BY <1>1, ReleaseQueue
    <3> HIDE DEF op
    <3>3. wpc[w] # "push"
      BY <1>3, <3>1 DEF SetEvent
    <3>4. ram[WatchTopic[w]] \cap offered[w] = {}
      BY <3>3 DEF TakenUp
    <3>5. op.topic = WatchTopic[w] => op.id \notin offered[w]
      <4>1. op.id \in Nat
        BY <3>2 DEF StoreOp
      <4>2. op.topic = WatchTopic[w] => \A m \in offered[w] : m < op.id
        BY <3>1, <3>2 DEF TakenUp
      <4> QED
        BY <4>1, <4>2
    <3>6. \/ ram'[WatchTopic[w]] = ram[WatchTopic[w]]
          \/ /\ op.topic = WatchTopic[w]
             /\ ram'[WatchTopic[w]] \subseteq ram[WatchTopic[w]] \cup {op.id}
      BY <1>1, <2>0, <3>1 DEF TypeOK, EngineTypeOK, Newest
    <3> QED
      BY <3>4, <3>5, <3>6
  <2>2. CASE ServeRead \/ ServeAck \/ ServeError
    <3>1. UNCHANGED <<ram, wpc>>
      BY <2>2 DEF ServeRead, ServeAck, ServeError, engineVars
    <3> QED
      BY <1>3, <3>1 DEF TakenUp
  <2> QED
    BY <2>1, <2>2 DEF Serve
<1>4. \A w \in Watcher : ~up => offered[w] = {}
  BY DEF TakenUp
<1>5. /\ posted' >= posted
      /\ \A w \in Watcher : /\ offered'[w] \subseteq offered[w]
                            /\ ~up' => offered'[w] = {}
                            /\ wpc'[w] # "push" =>
                                 ram'[WatchTopic[w]] \cap offered'[w] = {}
  BY <1>1, <1>3, <1>4
<1> HIDE DEF op
<1> QED
  BY <1>1, <1>2, <1>5, TakenFrame

LEMMA TakenPost == ASSUME InboxInv, InboxInv', TakenUp, NEW t \in Topic, Post(t) PROVE TakenUp'
<1>1. /\ TypeOK /\ TypeOK' /\ posted \in Nat /\ posted' = posted + 1
      /\ UNCHANGED <<ram, wpc, offered, up>>
  BY DEF InboxInv, TypeOK, Post, HandleRequest, engineVars, bridgeVars
<1>2. ASSUME NEW u \in Topic, NEW n \in Nat, Waits(u, n)'
      PROVE  Waits(u, n) \/ n > posted
  <2>1. CASE up
    <3>1. Submit("append", t, posted + 1, NoProxy) /\ posted + 1 \in Nat
      BY <1>1, <2>1 DEF Post, HandleRequest
    <3>2. lockq \in Seq(StoreOp)
      BY <1>1 DEF TypeOK, StoreTypeOK
    <3>3. Waits(u, n) \/ n = posted + 1
      BY <1>2, <3>1, <3>2, WaitsSubmit
    <3> QED
      BY <1>1, <3>3
  <2>2. CASE ~up
    BY <1>2, <2>2 DEF Post, storeVars, Waits
  <2> QED
    BY <2>1, <2>2
<1>3. /\ posted' >= posted
      /\ \A w \in Watcher : /\ offered'[w] \subseteq offered[w]
                            /\ ~up' => offered'[w] = {}
                            /\ wpc'[w] # "push" =>
                                 ram'[WatchTopic[w]] \cap offered'[w] = {}
  BY <1>1 DEF TakenUp
<1> QED
  BY <1>1, <1>2, <1>3, TakenFrame

LEMMA TakenProxy ==
  ASSUME InboxInv, InboxInv', TakenUp, NEW p \in Proxy,
         CallRead(p) \/ Dispatch(p) \/ Return(p) \/ GiveUp(p) \/ ProxyKilled(p)
  PROVE  TakenUp'
<1>1. TypeOK /\ TypeOK' /\ posted \in Nat /\ lockq \in Seq(StoreOp)
  BY DEF InboxInv, TypeOK, StoreTypeOK
<1>2. UNCHANGED <<wpc, offered, up, posted>>
  BY DEF CallRead, Dispatch, Return, GiveUp, ProxyKilled, PeekFromRam, PeekFromStore,
         AckAfterPeek, AckOfNothing, AckRequest, engineVars, bridgeVars, worldVars
<1>3. \A t \in Topic : ram'[t] \subseteq ram[t]
  BY <1>1 DEF CallRead, Dispatch, Return, GiveUp, ProxyKilled, PeekFromRam, PeekFromStore,
              AckAfterPeek, AckOfNothing, AckRequest, engineVars, TypeOK, EngineTypeOK
<1>4. \/ UNCHANGED lockq
      \/ Orphan(p)
      \/ Submit("read", ProxyTopic[p], 0, p)
      \/ \E last \in held[p] : Submit("ack", ProxyTopic[p], last, p)
  BY DEF CallRead, Dispatch, Return, GiveUp, ProxyKilled, PeekFromRam, PeekFromStore,
         AckAfterPeek, AckOfNothing, AckRequest, storeVars
<1>5. ASSUME NEW u \in Topic, NEW n \in Nat, Waits(u, n)'
      PROVE  Waits(u, n)
  <2>1. ProxyTopic[p] \in Topic /\ held[p] \in SUBSET Nat
    BY <1>1, InboxAssumption DEF TypeOK
  <2>2. CASE UNCHANGED lockq
    BY <1>5, <2>2 DEF Waits
  <2>3. CASE Orphan(p)
    BY <1>1, <1>5, <2>3, WaitsOrphan
  <2>4. CASE Submit("read", ProxyTopic[p], 0, p)
    BY <1>1, <1>5, <2>1, <2>4, WaitsSubmit
  <2>5. ASSUME NEW last \in held[p], Submit("ack", ProxyTopic[p], last, p)
        PROVE  Waits(u, n)
    <3>1. last \in Nat
      BY <2>1
    <3> QED
      BY <1>1, <1>5, <2>1, <2>5, <3>1, WaitsSubmit
  <2> QED
    BY <1>4, <2>2, <2>3, <2>4, <2>5
<1>6. ASSUME NEW w \in Watcher
      PROVE  /\ offered'[w] \subseteq offered[w]
             /\ ~up' => offered'[w] = {}
             /\ wpc'[w] # "push" => ram'[WatchTopic[w]] \cap offered'[w] = {}
  <2>1. ram'[WatchTopic[w]] \subseteq ram[WatchTopic[w]]
    BY <1>3, EngineAssumption
  <2> QED
    BY <1>2, <2>1 DEF TakenUp
<1>7. posted' >= posted
  BY <1>1, <1>2
<1> QED
  BY <1>1, <1>5, <1>6, <1>7, TakenFrame

(* What a watcher takes up is stored, and what waits is newer; what it had  *)
(* taken up before is not in RAM any more.                                  *)
LEMMA TakenWatch == ASSUME InboxInv, InboxInv', TakenUp, NEW w \in Watcher, Watch(w) PROVE TakenUp'
<1> DEFINE t == WatchTopic[w]
<1>0. /\ TypeOK /\ TypeOK' /\ posted \in Nat /\ t \in Topic
      /\ up /\ UNCHANGED <<lockq, up, posted>>
  BY EngineAssumption
     DEF InboxInv, TypeOK, Watch, WatchEnter, WatchWake, PushOk, PushRetry, PushFail,
         PushOver, storeVars, worldVars
<1>1. CASE WatchEnter(w) \/ WatchWake(w)
  <2>1. UNCHANGED ram /\ wpc[w] # "push"
    BY <1>1 DEF WatchEnter, WatchWake, WaitEnter, WaitWake
  <2>2. \A v \in Watcher : v # w => wpc'[v] = wpc[v] /\ offered'[v] = offered[v]
    BY <1>0, <1>1 DEF WatchEnter, WatchWake, WaitEnter, WaitWake, TakeBatch,
                      TypeOK, EngineTypeOK, BridgeTypeOK
  <2>3. \/ wpc'[w] = "push" /\ offered'[w] = offered[w] \cup ram[t]
        \/ wpc'[w] # "push" /\ offered'[w] = offered[w] /\ ram[t] = {}
    BY <1>0, <1>1 DEF WatchEnter, WatchWake, WaitEnter, WaitWake, TakeBatch,
                      TypeOK, EngineTypeOK, BridgeTypeOK
  <2>4. \A m \in ram[t] :
          /\ m <= posted
          /\ \A i \in 1 .. Len(lockq) :
               lockq[i].kind = "append" /\ lockq[i].topic = t => m < lockq[i].id
    BY <1>0 DEF InboxInv, QueueOrdered, Bookkeeping
  <2> HIDE DEF t
  <2>5. t = WatchTopic[w]
    BY DEF t
  <2>6. ASSUME NEW v \in Watcher
        PROVE  /\ ~up' => offered'[v] = {}
               /\ \A m \in offered'[v] : m <= posted'
               /\ wpc'[v] # "push" => ram'[WatchTopic[v]] \cap offered'[v] = {}
               /\ \A i \in 1 .. Len(lockq'), m \in offered'[v] :
                    lockq'[i].kind = "append" /\ lockq'[i].topic = WatchTopic[v]
                      => m < lockq'[i].id
    <3>1. CASE v = w
      BY <1>0, <2>1, <2>3, <2>4, <2>5, <3>1 DEF TakenUp
    <3>2. CASE v # w
      BY <1>0, <2>1, <2>2, <3>2 DEF TakenUp
    <3> QED
      BY <3>1, <3>2
  <2> QED
    BY <2>6 DEF TakenUp
<1>2. CASE PushOk(w) \/ PushRetry(w) \/ PushFail(w)
  <2>1. /\ UNCHANGED offered
        /\ \A u \in Topic : ram'[u] \subseteq ram[u]
        /\ \A v \in Watcher : wpc'[v] = wpc[v] \/ (v = w /\ ram'[t] = {})
    BY <1>0, <1>2 DEF PushOk, PushRetry, PushFail, PushOver, ClearRamBuffer, engineVars,
                      TypeOK, EngineTypeOK
  <2>2. ASSUME NEW v \in Watcher
        PROVE  /\ offered'[v] \subseteq offered[v]
               /\ ~up' => offered'[v] = {}
               /\ wpc'[v] # "push" => ram'[WatchTopic[v]] \cap offered'[v] = {}
    <3>1. ram'[WatchTopic[v]] \subseteq ram[WatchTopic[v]]
      BY <2>1, EngineAssumption
    <3> QED
      BY <1>0, <2>1, <3>1 DEF TakenUp
  <2>3. posted' >= posted /\ \A u \in Topic, n \in Nat : Waits(u, n)' => Waits(u, n)
    BY <1>0 DEF Waits
  <2> HIDE DEF t
  <2> QED
    BY <1>0, <2>2, <2>3, TakenFrame
<1> QED
  BY <1>1, <1>2 DEF Watch

LEMMA TakenDeath == ASSUME InboxInv, InboxInv', TakenUp, Crash \/ Start PROVE TakenUp'
<1>1. TypeOK /\ TypeOK' /\ posted \in Nat /\ posted' = posted
  BY DEF InboxInv, TypeOK, Crash, Start
<1>2. \A w \in Watcher : offered'[w] = {}
  BY DEF Crash, Start, BridgeReset, bridgeVars, TakenUp
<1> QED
  BY <1>2 DEF TakenUp

LEMMA TakenStep == InboxInv /\ TakenUp /\ [Next]_vars => TakenUp'
<1> SUFFICES ASSUME InboxInv, TakenUp, [Next]_vars PROVE TakenUp'
  OBVIOUS
<1>1. InboxInv'
  BY InvStep
<1>2. CASE UNCHANGED vars
  BY <1>2 DEF TakenUp, vars, storeVars, engineVars, bridgeVars, worldVars
<1>3. ASSUME NEW p \in Proxy,
             CallRead(p) \/ Dispatch(p) \/ Return(p) \/ GiveUp(p) \/ ProxyKilled(p)
      PROVE  TakenUp'
  BY <1>1, <1>3, TakenProxy
<1>4. CASE Serve
  BY <1>1, <1>4, TakenServe
<1> QED
  BY <1>1, <1>2, <1>3, <1>4, TakenPost, TakenWatch, TakenDeath DEF Next

(* The batch of a push is what RAM held when the watcher came for it, and   *)
(* TakenUp says that none of it had been taken up before.                   *)
LEMMA PushStep ==
  ASSUME TypeOK, TakenUp, [Next]_vars, NEW w \in Watcher, wpc[w] # "push", wpc'[w] = "push"
  PROVE  batch'[w] \cap offered[w] = {}
<1>1. ASSUME NEW v \in Watcher, Watch(v)
      PROVE  v = w /\ (WatchEnter(w) \/ WatchWake(w))
  <2>1. CASE WatchEnter(v) \/ WatchWake(v)
    BY <2>1 DEF WatchEnter, WatchWake, WaitEnter, WaitWake, TypeOK, EngineTypeOK
  <2>2. CASE PushOk(v) \/ PushRetry(v) \/ PushFail(v)
    BY <2>2 DEF PushOk, PushRetry, PushFail, PushOver, engineVars, TypeOK, EngineTypeOK
  <2> QED
    BY <1>1, <2>1, <2>2 DEF Watch
<1>2. CASE \E v \in Watcher : Watch(v)
  <2>1. WatchEnter(w) \/ WatchWake(w)
    BY <1>1, <1>2
  <2>2. batch'[w] = ram[WatchTopic[w]]
    BY <2>1 DEF WatchEnter, WatchWake, TakeBatch, TypeOK, BridgeTypeOK
  <2> QED
    BY <2>2 DEF TakenUp
<1>3. CASE Serve
  BY <1>3 DEF Serve, ServeAppend, ServeRead, ServeAck, ServeError, HandleStored, SetEvent,
              engineVars
<1>4. CASE \E t \in Topic : Post(t)
  BY <1>4 DEF Post, HandleRequest, engineVars
<1>5. ASSUME NEW p \in Proxy,
             CallRead(p) \/ Dispatch(p) \/ Return(p) \/ GiveUp(p) \/ ProxyKilled(p)
      PROVE  UNCHANGED wpc
  BY <1>5 DEF CallRead, Dispatch, Return, GiveUp, ProxyKilled, PeekFromRam, PeekFromStore,
              AckAfterPeek, AckOfNothing, AckRequest, engineVars
<1>6. CASE Crash \/ Start
  BY <1>6 DEF Crash, Start, RestoreFromStore
<1>7. CASE UNCHANGED vars
  BY <1>7 DEF vars, engineVars
<1> QED
  BY <1>2, <1>3, <1>4, <1>5, <1>6, <1>7 DEF Next

(* "exactly ONE push attempt": in the life of one daemon a watcher takes a  *)
(* message up at most once, whatever readers acknowledge, whatever RAM      *)
(* drops, and however many watchers share the topic.                        *)
THEOREM OnePush == Spec => NoSecondPush
<1>1. Init => TakenUp
  BY DEF Init, StoreInit, BridgeInit, TakenUp
<1>2. TypeOK /\ TakenUp /\ [Next]_vars =>
        [\A w \in Watcher : wpc[w] # "push" /\ wpc'[w] = "push" =>
                              batch'[w] \cap offered[w] = {}]_vars
  BY PushStep
<1>3. InboxInv => TypeOK
  BY DEF InboxInv
<1> QED
  BY <1>1, <1>2, <1>3, InvInit, InvStep, TakenStep, PTL DEF Spec, NoSecondPush

-----------------------------------------------------------------------------
(* The inbox implements the durable mailbox.                                *)

(* An append of a record that is newer than everything is a Post.           *)
LEMMA PostRefines ==
  ASSUME NEW t \in Topic, NEW m \in 1 .. MaxMsgs, UNCHANGED handed,
         AppendSync(t, m) \/ AppendUntrimmed(t, m),
         \A x \in disk[t] \cup handed[t] : x < m
  PROVE  Abstract!Next
<1>1. ASSUME NEW S
      PROVE  Abstract!Trim(S) = Retain(S)
  <2>1. \A T : Abstract!Cardinality(T) = Cardinality(T)
    BY Zenon DEF Abstract!Cardinality, Cardinality, Abstract!IsFiniteSet, IsFiniteSet
  <2> QED
    BY <2>1 DEF Abstract!Trim, Retain, Newest
<1>2. Abstract!Post(t, m)
  BY <1>1 DEF Abstract!Post, AppendSync, AppendUntrimmed
<1> QED
  BY <1>2 DEF Abstract!Next

LEMMA SettleRefines ==
  ASSUME NEW t \in Topic, NEW m \in handed[t], AckSync(t, m), UNCHANGED handed
  PROVE  Abstract!Next
<1>1. {x \in disk[t] : x > m /\ x \notin Unreadable} = {x \in Readable(t) : x > m}
  BY DEF Readable
<1>2. Abstract!Settle(t, m)
  BY <1>1 DEF Abstract!Settle, AckSync
<1> QED
  BY <1>2 DEF Abstract!Next

(* A reply that is part of the file, unreadable messages aside, is a Grant. *)
LEMMA GrantRefines ==
  ASSUME NEW p \in Proxy, NEW S \in SUBSET (disk[ProxyTopic[p]] \cup Unreadable),
         PeekReply(p, S), UNCHANGED disk
  PROVE  Abstract!Next
BY InboxAssumption DEF Abstract!Next, Abstract!Grant, PeekReply

LEMMA RefineStep == InboxInv /\ [Next]_vars => [Abstract!Next]_(Abstract!vars)
<1> SUFFICES ASSUME InboxInv, [Next]_vars
             PROVE  Abstract!Next \/ UNCHANGED <<disk, handed>>
  BY DEF Abstract!vars
<1> DEFINE op == Head(lockq)
<1>0. posted \in Nat /\ posted <= MaxMsgs /\ MaxMsgs \in Nat
  BY InboxAssumption DEF InboxInv, TypeOK, Bookkeeping
<1>1. ASSUME lockq # <<>>
      PROVE  /\ op.topic \in Topic /\ op.id \in Nat
             /\ op.by \in Proxy => ProxyTopic[op.by] = op.topic
             /\ op.kind = "append" => /\ op.id \in 1 .. MaxMsgs
                                      /\ \A m \in disk[op.topic] \cup handed[op.topic] :
                                           m < op.id
             /\ op.kind = "ack" => op.id \in handed[op.topic]
  <2>1. op = lockq[1] /\ 1 \in 1 .. Len(lockq)
    <3>1. lockq \in Seq(StoreOp)
      BY DEF InboxInv, TypeOK, StoreTypeOK
    <3> QED
      BY <1>1, <3>1, HeadTailProperties, EmptySeq, LenProperties
  <2>2. op.kind = "append" => 0 < op.id /\ op.id <= posted
    BY <2>1 DEF InboxInv, QueueOrdered
  <2>3. op.topic \in Topic /\ op.id \in Nat
    BY <2>1, QueueItem DEF InboxInv
  <2>4. op.kind = "append" => op.id \in 1 .. MaxMsgs
    BY <1>0, <2>2, <2>3
  <2> QED
    BY <2>1, <2>3, <2>4 DEF InboxInv, QueueOrdered
<1>2. CASE ServeAppend
  BY <1>1, <1>2, PostRefines DEF ServeAppend, HandleStored, proxyVars
<1>3. CASE ServeRead
  <2>1. CASE op.by \in Proxy
    <3>1. ReadAllSync(op.topic) \in SUBSET disk[op.topic]
      BY DEF ReadAllSync, Readable, Retain, Newest
    <3>2. PeekReply(op.by, ReadAllSync(op.topic)) /\ UNCHANGED disk /\ lockq # <<>>
      BY <1>3, <2>1 DEF ServeRead
    <3> QED
      BY <1>1, <2>1, <3>1, <3>2, GrantRefines
  <2>2. CASE op.by \notin Proxy
    BY <1>3, <2>2 DEF ServeRead, proxyVars
  <2> QED
    BY <2>1, <2>2
<1>4. CASE ServeAck
  BY <1>1, <1>4, SettleRefines DEF ServeAck
<1>5. ASSUME NEW p \in Proxy, PeekFromRam(p)
      PROVE  Abstract!Next
  <2>1. ram[ProxyTopic[p]] \in SUBSET (disk[ProxyTopic[p]] \cup Unreadable)
    BY InboxAssumption DEF InboxInv, RamIsTail
  <2> QED
    BY <1>5, <2>1, GrantRefines DEF PeekFromRam, storeVars
<1>6. CASE Crash
  <2>1. UNCHANGED handed
    BY <1>6 DEF Crash
  <2>2. ASSUME NEW t \in Topic, NEW m \in 1 .. posted,
               AppendSync(t, m) \/ AppendUntrimmed(t, m),
               \A x \in disk[t] \cup handed[t] : x < m
        PROVE  Abstract!Next
    <3>1. m \in 1 .. MaxMsgs
      BY <1>0
    <3> QED
      BY <2>1, <2>2, <3>1, PostRefines
  <2> QED
    BY <1>6, <2>1, <2>2, CrashedDisk, SettleRefines
<1>7. ASSUME NEW p \in Proxy,
             \/ CallRead(p) \/ PeekFromStore(p) \/ AckAfterPeek(p) \/ AckOfNothing(p)
             \/ Return(p) \/ GiveUp(p) \/ ProxyKilled(p)
      PROVE  UNCHANGED <<disk, handed>>
  BY <1>7 DEF CallRead, PeekFromStore, AckAfterPeek, AckRequest, AckOfNothing, Return,
              GiveUp, ProxyKilled, storeVars
<1>8. ASSUME NEW w \in Watcher, Watch(w)
      PROVE  UNCHANGED <<disk, handed>>
  BY <1>8 DEF Watch, WatchEnter, WatchWake, PushOk, PushRetry, PushFail, PushOver,
              storeVars, proxyVars
<1>9. CASE Start \/ (\E t \in Topic : Post(t)) \/ UNCHANGED vars
  BY <1>9 DEF Start, Post, HandleRequest, vars, storeVars, proxyVars
<1>10. CASE ServeError
  <2>1. UNCHANGED handed /\ lockq # <<>>
    BY <1>10 DEF ServeError
  <2>2. \/ UNCHANGED disk
        \/ op.kind = "append" /\ AppendUntrimmed(op.topic, op.id)
    BY <1>10 DEF ServeError
  <2> QED
    BY <1>1, <2>1, <2>2, PostRefines
<1> QED
  BY <1>2, <1>3, <1>4, <1>5, <1>6, <1>7, <1>8, <1>9, <1>10 DEF Next, Serve, Dispatch

(* Spec => MailboxSpec: nothing leaves the files but by retention or by the *)
(* ack of something a proxy was given, crashes and errors included.         *)
THEOREM ImplementsMailbox == Spec => MailboxSpec
<1>1. Init => Abstract!Init
  BY DEF Init, StoreInit, Abstract!Init
<1>2. Spec => Abstract!Spec
  BY <1>1, InvInit, InvStep, RefineStep, PTL DEF Spec, Abstract!Spec
<1> QED
  BY <1>2 DEF MailboxSpec
=============================================================================
