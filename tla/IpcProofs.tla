----------------------------- MODULE IpcProofs ------------------------------
(***************************************************************************)
(* What TLAPS proves of module Ipc, for every set of calls, any number of   *)
(* attempts and connections, and whatever dies, hangs or is cancelled.      *)
(***************************************************************************)
EXTENDS Ipc, SequenceTheorems, FiniteSetTheorems, TLAPS

-----------------------------------------------------------------------------
(* What is on a line, as sets.                                              *)

Members(s) == {s[i] : i \in 1 .. Len(s)}
Once(s) == \A i, j \in 1 .. Len(s) : s[i] = s[j] => i = j

Asked(k) == Members(conn[k].requests)
Told(k) == {r.to : r \in Members(conn[k].replies)}

(* Something of call c is on connection k: its request, its dispatch or the *)
(* reply to it.                                                             *)
Has(k, c) == c \in Asked(k) \/ conn[k].busy = c \/ c \in Told(k)

(* The connections on which c may yet have its effect.                      *)
Lives(k, c) == c \in Asked(k) \/ (conn[k].busy = c /\ ~conn[k].done)

Live(c) == {k \in Conn : Lives(k, c)}

(* A call is left where it waits, and the writer stays.                     *)
Leaves == Cancel \/ CallTimeoutLeaves

(* The server throws away a line, or closes.                                *)
Ends(k) == Swallow(k) \/ CloseIdle(k) \/ CloseDrained(k)

(* How often c has had its effect and may yet have it.                      *)
Load(c) == Cardinality(Live(c)) + execs[c]

-----------------------------------------------------------------------------
(* The inductive invariant.                                                 *)

(* One call holds the lock, one at most makes the first connect, and a call *)
(* waits on a connection other than the writer only after that connect.     *)
Standing ==
  /\ \A c \in Call : st[c] = "active" <=> c = cur
  /\ \A c, d \in Call : st[c] = "first" /\ st[d] = "first" => c = d
  /\ \A c \in Call : st[c] = "first" => ~replaced
  /\ replaced => Begun
  /\ reader \notin {0, writer} => replaced
  /\ reader # 0 => writer # 0

(* What the states of a connection mean.                                    *)
ShapeOf(x) ==
  /\ x.st \in {"none", "closed"} => x.requests = <<>> /\ x.busy = None
  /\ x.st \in {"backlog", "draining"} => x.busy = None
  /\ x.st = "none" => x.replies = <<>>
  /\ x.busy \notin Huge

Shape ==
  /\ \A k \in {writer, reader} \ {0} : conn[k].st # "none"
  /\ \A k \in Conn : ShapeOf(conn[k])

(* A call is on a connection in one form at a time.                         *)
SinglyAt(k) ==
  /\ Once(conn[k].requests)
  /\ conn[k].busy \notin Asked(k)
  /\ \A c \in Told(k) : c \notin Asked(k) /\ conn[k].busy # c

Singly == \A k \in Conn : SinglyAt(k)

(* What has not been sent is nowhere, and the next attempt starts on a      *)
(* connection that has nothing of the call.                                 *)
Unsent ==
  /\ \A c \in Call : st[c] \in {"new", "first", "ready"} =>
       execs[c] = 0 /\ \A k \in Conn : ~Has(k, c)
  /\ pc = "send" /\ writer # 0 => ~Has(writer, cur)

(* What there has been to make a call try again, with its request taken.    *)
Excuses == crashes + timeouts + (IF replaced /\ reader \in {0, writer} THEN 1 ELSE 0)

(* A call has its effect once, and once more for every excuse.  While it    *)
(* waits, the attempt it waits for does not count unless the line still has *)
(* something of it.  Requests over the limit have no effect at all.         *)
Budget ==
  \A c \in Call \ Huge :
    /\ Load(c) <= 1 + crashes + timeouts + (IF replaced THEN 1 ELSE 0)
    /\ c = cur /\ pc = "send" => Load(c) <= Excuses
    /\ c = cur /\ pc = "read" => Load(c) <= Excuses + (IF Has(reader, c) THEN 1 ELSE 0)

(* A reply that says "ok", or is about to, speaks of an effect.             *)
Truthful ==
  \A k \in Conn :
    /\ \A r \in Members(conn[k].replies) : r.ok => execs[r.to] > 0
    /\ conn[k].busy # None /\ conn[k].done => execs[conn[k].busy] > 0

-----------------------------------------------------------------------------
(* Sequences.                                                               *)

(* Appending something new to a sequence without repetitions.               *)
LEMMA AppendMembers ==
  ASSUME NEW S, NEW s \in Seq(S), NEW x \in S
  PROVE  /\ Append(s, x) \in Seq(S)
         /\ Members(Append(s, x)) = Members(s) \cup {x}
         /\ Once(s) /\ x \notin Members(s) => Once(Append(s, x))
         /\ Len(Append(s, x)) = Len(s) + 1 /\ Len(s) \in Nat
<1>1. /\ Append(s, x) \in Seq(S) /\ Len(Append(s, x)) = Len(s) + 1
      /\ \A i \in 1 .. Len(s) : Append(s, x)[i] = s[i]
      /\ Append(s, x)[Len(s) + 1] = x
      /\ Len(s) \in Nat
  BY AppendProperties, LenProperties
<1> DEFINE t == Append(s, x)
<1> HIDE DEF t
<1>2. \A i \in 1 .. Len(t) : i \in 1 .. Len(s) \/ i = Len(s) + 1
  BY <1>1 DEF t
<1>3. Members(t) = Members(s) \cup {x}
  BY <1>1, <1>2 DEF Members, t
<1>4. Once(s) /\ x \notin Members(s) => Once(t)
  BY <1>1, <1>2 DEF Members, Once, t
<1> QED
  BY <1>1, <1>3, <1>4 DEF t

(* Taking the first off a sequence.                                         *)
LEMMA TailMembers ==
  ASSUME NEW S, NEW s \in Seq(S), s # <<>>
  PROVE  /\ Head(s) \in S /\ Tail(s) \in Seq(S)
         /\ Members(s) = Members(Tail(s)) \cup {Head(s)}
         /\ Once(s) => Head(s) \notin Members(Tail(s)) /\ Once(Tail(s))
         /\ Len(Tail(s)) = Len(s) - 1 /\ Len(s) \in Nat \ {0}
<1>1. /\ Head(s) = s[1] /\ Head(s) \in S /\ Tail(s) \in Seq(S)
      /\ Len(Tail(s)) = Len(s) - 1
      /\ \A i \in 1 .. Len(Tail(s)) : Tail(s)[i] = s[i + 1]
      /\ Len(s) \in Nat \ {0}
  BY HeadTailProperties, EmptySeq
<1> DEFINE t == Tail(s)
           h == Head(s)
<1> HIDE DEF t, h
<1>2. /\ h = s[1] /\ Len(t) = Len(s) - 1 /\ Len(s) \in Nat \ {0}
      /\ \A i \in 1 .. Len(t) : t[i] = s[i + 1]
  BY <1>1 DEF t, h
<1>3. Members(s) = Members(t) \cup {h}
  <2>1. ASSUME NEW i \in 1 .. Len(s) PROVE s[i] \in Members(t) \cup {h}
    <3>1. CASE i = 1
      BY <1>2, <3>1
    <3>2. CASE i # 1
      <4>1. i - 1 \in 1 .. Len(t) /\ t[i - 1] = s[i]
        BY <1>2, <3>2
      <4> QED
        BY <4>1 DEF Members
    <3> QED
      BY <3>1, <3>2
  <2>2. ASSUME NEW i \in 1 .. Len(t) PROVE t[i] \in Members(s)
    BY <1>2 DEF Members
  <2>3. h \in Members(s)
    BY <1>2 DEF Members
  <2> QED
    BY <2>1, <2>2, <2>3 DEF Members
<1>4. ASSUME Once(s) PROVE h \notin Members(t) /\ Once(t)
  <2>1. ASSUME NEW i \in 1 .. Len(t) PROVE t[i] # h
    BY <1>2, <1>4 DEF Once
  <2>2. ASSUME NEW i \in 1 .. Len(t), NEW j \in 1 .. Len(t), t[i] = t[j] PROVE i = j
    <3>1. i + 1 \in 1 .. Len(s) /\ j + 1 \in 1 .. Len(s) /\ s[i + 1] = s[j + 1]
      BY <1>2, <2>2
    <3>2. i + 1 = j + 1
      BY <3>1, <1>4 DEF Once
    <3> QED
      BY <3>2
  <2> QED
    BY <2>1, <2>2 DEF Members, Once
<1> QED
  BY <1>1, <1>3, <1>4 DEF t, h

LEMMA EmptyMembers == Members(<<>>) = {} /\ Once(<<>>) /\ Len(<<>>) = 0
<1>1. Len(<<>>) = 0
  BY EmptySeq
<1> QED
  BY <1>1 DEF Members, Once

-----------------------------------------------------------------------------
(* Types.                                                                   *)

LEMMA NoConnectionType == NoConnection \in Connection
BY EmptySeq DEF NoConnection, Connection

LEMMA ConnectionFields ==
  ASSUME TypeOK, NEW k \in Conn
  PROVE  /\ conn[k] \in Connection
         /\ conn[k].requests \in Seq(Call) /\ conn[k].replies \in Seq(Reply)
         /\ conn[k].busy \in Call \cup {None} /\ conn[k].done \in BOOLEAN
BY DEF TypeOK, Connection

(* What the client's leaving does to a connection.                          *)
LEMMA LeaveType ==
  ASSUME TypeOK, NEW S
  PROVE  /\ Leave(S) \in [Conn -> Connection]
         /\ \A k \in Conn : Leave(S)[k] = IF k \in S THEN Left(conn[k]) ELSE conn[k]
<1>1. ASSUME NEW k \in Conn PROVE Left(conn[k]) \in Connection /\ conn[k] \in Connection
  BY NoConnectionType, ConnectionFields, EmptySeq DEF Left, Connection
<1> QED
  BY <1>1 DEF Leave

LEMMA ShutType == ASSUME TypeOK, NEW k \in Conn PROVE Shut(k) \in Connection
BY NoConnectionType, ConnectionFields, EmptySeq DEF Shut, Connection

LEMMA OpenedType ==
  ASSUME TypeOK, NEW k \in Conn, Opened(k)
  PROVE  conn' \in [Conn -> Connection] /\ writer' \in Conn /\ skewed' \in SUBSET Conn
<1>1. Leave({writer} \ {0, reader}) \in [Conn -> Connection]
  BY LeaveType
<1>2. [NoConnection EXCEPT !.st = IF up THEN "open" ELSE "backlog"] \in Connection
  BY NoConnectionType DEF Connection, NoConnection
<1> QED
  BY <1>1, <1>2 DEF Opened, TypeOK

LEMMA FailAttemptType ==
  ASSUME TypeOK, cur # None, pc # "idle", FailAttempt
  PROVE  /\ cur' \in Call \cup {None}
         /\ pc' \in {"idle", "send", "read"} /\ (pc' = "idle" <=> cur' = None)
         /\ tries' \in 0 .. Attempts - 1
         /\ writer' = 0 /\ reader' = 0 /\ pc' # "read"
         /\ st' \in [Call -> {"new"} \cup Open \cup Outcome]
         /\ conn' \in [Conn -> Connection]
         /\ reply' = reply /\ skewed' = {}
<1>1. conn' \in [Conn -> Connection]
  BY LeaveType DEF FailAttempt
<1>0. tries \in Nat /\ Attempts \in Nat \ {0} /\ tries <= Attempts - 1 /\ cur \in Call /\ cur # None
  BY IpcAssumption DEF TypeOK
<1>2. CASE tries + 1 < Attempts
  <2>1. /\ tries' = tries + 1 /\ pc' = "send" /\ reader' = 0 /\ cur' = cur /\ st' = st
        /\ writer' = 0 /\ reply' = reply /\ skewed' = {}
    BY <1>2 DEF FailAttempt
  <2>2. tries' \in 0 .. Attempts - 1
    BY <1>0, <1>2, <2>1
  <2> QED
    BY <1>0, <1>1, <2>1, <2>2 DEF TypeOK
<1>3. CASE ~(tries + 1 < Attempts)
  <2>1. /\ tries' = 0 /\ pc' = "idle" /\ reader' = 0 /\ cur' = None
        /\ st' = [st EXCEPT ![cur] = "raised"]
        /\ writer' = 0 /\ reply' = reply /\ skewed' = {}
    BY <1>3 DEF FailAttempt, EndCall
  <2>2. tries' \in 0 .. Attempts - 1
    BY <1>0, <2>1
  <2>3. st' \in [Call -> {"new"} \cup Open \cup Outcome]
    BY <2>1 DEF TypeOK, Outcome
  <2> QED
    BY <1>1, <2>1, <2>2, <2>3
<1> QED
  BY <1>2, <1>3

LEMMA EndReadType ==
  ASSUME TypeOK, pc = "read", NEW o \in Outcome, NEW rest \in Seq(Reply),
         NEW skew \in SUBSET {reader}, EndRead(o, rest, skew)
  PROVE  /\ cur' = None /\ pc' = "idle" /\ tries' = 0 /\ reader' = 0 /\ writer' = writer
         /\ st' \in [Call -> {"new"} \cup Open \cup Outcome]
         /\ conn' \in [Conn -> Connection]
         /\ skewed' \in SUBSET Conn
<1>1. reader \in Conn /\ skewed \in SUBSET Conn
  BY DEF TypeOK
<1>2. [conn EXCEPT ![reader].replies = rest] \in [Conn -> Connection]
  BY <1>1, ConnectionFields DEF TypeOK, Connection
<1>3. Leave({reader}) \in [Conn -> Connection]
  BY LeaveType
<1>4. conn' \in [Conn -> Connection] /\ skewed' \in SUBSET Conn
  <2>1. CASE reader = writer
    BY <1>1, <1>2, <2>1 DEF EndRead
  <2>2. CASE reader # writer
    BY <1>1, <1>3, <2>2 DEF EndRead
  <2> QED
    BY <2>1, <2>2
<1>5. /\ cur' = None /\ pc' = "idle" /\ tries' = 0 /\ reader' = 0 /\ writer' = writer
      /\ st' = [st EXCEPT ![cur] = o]
  BY DEF EndRead, EndCall
<1>6. st' \in [Call -> {"new"} \cup Open \cup Outcome]
  BY <1>5 DEF TypeOK
<1> QED
  BY <1>4, <1>5, <1>6

LEMMA RepliedType ==
  ASSUME TypeOK, NEW k \in Conn, NEW c \in Call, NEW ok \in BOOLEAN
  PROVE  Replied(k, c, ok) \in Seq(Reply)
<1>1. [to |-> c, ok |-> ok, whole |-> TRUE] \in Reply
  BY DEF Reply
<1> QED
  BY <1>1, ConnectionFields, AppendProperties, EmptySeq DEF Replied

(* Every step of the client keeps the types ...                             *)
LEMMA ClientTypes ==
  ASSUME TypeOK,
         \/ \E c \in Call : FirstCall(c) \/ BeginCall(c) \/ CancelFirst(c)
         \/ First \/ Client \/ CallTimeout \/ Leaves
  PROVE  TypeOK'
<1> USE DEF serverVars, counters
<1>0. /\ 0 \in 0 .. Attempts - 1 /\ {MaxBreaks, MaxCancels} \subseteq Nat /\ 0 \notin Conn
      /\ None \notin Call
  BY IpcAssumption DEF Conn
<1>1. ASSUME NEW c \in Call, FirstCall(c) PROVE TypeOK'
  BY <1>1 DEF FirstCall, TypeOK, Open
<1>2. ASSUME NEW c \in Call, BeginCall(c) PROVE TypeOK'
  BY <1>0, <1>2 DEF BeginCall, TypeOK, Open
<1>3. ASSUME NEW c \in Call, CancelFirst(c) PROVE TypeOK'
  BY <1>0, <1>3 DEF CancelFirst, TypeOK, Outcome
<1>4. ASSUME NEW c \in Call, FirstConnects(c) PROVE TypeOK'
  <2>1. conn' \in [Conn -> Connection] /\ writer' \in Conn /\ skewed' \in SUBSET Conn
    BY <1>4, OpenedType DEF FirstConnects
  <2>2. replaced' \in BOOLEAN
    BY <1>4 DEF FirstConnects
  <2> QED
    BY <1>4, <2>1, <2>2 DEF FirstConnects, TypeOK, Open
<1>5. ASSUME NEW c \in Call, FirstFails(c) PROVE TypeOK'
  BY <1>5 DEF FirstFails, TypeOK, Outcome
<1>6. CASE Connect
  <2>1. conn' \in [Conn -> Connection] /\ writer' \in Conn /\ skewed' \in SUBSET Conn
    BY <1>6, OpenedType DEF Connect
  <2> QED
    BY <1>6, <2>1 DEF Connect, TypeOK
<1>7. ASSUME FailAttempt, cur # None, pc # "idle", replaced' = replaced, up' = up,
             stalled' = stalled, execs' = execs, crashes' = crashes, cancels' = cancels,
             \/ timeouts' = timeouts
             \/ timeouts' = timeouts + 1 /\ crashes + timeouts < MaxBreaks
      PROVE  TypeOK'
  <2>1. timeouts' \in Nat /\ crashes' \in Nat /\ crashes' + timeouts' <= MaxBreaks
    BY <1>0, <1>7 DEF TypeOK
  <2> QED
    BY <1>7, <2>1, FailAttemptType DEF TypeOK
<1>8. pc # "idle" => cur # None
  BY DEF TypeOK
<1>9. CASE ConnectFails
  BY <1>7, <1>8, <1>9 DEF ConnectFails
<1>10. CASE Send
  <2>1. writer \in Conn /\ cur \in Call /\ conn \in [Conn -> Connection]
    BY <1>10 DEF Send, TypeOK
  <2>2. Append(conn[writer].requests, cur) \in Seq(Call)
    BY <2>1, ConnectionFields, AppendProperties
  <2>3. [conn EXCEPT ![writer].requests = Append(@, cur)] \in [Conn -> Connection]
    BY <2>1, <2>2 DEF Connection
  <2> QED
    BY <1>0, <1>10, <2>1, <2>3 DEF Send, TypeOK
<1>11. CASE SendFails
  BY <1>7, <1>8, <1>11 DEF SendFails
<1>12. ASSUME NEW o \in Outcome, NEW rest \in Seq(Reply), NEW skew \in SUBSET {reader},
              EndRead(o, rest, skew), pc = "read",
              reply' \in [Call -> Call \cup {None}]
       PROVE  TypeOK'
  BY <1>0, <1>12, EndReadType DEF TypeOK, EndRead
<1>13. ASSUME Waiting
       PROVE  /\ reader \in Conn /\ cur \in Call /\ pc = "read"
              /\ FirstLine \in Reply /\ Tail(conn[reader].replies) \in Seq(Reply)
              /\ <<[FirstLine EXCEPT !.whole = FALSE]>> \o Tail(conn[reader].replies) \in Seq(Reply)
  <2>1. reader \in Conn /\ cur \in Call /\ pc = "read" /\ conn[reader].replies # <<>>
    BY <1>13 DEF Waiting, TypeOK
  <2>2. FirstLine \in Reply /\ Tail(conn[reader].replies) \in Seq(Reply)
    BY <2>1, ConnectionFields, HeadTailProperties DEF FirstLine
  <2>3. [FirstLine EXCEPT !.whole = FALSE] \in Reply
    BY <2>2 DEF Reply
  <2>4. <<[FirstLine EXCEPT !.whole = FALSE]>> \in Seq(Reply)
    BY <2>3
  <2> QED
    BY <2>1, <2>2, <2>4, ConcatProperties
<1>14. CASE Read
  <2>1. reply' \in [Call -> Call \cup {None}]
    BY <1>13, <1>14 DEF Read, Reply, TypeOK
  <2>2. PICK o \in Outcome : EndRead(o, Tail(conn[reader].replies), {})
    BY <1>14 DEF Read, Outcome
  <2>3. Waiting /\ {} \in SUBSET {reader}
    BY <1>14 DEF Read
  <2> QED
    BY <1>12, <1>13, <2>1, <2>2, <2>3
<1>15. CASE ReadTooLong
  <2>1. reply' \in [Call -> Call \cup {None}] /\ "raised" \in Outcome
    BY <1>15 DEF ReadTooLong, TypeOK, Outcome
  <2>2. PICK rest \in Seq(Reply), skew \in SUBSET {reader} : EndRead("raised", rest, skew)
    BY <1>13, <1>15 DEF ReadTooLong
  <2>3. Waiting
    BY <1>15 DEF ReadTooLong
  <2> QED
    BY <1>12, <1>13, <2>1, <2>2, <2>3
<1>16. CASE ReadRest
  <2>1. reply' \in [Call -> Call \cup {None}] /\ "raised" \in Outcome
    BY <1>16 DEF ReadRest, TypeOK, Outcome
  <2>2. Waiting
    BY <1>16 DEF ReadRest
  <2>3. conn[reader].replies \in Seq(Reply) /\ {} \in SUBSET {reader} /\ {reader} \in SUBSET {reader}
    BY <1>13, <2>2, ConnectionFields
  <2>4. PICK rest \in Seq(Reply), skew \in SUBSET {reader} : EndRead("raised", rest, skew)
    BY <1>13, <1>16, <2>2, <2>3 DEF ReadRest
  <2> QED
    BY <1>12, <1>13, <2>1, <2>2, <2>4
<1>17. CASE ReadEof
  BY <1>7, <1>8, <1>17 DEF ReadEof
<1>18. CASE CallTimeout
  BY <1>7, <1>8, <1>18 DEF CallTimeout, Silence
<1>19. CASE Leaves
  <2>1. conn' \in [Conn -> Connection]
    BY <1>19, LeaveType DEF Leaves, CallTimeoutLeaves, Cancel, Silence, Abandon
  <2>2. cancels' \in 0 .. MaxCancels
    BY <1>0, <1>19 DEF Leaves, CallTimeoutLeaves, Cancel, Silence, Abandon, TypeOK
  <2>3. st' \in [Call -> {"new"} \cup Open \cup Outcome]
    BY <1>19 DEF Leaves, CallTimeoutLeaves, Cancel, Silence, Abandon, EndCall, TypeOK, Outcome
  <2>4. skewed' \in SUBSET Conn
    BY <1>19 DEF Leaves, CallTimeoutLeaves, Cancel, Silence, Abandon, TypeOK
  <2> QED
    BY <1>0, <1>19, <2>1, <2>2, <2>3, <2>4
       DEF Leaves, CallTimeoutLeaves, Cancel, Silence, Abandon, EndCall, TypeOK
<1> QED
  BY <1>1, <1>2, <1>3, <1>4, <1>5, <1>6, <1>9, <1>10, <1>11, <1>14, <1>15, <1>16, <1>17,
     <1>18, <1>19 DEF First, Client

(* ... and so does every step of the server.                                *)
LEMMA ServerTypes ==
  ASSUME TypeOK,
         \/ \E k \in Conn : Serve(k) \/ Drained(k) \/ Ends(k)
         \/ Crash \/ Start
  PROVE  TypeOK'
<1> USE DEF clientVars, serverVars, counters
<1>1. ASSUME NEW k \in Conn, NEW x \in Connection, conn' = [conn EXCEPT ![k] = x],
             up' = up, execs' \in [Call -> Nat], stalled' \in SUBSET Conn,
             UNCHANGED <<clientVars, counters>>
      PROVE  TypeOK'
  BY <1>1 DEF TypeOK
<1>2. ASSUME NEW k \in Conn, conn[k].requests # <<>>
      PROVE  Head(conn[k].requests) \in Call /\ Tail(conn[k].requests) \in Seq(Call)
  BY <1>2, ConnectionFields, HeadTailProperties
<1>3. /\ execs \in [Call -> Nat] /\ conn \in [Conn -> Connection] /\ stalled \in SUBSET Conn
      /\ \A k \in Conn, c \in Call \cup {None} : MayStall(k, c) => stalled' \in SUBSET Conn
  BY DEF TypeOK, MayStall
<1>4. ASSUME NEW k \in Conn, Accept(k) PROVE TypeOK'
  <2>1. [conn[k] EXCEPT !.st = "open"] \in Connection
    BY ConnectionFields DEF Connection
  <2> QED
    BY <1>1, <1>3, <1>4, <2>1 DEF Accept
<1>5. ASSUME NEW k \in Conn, Take(k) PROVE TypeOK'
  <2> DEFINE x == [conn[k] EXCEPT !.busy = Head(conn[k].requests), !.done = FALSE,
                                  !.requests = Tail(@)]
  <2>1. x \in Connection
    BY <1>2, <1>5, ConnectionFields DEF Take, Connection
  <2>2. conn' = [conn EXCEPT ![k] = x]
    BY <1>3, <1>5 DEF Take, Connection
  <2> QED
    BY <1>1, <1>3, <1>5, <2>1, <2>2 DEF Take
<1>6. ASSUME NEW k \in Conn, TakeTooLong(k) PROVE TypeOK'
  <2> DEFINE x == [conn[k] EXCEPT !.st = "draining",
                                  !.replies = Replied(k, Head(conn[k].requests), FALSE),
                                  !.requests = Tail(@)]
  <2>1. Replied(k, Head(conn[k].requests), FALSE) \in Seq(Reply)
    BY <1>2, <1>6, RepliedType DEF TakeTooLong
  <2>2. x \in Connection
    BY <1>2, <1>6, <2>1, ConnectionFields DEF TakeTooLong, Connection
  <2>3. conn' = [conn EXCEPT ![k] = x]
    BY <1>3, <1>6 DEF TakeTooLong, Connection
  <2> QED
    BY <1>1, <1>3, <1>6, <2>2, <2>3 DEF TakeTooLong
<1>7. ASSUME NEW k \in Conn, Swallow(k) PROVE TypeOK'
  <2> DEFINE x == [conn[k] EXCEPT !.requests = Tail(@)]
  <2>1. x \in Connection
    BY <1>2, <1>7, ConnectionFields DEF Swallow, Connection
  <2>2. conn' = [conn EXCEPT ![k] = x]
    BY <1>3, <1>7 DEF Swallow, Connection
  <2> QED
    BY <1>1, <1>3, <1>7, <2>1, <2>2 DEF Swallow
<1>8. ASSUME NEW k \in Conn, Execute(k) PROVE TypeOK'
  <2> DEFINE x == [conn[k] EXCEPT !.done = TRUE]
  <2>1. x \in Connection /\ conn' = [conn EXCEPT ![k] = x]
    BY <1>3, <1>8, ConnectionFields DEF Execute, Connection
  <2>2. execs' \in [Call -> Nat]
    BY <1>3, <1>8, ConnectionFields DEF Execute
  <2> QED
    BY <1>1, <1>3, <1>8, <2>1, <2>2 DEF Execute
<1>9. ASSUME NEW k \in Conn, NEW ok \in BOOLEAN, conn[k].busy # None,
             conn' = [conn EXCEPT ![k].replies = Replied(k, conn[k].busy, ok),
                                  ![k].busy = None, ![k].done = FALSE],
             stalled' \in SUBSET Conn, UNCHANGED <<clientVars, up, execs, counters>>
      PROVE  TypeOK'
  <2> DEFINE x == [conn[k] EXCEPT !.replies = Replied(k, conn[k].busy, ok),
                                  !.busy = None, !.done = FALSE]
  <2>1. Replied(k, conn[k].busy, ok) \in Seq(Reply)
    BY <1>9, ConnectionFields, RepliedType
  <2>2. x \in Connection
    BY <2>1, ConnectionFields DEF Connection
  <2>3. conn' = [conn EXCEPT ![k] = x]
    BY <1>3, <1>9 DEF Connection
  <2> QED
    BY <1>1, <1>3, <1>9, <2>2, <2>3
<1>10. ASSUME NEW k \in Conn, Answer(k) \/ Refuse(k) PROVE TypeOK'
  <2>1. stalled' \in SUBSET Conn
    BY <1>3, <1>10, ConnectionFields DEF Answer, Refuse
  <2> QED
    BY <1>9, <1>10, <2>1 DEF Answer, Refuse
<1>14. ASSUME NEW k \in Conn, Drained(k) PROVE TypeOK'
  BY <1>14 DEF Drained, TypeOK
<1>11. ASSUME NEW k \in Conn, CloseIdle(k) \/ CloseDrained(k) PROVE TypeOK'
  BY <1>1, <1>3, <1>11, ShutType DEF CloseIdle, CloseDrained
<1>12. CASE Crash
  <2>1. ASSUME NEW k \in Conn
        PROVE  Shut(k) \in Connection /\ [Shut(k) EXCEPT !.replies = <<>>] \in Connection
    BY ShutType, EmptySeq DEF Connection
  <2>2. conn' \in [Conn -> Connection]
    BY <1>3, <1>12, <2>1 DEF Crash
  <2>3. crashes' \in Nat /\ crashes' + timeouts' <= MaxBreaks
    BY <1>12, IpcAssumption DEF Crash, TypeOK
  <2> QED
    BY <1>12, <2>2, <2>3 DEF Crash, TypeOK
<1>13. CASE Start
  BY <1>13 DEF Start, TypeOK
<1> QED
  BY <1>4, <1>5, <1>6, <1>7, <1>8, <1>10, <1>11, <1>12, <1>13, <1>14 DEF Serve, Ends

LEMMA TypeStep == TypeOK /\ [Next]_vars => TypeOK'
<1>1. ASSUME TypeOK, UNCHANGED vars PROVE TypeOK'
  BY <1>1 DEF TypeOK, vars, clientVars, serverVars, counters
<1> QED
  BY <1>1, ClientTypes, ServerTypes DEF Next, Leaves, Ends

LEMMA TypeInit == Init => TypeOK
<1> SUFFICES ASSUME Init PROVE TypeOK
  OBVIOUS
<1>1. 0 \in 0 .. Attempts - 1 /\ {MaxBreaks, MaxCancels} \subseteq Nat
  BY IpcAssumption
<1>2. conn \in [Conn -> Connection]
  BY NoConnectionType DEF Init
<1>3. crashes + timeouts <= MaxBreaks /\ cancels \in 0 .. MaxCancels
  BY <1>1 DEF Init
<1>4. (pc = "read" <=> reader # 0) /\ (pc = "idle" <=> cur = None)
  BY DEF Init
<1> QED
  BY <1>1, <1>2, <1>3, <1>4 DEF Init, TypeOK

(* Every variable keeps its type: among other things no call is sent more   *)
(* than three times, and a call reads from a connection exactly while it    *)
(* waits for a line.                                                        *)
THEOREM TypeCorrect == Spec => []TypeOK
BY TypeInit, TypeStep, PTL DEF Spec

-----------------------------------------------------------------------------
(* What a step does to the connections.  Most only take something away:     *)

Fewer(k) ==
  /\ Asked(k)' \subseteq Asked(k)
  /\ Once(conn[k].requests) => Once(conn'[k].requests)
  /\ \/ conn'[k].busy = None
     \/ conn'[k].busy = conn[k].busy /\ conn'[k].done = conn[k].done
  /\ \A r \in Members(conn'[k].replies) :
       \E o \in Members(conn[k].replies) : r.to = o.to /\ r.ok = o.ok
  /\ pc' = "read" => Members(conn'[k].replies) \subseteq Members(conn[k].replies)
  /\ InFlight(k)' <= InFlight(k)

LEMMA InFlightNat == ASSUME TypeOK, NEW k \in Conn PROVE InFlight(k) \in Nat
<1>1. Len(conn[k].requests) \in Nat /\ Len(conn[k].replies) \in Nat
  BY ConnectionFields, LenProperties
<1> DEFINE a == Len(conn[k].requests)
           b == Len(conn[k].replies)
           n == IF conn[k].busy = None THEN 0 ELSE 1
<1>2. InFlight(k) = (a + b) + n /\ n \in Nat
  BY DEF InFlight
<1>3. a \in Nat /\ b \in Nat
  BY <1>1
<1> HIDE DEF a, b, n
<1> QED
  BY <1>2, <1>3

LEMMA InFlightNatNext == ASSUME TypeOK', NEW k \in Conn PROVE InFlight(k)' \in Nat
<1>1. Len(conn'[k].requests) \in Nat /\ Len(conn'[k].replies) \in Nat
  BY LenProperties DEF TypeOK, Connection
<1> DEFINE a == Len(conn'[k].requests)
           b == Len(conn'[k].replies)
           n == IF conn'[k].busy = None THEN 0 ELSE 1
<1>2. InFlight(k)' = (a + b) + n /\ n \in Nat
  BY DEF InFlight
<1>3. a \in Nat /\ b \in Nat
  BY <1>1
<1> HIDE DEF a, b, n
<1> QED
  BY <1>2, <1>3

LEMMA InFlightLess ==
  ASSUME NEW k, Len(conn[k].requests) \in Nat, Len(conn[k].replies) \in Nat,
         Len(conn'[k].requests) \in Nat, Len(conn'[k].requests) <= Len(conn[k].requests),
         Len(conn'[k].replies) \in Nat, Len(conn'[k].replies) <= Len(conn[k].replies),
         conn[k].busy = None => conn'[k].busy = None
  PROVE  InFlight(k)' <= InFlight(k)
<1> DEFINE a == Len(conn[k].requests)
           b == Len(conn[k].replies)
           n == IF conn[k].busy = None THEN 0 ELSE 1
           a1 == Len(conn'[k].requests)
           b1 == Len(conn'[k].replies)
           n1 == IF conn'[k].busy = None THEN 0 ELSE 1
<1>1. /\ InFlight(k) = (a + b) + n /\ InFlight(k)' = (a1 + b1) + n1
      /\ n \in Nat /\ n1 \in Nat /\ n1 <= n
  BY DEF InFlight
<1>2. /\ a \in Nat /\ b \in Nat /\ a1 \in Nat /\ b1 \in Nat /\ a1 <= a /\ b1 <= b
  OBVIOUS
<1> HIDE DEF a, b, n, a1, b1, n1
<1> QED
  BY <1>1, <1>2

(* Lines are thrown away as a whole, or not at all.                         *)
LEMMA FewerPlain ==
  ASSUME TypeOK, NEW k \in Conn,
         conn'[k].requests \in {conn[k].requests, <<>>},
         conn'[k].replies \in {conn[k].replies, <<>>},
         \/ conn'[k].busy = None
         \/ conn'[k].busy = conn[k].busy /\ conn'[k].done = conn[k].done
  PROVE  Fewer(k)
<1>1. Len(conn[k].requests) \in Nat /\ Len(conn[k].replies) \in Nat
  BY ConnectionFields, LenProperties
<1>2. /\ Len(conn'[k].requests) \in Nat /\ Len(conn'[k].requests) <= Len(conn[k].requests)
      /\ Len(conn'[k].replies) \in Nat /\ Len(conn'[k].replies) <= Len(conn[k].replies)
  BY <1>1, EmptyMembers
<1>3. conn[k].busy = None => conn'[k].busy = None
  OBVIOUS
<1>4. InFlight(k)' <= InFlight(k)
  BY <1>1, <1>2, <1>3, InFlightLess
<1> QED
  BY <1>4, EmptyMembers DEF Fewer, Asked

LEMMA FewerSame ==
  ASSUME TypeOK, conn' = conn
  PROVE  \A k \in Conn : Fewer(k)
BY FewerPlain

LEMMA LeaveView ==
  ASSUME TypeOK, NEW S, NEW k \in Conn
  PROVE  /\ Leave(S)[k].requests \in {conn[k].requests, <<>>}
         /\ Leave(S)[k].replies \in {conn[k].replies, <<>>}
         /\ \/ Leave(S)[k].busy = None
            \/ Leave(S)[k].busy = conn[k].busy /\ Leave(S)[k].done = conn[k].done
         /\ Leave(S)[k].st \in {conn[k].st, "none"}
         /\ k \notin S => Leave(S)[k] = conn[k]
         /\ Leave(S)[k] = NoConnection \/ Leave(S)[k].st # "none" \/ conn[k].st = "none"
         /\ Leave(S)[k] = NoConnection \/ (/\ Leave(S)[k].requests = conn[k].requests
                                          /\ Leave(S)[k].busy = conn[k].busy)
<1>1. /\ conn[k] \in Connection
      /\ Leave(S)[k] = IF k \in S THEN Left(conn[k]) ELSE conn[k]
  BY LeaveType, ConnectionFields
<1>2. CASE k \notin S
  BY <1>1, <1>2
<1>3. CASE k \in S /\ conn[k].st = "closed"
  <2>1. Leave(S)[k] = NoConnection
    BY <1>1, <1>3 DEF Left
  <2> QED
    BY <1>3, <2>1 DEF NoConnection
<1>4. CASE k \in S /\ conn[k].st # "closed"
  <2>1. Leave(S)[k] = [conn[k] EXCEPT !.replies = <<>>]
    BY <1>1, <1>4 DEF Left
  <2> QED
    BY <1>1, <1>4, <2>1 DEF Connection
<1> QED
  BY <1>2, <1>3, <1>4

LEMMA OpenedView ==
  ASSUME TypeOK, NEW n \in Conn, Opened(n)
  PROVE  /\ writer' = n /\ skewed' = skewed \cap {reader} /\ conn[n].st = "none"
         /\ conn'[n].requests = <<>> /\ conn'[n].replies = <<>> /\ conn'[n].busy = None
         /\ conn'[n].st \in {"open", "backlog"}
         /\ \A k \in Conn \ {n} : conn'[k] = Leave({writer} \ {0, reader})[k]
BY LeaveType DEF Opened, IsFree, NoConnection

LEMMA FewerLeave ==
  ASSUME TypeOK, NEW S, conn' = Leave(S)
  PROVE  \A k \in Conn : Fewer(k)
BY LeaveView, FewerPlain

LEMMA FewerOpened ==
  ASSUME TypeOK, NEW n \in Conn, Opened(n)
  PROVE  \A k \in Conn : Fewer(k)
<1>1. Fewer(n)
  BY OpenedView, FewerPlain
<1>2. ASSUME NEW k \in Conn \ {n} PROVE Fewer(k)
  BY <1>2, OpenedView, LeaveView, FewerPlain
<1> QED
  BY <1>1, <1>2

(* A call that reads takes the first line off, or marks it as cut.          *)
LEMMA FewerRead ==
  ASSUME TypeOK, Read \/ ReadTooLong \/ ReadRest
  PROVE  \A k \in Conn : Fewer(k)
<1>0. reader \in Conn /\ conn[reader].replies # <<>>
  BY DEF Read, ReadTooLong, ReadRest, Waiting, TypeOK
<1> PICK n \in Conn : n = reader
  BY <1>0
<1> DEFINE q == conn[n].replies
           cut == [FirstLine EXCEPT !.whole = FALSE]
<1>1. q # <<>> /\ q \in Seq(Reply)
  BY <1>0, ConnectionFields
<1>2. /\ Members(q) = Members(Tail(q)) \cup {FirstLine} /\ FirstLine \in Reply
      /\ Tail(q) \in Seq(Reply) /\ Len(Tail(q)) = Len(q) - 1 /\ Len(q) \in Nat \ {0}
  BY <1>1, TailMembers DEF FirstLine
<1>3. PICK o \in Outcome, rest \in {q, Tail(q), <<cut>> \o Tail(q)}, skew \in SUBSET {reader} :
        EndRead(o, rest, skew)
  BY DEF Read, ReadTooLong, ReadRest, Outcome
<1>4. pc' = "idle"
  BY <1>3 DEF EndRead, EndCall
<1>5. /\ \A r \in Members(rest) : \E m \in Members(q) : r.to = m.to /\ r.ok = m.ok
      /\ Len(rest) <= Len(q) /\ Len(rest) \in Nat
  <2>1. cut \in Reply /\ cut.to = FirstLine.to /\ cut.ok = FirstLine.ok
    BY <1>2 DEF Reply
  <2> HIDE DEF cut, q
  <2>2. <<cut>> \in Seq(Reply) /\ Len(<<cut>>) = 1 /\ <<cut>>[1] = cut
    BY <2>1
  <2> DEFINE t == <<cut>> \o Tail(q)
  <2>3. /\ Len(t) = Len(q) /\ Len(t) = Len(Tail(q)) + 1 /\ t[1] = cut
        /\ \A i \in 2 .. Len(t) : t[i] = Tail(q)[i - 1]
    BY <1>2, <2>2, ConcatProperties
  <2>4. \A i \in 2 .. Len(t) : Tail(q)[i - 1] \in Members(Tail(q))
    <3> SUFFICES ASSUME NEW i \in 2 .. Len(t) PROVE Tail(q)[i - 1] \in Members(Tail(q))
      OBVIOUS
    <3>1. i - 1 \in 1 .. Len(Tail(q))
      BY <1>2, <2>3
    <3> QED
      BY <3>1 DEF Members
  <2> HIDE DEF t
  <2>5. \A r \in Members(t) : r = cut \/ r \in Members(Tail(q))
    <3> SUFFICES ASSUME NEW i \in 1 .. Len(t) PROVE t[i] = cut \/ t[i] \in Members(Tail(q))
      BY DEF Members
    <3>1. i = 1 \/ i \in 2 .. Len(t)
      BY <1>2, <2>3
    <3> QED
      BY <2>3, <2>4, <3>1
  <2>6. rest = t \/ rest = Tail(q) \/ rest = q
    BY <1>3 DEF t
  <2>7. FirstLine \in Members(q) /\ Members(Tail(q)) \subseteq Members(q)
    BY <1>2
  <2>8. CASE rest = t
    BY <1>2, <2>1, <2>3, <2>5, <2>7, <2>8
  <2>9. CASE rest = Tail(q)
    BY <1>2, <2>7, <2>9
  <2>10. CASE rest = q
    BY <1>2, <2>10
  <2> QED
    BY <2>6, <2>8, <2>9, <2>10
<1> HIDE DEF cut, q
<1>6. CASE reader = writer
  <2>1. /\ \A k \in Conn \ {n} : conn'[k] = conn[k]
        /\ conn'[n] = [conn[n] EXCEPT !.replies = rest]
    BY <1>3, <1>6 DEF EndRead, TypeOK
  <2>2. /\ conn'[n].replies = rest /\ conn'[n].requests = conn[n].requests
        /\ conn'[n].busy = conn[n].busy /\ conn'[n].done = conn[n].done
    BY <2>1, ConnectionFields DEF Connection
  <2>3. InFlight(n)' <= InFlight(n)
    <3>1. Len(conn[n].requests) \in Nat
      BY ConnectionFields, LenProperties
    <3> QED
      BY <1>2, <1>5, <2>2, <3>1, InFlightLess DEF q
  <2>4. Fewer(n)
    BY <1>4, <1>5, <2>2, <2>3 DEF Fewer, Asked, q
  <2>5. ASSUME NEW k \in Conn \ {n} PROVE Fewer(k)
    BY <2>1, <2>5, FewerPlain
  <2> QED
    BY <2>4, <2>5
<1>7. CASE reader # writer
  <2>1. conn' = Leave({reader})
    BY <1>3, <1>7 DEF EndRead
  <2> QED
    BY <2>1, FewerLeave
<1> QED
  BY <1>6, <1>7

-----------------------------------------------------------------------------
(* No step but Send brings anything of a call onto a connection: the server *)
(* turns a request into a dispatch and a dispatch into a reply.             *)

Gentle(k) ==
  /\ \A c \in Call : /\ Has(k, c)' => Has(k, c)
                     /\ Lives(k, c)' => Lives(k, c)
                     /\ Concerns(k, c) => (pc' = "read" => Concerns(k, c)')
  /\ SinglyAt(k) => SinglyAt(k)'
  /\ InFlight(k)' <= InFlight(k)

LEMMA ConcernsMembers ==
  ASSUME NEW x \in Connection, NEW c
  PROVE  /\ (\A i \in DOMAIN x.requests : x.requests[i] = c) <=> Members(x.requests) \subseteq {c}
         /\ (\A i \in DOMAIN x.replies : x.replies[i].to = c /\ x.replies[i].whole)
              <=> (\A r \in Members(x.replies) : r.to = c /\ r.whole)
<1>1. x.requests \in Seq(Call) /\ x.replies \in Seq(Reply)
  BY DEF Connection
<1>2. DOMAIN x.requests = 1 .. Len(x.requests) /\ DOMAIN x.replies = 1 .. Len(x.replies)
  BY <1>1, LenProperties
<1> QED
  BY <1>2 DEF Members

LEMMA FewerGentle ==
  ASSUME TypeOK, TypeOK', NEW k \in Conn, Fewer(k)
  PROVE  Gentle(k)
<1>1. conn[k] \in Connection /\ conn'[k] \in Connection
  BY DEF TypeOK
<1>2. \A c : c \in Told(k)' => c \in Told(k)
  BY DEF Told, Fewer
<1>3. /\ \A c : c \in Asked(k)' => c \in Asked(k)
      /\ \/ conn'[k].busy = None
         \/ conn'[k].busy = conn[k].busy /\ conn'[k].done = conn[k].done
      /\ None \notin Call
  BY IpcAssumption DEF Fewer
<1>4. ASSUME NEW c \in Call
      PROVE  /\ Has(k, c)' => Has(k, c)
             /\ Lives(k, c)' => Lives(k, c)
  BY <1>2, <1>3 DEF Has, Lives
<1>5. ASSUME NEW c \in Call, Concerns(k, c), pc' = "read" PROVE Concerns(k, c)'
  <2>1. /\ Asked(k) \subseteq {c} /\ conn[k].busy \in {None, c}
        /\ \A r \in Members(conn[k].replies) : r.to = c /\ r.whole
    BY <1>1, <1>5, ConcernsMembers DEF Concerns, Asked
  <2>2. /\ Asked(k)' \subseteq {c} /\ conn'[k].busy \in {None, c}
        /\ \A r \in Members(conn'[k].replies) : r.to = c /\ r.whole
    BY <1>3, <1>5, <2>1 DEF Fewer
  <2> QED
    BY <1>1, <2>2, ConcernsMembers DEF Concerns, Asked
<1>6. ASSUME SinglyAt(k) PROVE SinglyAt(k)'
  <2>1. None \notin Asked(k)' /\ None \notin Told(k)'
    <3>1. conn'[k].requests \in Seq(Call) /\ conn'[k].replies \in Seq(Reply)
      BY <1>1 DEF Connection
    <3>2. /\ \A i \in 1 .. Len(conn'[k].requests) : conn'[k].requests[i] \in Call
          /\ \A i \in 1 .. Len(conn'[k].replies) : conn'[k].replies[i] \in Reply
      BY <3>1, ElementOfSeq
    <3> QED
      BY <1>3, <3>2 DEF Asked, Told, Members, Reply
  <2> QED
    BY <1>2, <1>3, <1>6, <2>1 DEF SinglyAt, Fewer
<1> QED
  BY <1>4, <1>5, <1>6 DEF Gentle, Fewer

(* The steps of the server that are not plain, field by field.              *)
LEMMA TakeView ==
  ASSUME TypeOK, NEW k \in Conn, Take(k)
  PROVE  /\ conn'[k].st = conn[k].st /\ conn'[k].replies = conn[k].replies
         /\ conn[k].requests # <<>> /\ conn[k].busy = None
         /\ conn'[k].requests = Tail(conn[k].requests)
         /\ conn'[k].busy = Head(conn[k].requests) /\ conn'[k].done = FALSE
         /\ Head(conn[k].requests) \notin Huge
         /\ \A j \in Conn \ {k} : conn'[j] = conn[j]
BY ConnectionFields DEF Take, TypeOK, Connection

LEMMA TakeTooLongView ==
  ASSUME TypeOK, NEW k \in Conn, TakeTooLong(k)
  PROVE  /\ conn'[k].st = "draining"
         /\ conn'[k].replies = Replied(k, Head(conn[k].requests), FALSE)
         /\ conn[k].requests # <<>> /\ conn[k].busy = None
         /\ conn'[k].requests = Tail(conn[k].requests)
         /\ conn'[k].busy = None
         /\ \A j \in Conn \ {k} : conn'[j] = conn[j]
BY ConnectionFields DEF TakeTooLong, TypeOK, Connection

LEMMA AnswerView ==
  ASSUME TypeOK, NEW k \in Conn, NEW ok \in BOOLEAN,
         (Answer(k) /\ ok) \/ (Refuse(k) /\ ~ok)
  PROVE  /\ conn'[k].st = conn[k].st
         /\ conn'[k].replies = Replied(k, conn[k].busy, ok)
         /\ conn[k].busy # None /\ conn'[k].busy = None
         /\ conn'[k].requests = conn[k].requests
         /\ ok => conn[k].done
         /\ \A j \in Conn \ {k} : conn'[j] = conn[j]
<1>1. /\ conn' = [conn EXCEPT ![k].replies = Replied(k, conn[k].busy, ok),
                              ![k].busy = None, ![k].done = FALSE]
      /\ conn[k].busy # None /\ (ok => conn[k].done)
  <2>1. CASE ok
    <3>1. ok = TRUE
      BY <2>1
    <3> QED
      BY <3>1 DEF Answer
  <2>2. CASE ~ok
    <3>1. ok = FALSE
      BY <2>2
    <3> QED
      BY <3>1 DEF Refuse
  <2> QED
    BY <2>1, <2>2
<1> QED
  BY <1>1, ConnectionFields DEF TypeOK, Connection

LEMMA ExecuteView ==
  ASSUME TypeOK, NEW k \in Conn, Execute(k)
  PROVE  /\ conn'[k].st = conn[k].st /\ conn'[k].replies = conn[k].replies
         /\ conn'[k].requests = conn[k].requests
         /\ conn'[k].busy = conn[k].busy /\ conn[k].busy \in Call
         /\ ~conn[k].done /\ conn'[k].done = TRUE
         /\ \A j \in Conn \ {k} : conn'[j] = conn[j]
         /\ execs' = [execs EXCEPT ![conn[k].busy] = @ + 1]
BY ConnectionFields DEF Execute, TypeOK, Connection

(* What becomes of the replies.                                             *)
LEMMA RepliedView ==
  ASSUME TypeOK, NEW k \in Conn, NEW c \in Call, NEW ok \in BOOLEAN
  PROVE  /\ Len(Replied(k, c, ok)) \in Nat /\ Len(Replied(k, c, ok)) <= Len(conn[k].replies) + 1
         /\ Members(Replied(k, c, ok)) \subseteq
              Members(conn[k].replies) \cup {[to |-> c, ok |-> ok, whole |-> TRUE]}
         /\ k \in {writer, reader} => Members(Replied(k, c, ok)) =
              Members(conn[k].replies) \cup {[to |-> c, ok |-> ok, whole |-> TRUE]}
<1>1. [to |-> c, ok |-> ok, whole |-> TRUE] \in Reply
  BY DEF Reply
<1>2. conn[k].replies \in Seq(Reply)
  BY ConnectionFields
<1> DEFINE r == [to |-> c, ok |-> ok, whole |-> TRUE]
           s == conn[k].replies
<1>3. r \in Reply /\ s \in Seq(Reply)
  BY <1>1, <1>2
<1>4. Replied(k, c, ok) = IF k \in {writer, reader} THEN Append(s, r) ELSE <<>>
  BY DEF Replied
<1> SUFFICES /\ Len(Replied(k, c, ok)) \in Nat /\ Len(Replied(k, c, ok)) <= Len(s) + 1
             /\ Members(Replied(k, c, ok)) \subseteq Members(s) \cup {r}
             /\ k \in {writer, reader} => Members(Replied(k, c, ok)) = Members(s) \cup {r}
  OBVIOUS
<1> HIDE DEF r, s
<1>5. Len(s) \in Nat /\ Len(Append(s, r)) = Len(s) + 1 /\ Members(Append(s, r)) = Members(s) \cup {r}
  BY <1>3, AppendMembers
<1>6. CASE k \in {writer, reader}
  BY <1>4, <1>5, <1>6
<1>7. CASE k \notin {writer, reader}
  BY <1>4, <1>5, <1>7, EmptyMembers
<1> QED
  BY <1>6, <1>7

(* A request, or the dispatch of one, turns into its reply.                 *)
LEMMA ReplyGentle ==
  ASSUME TypeOK, TypeOK', NEW k \in Conn, NEW c \in Call, NEW ok \in BOOLEAN,
         conn'[k].replies = Replied(k, c, ok), conn'[k].busy = None,
         \/ /\ conn[k].requests # <<>> /\ c = Head(conn[k].requests)
            /\ conn'[k].requests = Tail(conn[k].requests) /\ conn[k].busy = None
         \/ conn[k].busy = c /\ conn'[k].requests = conn[k].requests
  PROVE  Gentle(k)
<1> DEFINE r == [to |-> c, ok |-> ok, whole |-> TRUE]
<1>0. /\ conn[k] \in Connection /\ conn'[k] \in Connection /\ None \notin Call
      /\ conn[k].requests \in Seq(Call)
      /\ Len(conn[k].requests) \in Nat /\ Len(conn[k].replies) \in Nat
  BY IpcAssumption, ConnectionFields, LenProperties DEF TypeOK
<1>1. /\ Members(conn'[k].replies) \subseteq Members(conn[k].replies) \cup {r}
      /\ Len(conn'[k].replies) \in Nat /\ Len(conn'[k].replies) <= Len(conn[k].replies) + 1
  BY RepliedView
<1>2. \/ /\ Asked(k) = Asked(k)' \cup {c} /\ conn[k].busy = None
         /\ Once(conn[k].requests) => c \notin Asked(k)' /\ Once(conn'[k].requests)
         /\ Len(conn'[k].requests) = Len(conn[k].requests) - 1
         /\ Len(conn[k].requests) \in Nat \ {0}
      \/ conn[k].busy = c /\ conn'[k].requests = conn[k].requests /\ Asked(k)' = Asked(k)
  <2>1. CASE /\ conn[k].requests # <<>> /\ c = Head(conn[k].requests)
             /\ conn'[k].requests = Tail(conn[k].requests) /\ conn[k].busy = None
    <3>1. /\ Members(conn[k].requests) = Members(Tail(conn[k].requests)) \cup {c}
          /\ Once(conn[k].requests) => /\ c \notin Members(Tail(conn[k].requests))
                                       /\ Once(Tail(conn[k].requests))
          /\ Len(Tail(conn[k].requests)) = Len(conn[k].requests) - 1
          /\ Len(conn[k].requests) \in Nat \ {0}
      BY <1>0, <2>1, TailMembers
    <3> QED
      BY <2>1, <3>1 DEF Asked
  <2>2. CASE conn[k].busy = c /\ conn'[k].requests = conn[k].requests
    BY <2>2 DEF Asked
  <2> QED
    BY <2>1, <2>2
<1>3. r.to = c /\ r.whole = TRUE
  OBVIOUS
<1> HIDE DEF r
<1>4. \A d : d \in Told(k)' => d \in Told(k) \cup {c}
  BY <1>1, <1>3 DEF Told
<1>5. ASSUME NEW d \in Call
      PROVE  (Has(k, d)' => Has(k, d)) /\ (Lives(k, d)' => Lives(k, d))
  BY <1>0, <1>2, <1>4 DEF Has, Lives
<1>6. ASSUME NEW d \in Call, Concerns(k, d) PROVE Concerns(k, d)'
  <2>1. /\ Asked(k) \subseteq {d} /\ conn[k].busy \in {None, d}
        /\ \A x \in Members(conn[k].replies) : x.to = d /\ x.whole
    BY <1>0, <1>6, ConcernsMembers DEF Concerns, Asked
  <2>2. c = d /\ Asked(k)' \subseteq {d}
    BY <1>0, <1>2, <2>1
  <2>3. \A x \in Members(conn'[k].replies) : x.to = d /\ x.whole
    BY <1>1, <1>3, <2>1, <2>2
  <2> QED
    BY <1>0, <2>2, <2>3, ConcernsMembers DEF Concerns, Asked
<1>7. ASSUME SinglyAt(k) PROVE SinglyAt(k)'
  <2>1. None \notin Asked(k)' /\ None \notin Told(k)'
    <3>1. conn'[k].requests \in Seq(Call) /\ conn'[k].replies \in Seq(Reply)
      BY <1>0 DEF Connection
    <3>2. /\ \A i \in 1 .. Len(conn'[k].requests) : conn'[k].requests[i] \in Call
          /\ \A i \in 1 .. Len(conn'[k].replies) : conn'[k].replies[i] \in Reply
      BY <3>1, ElementOfSeq
    <3> QED
      BY <1>0, <3>2 DEF Asked, Told, Members, Reply
  <2> QED
    BY <1>2, <1>4, <1>7, <2>1 DEF SinglyAt
<1>8. InFlight(k)' <= InFlight(k)
  <2>1. /\ InFlight(k)' = (Len(conn'[k].requests) + Len(conn'[k].replies)) + 0
        /\ InFlight(k) = (Len(conn[k].requests) + Len(conn[k].replies))
                         + (IF conn[k].busy = None THEN 0 ELSE 1)
    BY DEF InFlight
  <2> DEFINE a == Len(conn[k].requests)
             b == Len(conn[k].replies)
             a1 == Len(conn'[k].requests)
             b1 == Len(conn'[k].replies)
  <2>2. a \in Nat /\ b \in Nat /\ b1 \in Nat /\ b1 <= b + 1
    BY <1>0, <1>1
  <2>3. CASE conn[k].busy = None
    <3>1. InFlight(k)' = a1 + b1 /\ InFlight(k) = a + b /\ a1 = a - 1 /\ a \in Nat
      BY <1>0, <1>2, <2>1, <2>2, <2>3
    <3> HIDE DEF a, b, a1, b1
    <3> QED
      BY <2>2, <3>1
  <2>4. CASE conn[k].busy # None
    <3>1. InFlight(k)' = a1 + b1 /\ InFlight(k) = (a + b) + 1 /\ a1 = a
      BY <1>2, <2>1, <2>2, <2>4
    <3> HIDE DEF a, b, a1, b1
    <3> QED
      BY <2>2, <3>1
  <2> QED
    BY <2>3, <2>4
<1> QED
  BY <1>5, <1>6, <1>7, <1>8 DEF Gentle

LEMMA TakeGentle ==
  ASSUME TypeOK, TypeOK', NEW k \in Conn, Take(k)
  PROVE  Gentle(k)
<1> PICK c \in Call : c = Head(conn[k].requests)
  BY ConnectionFields, TailMembers, TakeView
<1>0. /\ conn[k] \in Connection /\ conn'[k] \in Connection /\ c # None
      /\ Len(conn[k].requests) \in Nat /\ Len(conn[k].replies) \in Nat
  BY IpcAssumption, ConnectionFields, LenProperties DEF TypeOK
<1>1. /\ Members(conn[k].requests) = Members(Tail(conn[k].requests)) \cup {c}
      /\ Once(conn[k].requests) => /\ c \notin Members(Tail(conn[k].requests))
                                   /\ Once(Tail(conn[k].requests))
      /\ Len(Tail(conn[k].requests)) = Len(conn[k].requests) - 1
      /\ Len(conn[k].requests) \in Nat \ {0}
  BY TakeView, ConnectionFields, TailMembers
<1>2. /\ Asked(k) = Asked(k)' \cup {c} /\ Told(k)' = Told(k)
      /\ Once(conn[k].requests) => c \notin Asked(k)' /\ Once(conn'[k].requests)
      /\ conn[k].busy = None /\ conn'[k].busy = c /\ conn'[k].done = FALSE
      /\ conn'[k].replies = conn[k].replies
  BY <1>1, TakeView DEF Asked, Told
<1>3. ASSUME NEW d \in Call
      PROVE  (Has(k, d)' => Has(k, d)) /\ (Lives(k, d)' => Lives(k, d))
  BY <1>2 DEF Has, Lives
<1>4. ASSUME NEW d \in Call, Concerns(k, d) PROVE Concerns(k, d)'
  <2>1. /\ Asked(k) \subseteq {d}
        /\ \A x \in Members(conn[k].replies) : x.to = d /\ x.whole
    BY <1>0, <1>4, ConcernsMembers DEF Concerns, Asked
  <2>2. c = d /\ Asked(k)' \subseteq {d}
    BY <1>2, <2>1
  <2>3. \A x \in Members(conn'[k].replies) : x.to = d /\ x.whole
    BY <1>2, <2>1
  <2> QED
    BY <1>0, <1>2, <2>2, <2>3, ConcernsMembers DEF Concerns, Asked
<1>5. ASSUME SinglyAt(k) PROVE SinglyAt(k)'
  BY <1>2, <1>5 DEF SinglyAt
<1>6. InFlight(k)' <= InFlight(k)
  <2> DEFINE a == Len(conn[k].requests)
             b == Len(conn[k].replies)
  <2>1. InFlight(k)' = ((a - 1) + b) + 1 /\ InFlight(k) = (a + b) + 0 /\ a \in Nat /\ b \in Nat
    BY <1>0, <1>1, <1>2, TakeView DEF InFlight
  <2> HIDE DEF a, b
  <2> QED
    BY <2>1
<1> QED
  BY <1>3, <1>4, <1>5, <1>6 DEF Gentle

LEMMA ExecuteGentle ==
  ASSUME TypeOK, TypeOK', NEW k \in Conn, Execute(k)
  PROVE  Gentle(k)
<1>1. /\ Asked(k)' = Asked(k) /\ Told(k)' = Told(k) /\ conn'[k].busy = conn[k].busy
      /\ conn'[k].requests = conn[k].requests /\ conn'[k].replies = conn[k].replies
      /\ conn'[k].done = TRUE
  BY ExecuteView DEF Asked, Told
<1>2. InFlight(k)' = InFlight(k) /\ InFlight(k) \in Nat
  BY <1>1, InFlightNat DEF InFlight
<1>3. \A c \in Call : Concerns(k, c) => Concerns(k, c)'
  BY <1>1 DEF Concerns
<1>4. InFlight(k)' <= InFlight(k)
  BY <1>2
<1>5. SinglyAt(k) => SinglyAt(k)'
  BY <1>1 DEF SinglyAt
<1>6. \A c \in Call : (Has(k, c)' => Has(k, c)) /\ (Lives(k, c)' => Lives(k, c))
  BY <1>1 DEF Has, Lives
<1> QED
  BY <1>3, <1>4, <1>5, <1>6 DEF Gentle

(* A line is thrown away unread.                                            *)
LEMMA FewerSwallow ==
  ASSUME TypeOK, NEW n \in Conn, Swallow(n)
  PROVE  \A k \in Conn : Fewer(k)
<1>1. /\ conn'[n].requests = Tail(conn[n].requests) /\ conn'[n].replies = conn[n].replies
      /\ conn'[n].busy = conn[n].busy /\ conn'[n].done = conn[n].done
      /\ conn[n].requests # <<>>
      /\ \A k \in Conn \ {n} : conn'[k] = conn[k]
  BY ConnectionFields DEF Swallow, TypeOK, Connection
<1>2. /\ Members(Tail(conn[n].requests)) \subseteq Members(conn[n].requests)
      /\ Once(conn[n].requests) => Once(Tail(conn[n].requests))
      /\ Len(Tail(conn[n].requests)) = Len(conn[n].requests) - 1
      /\ Len(conn[n].requests) \in Nat \ {0}
  BY <1>1, ConnectionFields, TailMembers
<1>3. Len(conn[n].replies) \in Nat
  BY ConnectionFields, LenProperties
<1>4. /\ Len(conn'[n].requests) \in Nat /\ Len(conn'[n].requests) <= Len(conn[n].requests)
      /\ Len(conn'[n].replies) \in Nat /\ Len(conn'[n].replies) <= Len(conn[n].replies)
      /\ conn[n].busy = None => conn'[n].busy = None
      /\ Len(conn[n].requests) \in Nat
  <2> DEFINE a == Len(conn[n].requests)
  <2>1. Len(conn'[n].requests) = a - 1 /\ a \in Nat \ {0}
    BY <1>1, <1>2
  <2> HIDE DEF a
  <2>2. Len(conn'[n].requests) \in Nat /\ Len(conn'[n].requests) <= a /\ a \in Nat
    BY <2>1
  <2> QED
    BY <1>1, <1>3, <2>2 DEF a
<1>5. InFlight(n)' <= InFlight(n)
  BY <1>3, <1>4, InFlightLess
<1>6. Fewer(n)
  BY <1>1, <1>2, <1>5 DEF Fewer, Asked
<1>7. ASSUME NEW k \in Conn \ {n} PROVE Fewer(k)
  BY <1>1, FewerPlain
<1> QED
  BY <1>6, <1>7

LEMMA ShutView ==
  ASSUME TypeOK, NEW k \in Conn
  PROVE  /\ Shut(k).requests = <<>> /\ Shut(k).busy = None /\ Shut(k).done = FALSE
         /\ Shut(k).replies \in {conn[k].replies, <<>>}
         /\ k \in {writer, reader} => /\ Shut(k).st = "closed"
                                      /\ Shut(k).replies = conn[k].replies
         /\ Shut(k).st \in {"closed", "none"}
         /\ Shut(k).st = "none" => Shut(k).replies = <<>>
BY ConnectionFields DEF Shut, NoConnection, Connection

(* The steps that take nothing from a request to its reply.                 *)
Plain ==
  \/ \E c \in Call : FirstCall(c) \/ BeginCall(c) \/ CancelFirst(c)
  \/ First \/ Connect \/ ConnectFails \/ SendFails
  \/ Read \/ ReadTooLong \/ ReadRest \/ ReadEof \/ CallTimeout \/ Leaves
  \/ \E k \in Conn : Accept(k) \/ Drained(k) \/ Ends(k)
  \/ Crash \/ Start
  \/ UNCHANGED vars

LEMMA FewerSteps ==
  ASSUME TypeOK, Plain
  PROVE  execs' = execs /\ \A k \in Conn : Fewer(k)
<1> USE DEF serverVars, clientVars, counters
<1>1. ASSUME NEW c \in Call, FirstCall(c) \/ BeginCall(c) \/ CancelFirst(c)
      PROVE  execs' = execs /\ \A k \in Conn : Fewer(k)
  <2>1. conn' = conn /\ execs' = execs
    BY <1>1 DEF FirstCall, BeginCall, CancelFirst
  <2> QED
    BY <2>1, FewerSame
<1>2. ASSUME NEW c \in Call, FirstConnects(c) \/ FirstFails(c)
      PROVE  execs' = execs /\ \A k \in Conn : Fewer(k)
  <2>1. CASE FirstConnects(c)
    BY <2>1, FewerOpened DEF FirstConnects
  <2>2. CASE FirstFails(c)
    BY <2>2, FewerSame DEF FirstFails
  <2> QED
    BY <1>2, <2>1, <2>2
<1>3. CASE Connect
  BY <1>3, FewerOpened DEF Connect
<1>4. CASE ConnectFails \/ SendFails \/ ReadEof \/ CallTimeout
  <2>1. FailAttempt /\ execs' = execs
    BY <1>4 DEF ConnectFails, SendFails, ReadEof, CallTimeout, Silence
  <2>2. conn' = Leave({writer, reader})
    BY <2>1 DEF FailAttempt
  <2> QED
    BY <2>1, <2>2, FewerLeave
<1>5. CASE Read \/ ReadTooLong \/ ReadRest
  <2>1. execs' = execs
    BY <1>5 DEF Read, ReadTooLong, ReadRest, EndRead
  <2> QED
    BY <1>5, <2>1, FewerRead
<1>6. CASE Leaves
  <2>1. conn' = Leave({reader} \ {writer}) /\ execs' = execs
    BY <1>6 DEF Leaves, CallTimeoutLeaves, Cancel, Silence, Abandon
  <2> QED
    BY <2>1, FewerLeave
<1>7. ASSUME NEW n \in Conn, Accept(n) PROVE execs' = execs /\ \A k \in Conn : Fewer(k)
  <2>1. /\ conn'[n].requests = conn[n].requests /\ conn'[n].replies = conn[n].replies
        /\ conn'[n].busy = conn[n].busy /\ conn'[n].done = conn[n].done
        /\ \A k \in Conn \ {n} : conn'[k] = conn[k]
        /\ execs' = execs
    BY <1>7, ConnectionFields DEF Accept, TypeOK, Connection
  <2>2. Fewer(n)
    BY <2>1, FewerPlain
  <2>3. ASSUME NEW k \in Conn \ {n} PROVE Fewer(k)
    BY <2>1, FewerPlain
  <2> QED
    BY <2>1, <2>2, <2>3
<1>8. ASSUME NEW n \in Conn, Swallow(n) PROVE execs' = execs /\ \A k \in Conn : Fewer(k)
  BY <1>8, FewerSwallow DEF Swallow
<1>9. ASSUME NEW n \in Conn, CloseIdle(n) \/ CloseDrained(n)
      PROVE  execs' = execs /\ \A k \in Conn : Fewer(k)
  <2>1. /\ conn'[n] = Shut(n) /\ execs' = execs
        /\ \A k \in Conn \ {n} : conn'[k] = conn[k]
    BY <1>9 DEF CloseIdle, CloseDrained, TypeOK
  <2>2. Fewer(n)
    BY <2>1, ShutView, FewerPlain
  <2>3. ASSUME NEW k \in Conn \ {n} PROVE Fewer(k)
    BY <2>1, FewerPlain
  <2> QED
    BY <2>1, <2>2, <2>3
<1>10. CASE Crash
  <2>1. ASSUME NEW k \in Conn PROVE Fewer(k)
    <3>1. \/ conn'[k] = conn[k]
          \/ conn'[k] = Shut(k)
          \/ conn'[k] = [Shut(k) EXCEPT !.replies = <<>>]
      BY <1>10 DEF Crash
    <3>2. CASE conn'[k] = conn[k]
      BY <3>2, FewerPlain
    <3>3. CASE conn'[k] = Shut(k)
      BY <3>3, ShutView, FewerPlain
    <3>4. CASE conn'[k] = [Shut(k) EXCEPT !.replies = <<>>]
      <4>1. conn'[k].requests = <<>> /\ conn'[k].busy = None /\ conn'[k].replies = <<>>
        BY <3>4, ShutView, ShutType DEF Connection
      <4> QED
        BY <4>1, FewerPlain
    <3> QED
      BY <3>1, <3>2, <3>3, <3>4
  <2> QED
    BY <1>10, <2>1 DEF Crash
<1>11. CASE Start \/ (\E k \in Conn : Drained(k)) \/ UNCHANGED vars
  BY <1>11, FewerSame DEF Start, Drained, vars
<1> QED
  BY <1>1, <1>2, <1>3, <1>4, <1>5, <1>6, <1>7, <1>8, <1>9, <1>10, <1>11 DEF Plain, Ends, First

(* Nothing but a step of Send adds to a line.                               *)
LEMMA GentleSteps ==
  ASSUME TypeOK, TypeOK', Plain \/ \E n \in Conn : Serve(n)
  PROVE  \A k \in Conn : Gentle(k)
<1>1. CASE Plain
  BY <1>1, FewerSteps, FewerGentle
<1>2. ASSUME NEW n \in Conn, Gentle(n), \A k \in Conn \ {n} : conn'[k] = conn[k]
      PROVE  \A k \in Conn : Gentle(k)
  <2> SUFFICES ASSUME NEW k \in Conn \ {n} PROVE Gentle(k)
    BY <1>2
  <2>1. Fewer(k)
    BY <1>2, FewerPlain
  <2> QED
    BY <2>1, FewerGentle
<1>3. ASSUME NEW n \in Conn, Accept(n) PROVE \A k \in Conn : Gentle(k)
  <2>1. Plain
    BY <1>3 DEF Plain
  <2> QED
    BY <1>1, <2>1
<1>4. ASSUME NEW n \in Conn, Take(n) PROVE \A k \in Conn : Gentle(k)
  BY <1>2, <1>4, TakeGentle, TakeView
<1>5. ASSUME NEW n \in Conn, TakeTooLong(n) PROVE \A k \in Conn : Gentle(k)
  <2>1. Head(conn[n].requests) \in Call
    BY <1>5, TakeTooLongView, ConnectionFields, TailMembers
  <2>2. Gentle(n)
    BY <1>5, <2>1, TakeTooLongView, ReplyGentle
  <2> QED
    BY <1>2, <1>5, <2>2, TakeTooLongView
<1>6. ASSUME NEW n \in Conn, Execute(n) PROVE \A k \in Conn : Gentle(k)
  BY <1>2, <1>6, ExecuteGentle, ExecuteView
<1>7. ASSUME NEW n \in Conn, Answer(n) \/ Refuse(n) PROVE \A k \in Conn : Gentle(k)
  <2>1. PICK ok \in BOOLEAN : (Answer(n) /\ ok) \/ (Refuse(n) /\ ~ok)
    BY <1>7
  <2>2. conn[n].busy \in Call
    BY <2>1, AnswerView, ConnectionFields
  <2>3. Gentle(n)
    BY <2>1, <2>2, AnswerView, ReplyGentle
  <2> QED
    BY <1>2, <2>1, <2>3, AnswerView
<1> QED
  BY <1>1, <1>3, <1>4, <1>5, <1>6, <1>7 DEF Serve

-----------------------------------------------------------------------------
(* Standing.                                                                *)

(* A failed attempt: on to the next one, or the call has ended.             *)
LEMMA FailAttemptEnds ==
  ASSUME FailAttempt
  PROVE  /\ writer' = 0 /\ reader' = 0 /\ skewed' = {} /\ reply' = reply
         /\ conn' = Leave({writer, reader})
         /\ \/ pc' = "send" /\ cur' = cur /\ st' = st
            \/ pc' = "idle" /\ EndCall("raised")
BY DEF FailAttempt, EndCall

(* The steps of a call that has the lock, by how they leave it.             *)
Fails == ConnectFails \/ SendFails \/ ReadEof \/ CallTimeout
Reads == Read \/ ReadTooLong \/ ReadRest

LEMMA FailsView ==
  ASSUME TypeOK, Fails
  PROVE  /\ FailAttempt /\ replaced' = replaced /\ crashes' = crashes
         /\ cur \in Call /\ pc \in {"send", "read"}
         /\ \/ timeouts' = timeouts
            \/ CallTimeout /\ timeouts' = timeouts + 1
         /\ up' = up /\ cancels' = cancels
<1>1. pc \in {"send", "read"}
  BY DEF Fails, ConnectFails, SendFails, ReadEof, CallTimeout, Silence
<1>2. cur \in Call
  BY <1>1 DEF TypeOK
<1> QED
  BY <1>1, <1>2 DEF Fails, ConnectFails, SendFails, ReadEof, CallTimeout, Silence, counters, serverVars

LEMMA ReadsView ==
  ASSUME TypeOK, Reads
  PROVE  \E n \in Conn, o \in Outcome :
         /\ n = reader /\ pc = "read" /\ cur \in Call
         /\ conn[n].replies # <<>>
         /\ EndCall(o) /\ UNCHANGED <<writer, replaced, serverVars, counters>>
         /\ reader # writer => conn' = Leave({n}) /\ skewed' = skewed \ {n}
         /\ reader = writer =>
              /\ conn'[n].st = conn[n].st /\ conn'[n].requests = conn[n].requests
              /\ conn'[n].busy = conn[n].busy
              /\ \A k \in Conn \ {n} : conn'[k] = conn[k]
              /\ \/ n \in skewed'
                 \/ conn'[n].replies = Tail(conn[n].replies)
              /\ skewed \subseteq skewed'
<1>1. /\ pc = "read" /\ conn[reader].replies # <<>> /\ reader \in Conn /\ cur \in Call
  BY DEF Reads, Read, ReadTooLong, ReadRest, Waiting, TypeOK
<1> PICK n \in Conn : n = reader
  BY <1>1
<1>2. PICK o \in Outcome, skew \in SUBSET {reader} : \E rest :
        /\ EndRead(o, rest, skew)
        /\ rest = Tail(conn[n].replies) \/ skew = {reader}
  <2>1. CASE Read
    <3>1. \E o \in Outcome : EndRead(o, Tail(conn[reader].replies), {})
      BY <2>1 DEF Read, Outcome
    <3>2. {} \in SUBSET {reader}
      OBVIOUS
    <3> QED
      BY <3>1, <3>2
  <2>2. CASE ReadTooLong \/ ReadRest
    <3>1. "raised" \in Outcome /\ {} \in SUBSET {reader} /\ {reader} \in SUBSET {reader}
      BY DEF Outcome
    <3>2. \/ EndRead("raised", Tail(conn[reader].replies), {})
          \/ \E rest : EndRead("raised", rest, {reader})
      BY <2>2 DEF ReadTooLong, ReadRest
    <3> QED
      BY <3>1, <3>2
  <2> QED
    BY <2>1, <2>2 DEF Reads
<1> PICK rest : /\ EndRead(o, rest, skew)
                /\ rest = Tail(conn[n].replies) \/ skew = {reader}
  BY <1>2
<1>3. /\ EndCall(o) /\ UNCHANGED <<writer, replaced, serverVars, counters>>
      /\ reader # writer => conn' = Leave({n}) /\ skewed' = skewed \ {n}
  BY DEF EndRead
<1>4. ASSUME reader = writer
      PROVE  /\ conn'[n].st = conn[n].st /\ conn'[n].requests = conn[n].requests
             /\ conn'[n].busy = conn[n].busy
             /\ \A k \in Conn \ {n} : conn'[k] = conn[k]
             /\ \/ n \in skewed'
                \/ conn'[n].replies = Tail(conn[n].replies)
             /\ skewed \subseteq skewed'
  <2>1. conn' = [conn EXCEPT ![n].replies = rest] /\ skewed' = skewed \cup skew
    BY <1>4 DEF EndRead
  <2>2. /\ conn'[n] = [conn[n] EXCEPT !.replies = rest]
        /\ \A k \in Conn \ {n} : conn'[k] = conn[k]
    BY <2>1 DEF TypeOK
  <2>3. /\ conn'[n].st = conn[n].st /\ conn'[n].requests = conn[n].requests
        /\ conn'[n].busy = conn[n].busy /\ conn'[n].replies = rest
    BY <2>2, ConnectionFields DEF Connection
  <2> QED
    BY <2>1, <2>2, <2>3
<1> QED
  BY <1>1, <1>3, <1>4

LEMMA StandingEnd ==
  ASSUME TypeOK, Standing, cur \in Call, NEW o \in Outcome, EndCall(o), replaced' = replaced
  PROVE  Standing'
<1>1. /\ cur' = None /\ reader' = 0 /\ None \notin Call
      /\ \A c \in Call : st'[c] = IF c = cur THEN o ELSE st[c]
  BY IpcAssumption DEF EndCall, TypeOK
<1>2. o \notin {"new", "first", "active"}
  BY DEF Outcome
<1> QED
  BY <1>1, <1>2 DEF Standing, Begun

LEMMA StandingStep ==
  ASSUME TypeOK, TypeOK', Standing, Next
  PROVE  Standing'
<1> USE DEF serverVars, clientVars, counters
<1>1. ASSUME NEW c \in Call, FirstCall(c) PROVE Standing'
  <2>1. /\ \A d \in Call : st[d] = "new" /\ st'[d] = IF d = c THEN "first" ELSE st[d]
        /\ UNCHANGED <<cur, writer, reader, replaced>>
    BY <1>1 DEF FirstCall, Begun, TypeOK
  <2> QED
    BY <2>1 DEF Standing, Begun
<1>2. ASSUME NEW c \in Call, BeginCall(c) PROVE Standing'
  <2>1. /\ \A d \in Call : st'[d] = IF d = c THEN "active" ELSE st[d]
        /\ cur = None /\ cur' = c /\ None \notin Call
        /\ UNCHANGED <<writer, reader, replaced>>
    BY <1>2, IpcAssumption DEF BeginCall, TypeOK
  <2> QED
    BY <2>1 DEF Standing, Begun
<1>3. ASSUME NEW c \in Call, CancelFirst(c) \/ FirstFails(c) PROVE Standing'
  <2>1. /\ \A d \in Call : d # c => st'[d] = st[d]
        /\ st'[c] \in {"raised"} /\ st[c] \in {"first", "ready"}
        /\ UNCHANGED <<cur, writer, reader, replaced>>
    BY <1>3 DEF CancelFirst, FirstFails, TypeOK
  <2> QED
    BY <2>1 DEF Standing, Begun
<1>4. ASSUME NEW c \in Call, FirstConnects(c) PROVE Standing'
  <2>1. /\ \A d \in Call : st'[d] = IF d = c THEN "ready" ELSE st[d]
        /\ st[c] = "first" /\ replaced' = (replaced \/ pc = "read")
        /\ UNCHANGED <<cur, reader>>
    BY <1>4 DEF FirstConnects, TypeOK
  <2>2. writer' \in Conn /\ 0 \notin Conn
    BY <1>4, OpenedView DEF FirstConnects, Conn
  <2>3. reader # 0 => pc = "read"
    BY DEF TypeOK
  <2> QED
    BY <2>1, <2>2, <2>3 DEF Standing, Begun
<1>5. CASE Connect
  <2>1. UNCHANGED <<cur, reader, st, replaced>> /\ pc = "send"
    BY <1>5 DEF Connect
  <2>2. reader = 0
    BY <2>1 DEF TypeOK
  <2> QED
    BY <2>1, <2>2 DEF Standing, Begun
<1>6. CASE Fails
  <2>1. FailAttempt /\ replaced' = replaced /\ cur \in Call
    BY <1>6, FailsView
  <2>2. CASE cur' = cur /\ st' = st
    BY <2>1, <2>2, FailAttemptEnds DEF Standing, Begun
  <2>3. CASE EndCall("raised")
    BY <2>1, <2>3, StandingEnd DEF Outcome
  <2> QED
    BY <2>1, <2>2, <2>3, FailAttemptEnds
<1>7. CASE Reads
  BY <1>7, ReadsView, StandingEnd
<1>8. CASE Send
  BY <1>8 DEF Send, Standing, Begun
<1>9. CASE Leaves
  <2>1. EndCall("raised") /\ replaced' = replaced /\ cur \in Call
    BY <1>9 DEF Leaves, CallTimeoutLeaves, Cancel, Silence, Abandon, TypeOK
  <2> QED
    BY <2>1, StandingEnd DEF Outcome
<1>10. ASSUME NEW k \in Conn, Serve(k) \/ Drained(k) \/ Ends(k)
       PROVE  UNCHANGED <<clientVars, counters>>
  BY <1>10 DEF Serve, Accept, Take, TakeTooLong, Execute, Answer, Refuse, Drained, Ends, Swallow,
     CloseIdle, CloseDrained
<1>11. ASSUME UNCHANGED clientVars PROVE Standing'
  BY <1>11 DEF Standing, Begun
<1>12. CASE Crash \/ Start
  BY <1>11, <1>12 DEF Crash, Start
<1> QED
  BY <1>1, <1>2, <1>3, <1>4, <1>5, <1>6, <1>7, <1>8, <1>9, <1>10, <1>11, <1>12
  DEF Next, Leaves, Ends, First, Client, Fails, Reads

-----------------------------------------------------------------------------
(* Shape.                                                                   *)

LEMMA LeaveShape ==
  ASSUME TypeOK, Shape, NEW S, NEW k \in Conn
  PROVE  ShapeOf(Leave(S)[k])
<1>1. ShapeOf(NoConnection)
  <2>1. None \notin Huge
    BY IpcAssumption
  <2> QED
    BY <2>1 DEF ShapeOf, NoConnection
<1>2. CASE Leave(S)[k] = NoConnection
  BY <1>1, <1>2
<1>3. CASE Leave(S)[k] # NoConnection
  <2>1. ShapeOf(conn[k])
    BY DEF Shape
  <2> QED
    BY <1>3, <2>1, LeaveView DEF ShapeOf
<1> QED
  BY <1>2, <1>3

LEMMA ShapeHeld ==
  ASSUME TypeOK, Shape, NEW k \in {writer, reader} \ {0}
  PROVE  k \in Conn /\ conn[k].st # "none" /\ conn[k] \in Connection
BY DEF Shape, TypeOK

(* The steps of the client ...                                              *)
LEMMA ShapeClient ==
  ASSUME TypeOK, TypeOK', Shape,
         \/ \E c \in Call : FirstCall(c) \/ BeginCall(c) \/ CancelFirst(c)
         \/ First \/ Client \/ CallTimeout \/ Leaves
  PROVE  Shape'
<1> USE DEF serverVars, counters
<1>0. None \notin Huge /\ 0 \notin Conn
  BY IpcAssumption DEF Conn
<1>1. ASSUME UNCHANGED <<writer, reader, conn>> PROVE Shape'
  BY <1>1 DEF Shape
<1>2. ASSUME NEW c \in Call, BeginCall(c) \/ FirstCall(c) \/ CancelFirst(c) \/ FirstFails(c)
      PROVE  Shape'
  BY <1>1, <1>2 DEF BeginCall, FirstCall, CancelFirst, FirstFails
<1>3. ASSUME NEW n \in Conn, Opened(n), reader' = reader PROVE Shape'
  <2>1. /\ writer' = n /\ conn[n].st = "none"
        /\ conn'[n].st \in {"open", "backlog"} /\ conn'[n].busy = None
        /\ \A k \in Conn \ {n} : conn'[k] = Leave({writer} \ {0, reader})[k]
    BY <1>3, OpenedView
  <2>2. ShapeOf(conn'[n])
    BY <1>0, <2>1 DEF ShapeOf
  <2>3. ASSUME NEW k \in Conn PROVE ShapeOf(conn'[k])
    BY <2>1, <2>2, LeaveShape
  <2>4. ASSUME reader # 0 PROVE conn'[reader].st # "none"
    <3>1. PICK m \in Conn : m = reader /\ conn[m].st # "none"
      BY <2>4, ShapeHeld
    <3>2. conn'[m] = conn[m]
      BY <2>1, <3>1, LeaveView
    <3> QED
      BY <3>1, <3>2
  <2>5. \A k \in {writer', reader'} \ {0} : conn'[k].st # "none"
    BY <1>3, <2>1, <2>4
  <2> QED
    BY <2>3, <2>5 DEF Shape
<1>4. ASSUME NEW c \in Call, FirstConnects(c) PROVE Shape'
  BY <1>3, <1>4 DEF FirstConnects
<1>5. CASE Connect
  BY <1>3, <1>5 DEF Connect
<1>6. CASE Fails
  <2>1. writer' = 0 /\ reader' = 0 /\ conn' = Leave({writer, reader})
    BY <1>6, FailsView, FailAttemptEnds
  <2> QED
    BY <2>1, LeaveShape DEF Shape
<1>7. CASE Reads
  <2>1. PICK n \in Conn :
         /\ n = reader /\ writer' = writer /\ reader' = 0
         /\ reader # writer => conn' = Leave({n})
         /\ reader = writer =>
              /\ conn'[n].st = conn[n].st /\ conn'[n].requests = conn[n].requests
              /\ conn'[n].busy = conn[n].busy
              /\ \A k \in Conn \ {n} : conn'[k] = conn[k]
    BY <1>7, ReadsView DEF EndCall
  <2>2. CASE reader # writer
    <3>1. ASSUME writer # 0 PROVE conn'[writer].st # "none"
      <4>1. PICK m \in Conn : m = writer /\ conn[m].st # "none"
        BY <3>1, ShapeHeld
      <4>2. conn'[m] = conn[m]
        BY <2>1, <2>2, <4>1, LeaveView
      <4> QED
        BY <4>1, <4>2
    <3>2. \A k \in Conn : ShapeOf(conn'[k])
      BY <2>1, <2>2, LeaveShape
    <3>3. \A k \in {writer', reader'} \ {0} : conn'[k].st # "none"
      BY <2>1, <3>1
    <3> QED
      BY <3>2, <3>3 DEF Shape
  <2>3. CASE reader = writer
    <3>1. conn[n].st # "none" /\ conn'[n].st # "none" /\ ShapeOf(conn[n])
      BY <1>0, <2>1, <2>3 DEF Shape
    <3>2. ShapeOf(conn'[n])
      BY <2>1, <2>3, <3>1 DEF ShapeOf
    <3>3. ASSUME NEW k \in Conn PROVE ShapeOf(conn'[k])
      BY <2>1, <2>3, <3>2 DEF Shape
    <3>4. \A k \in {writer', reader'} \ {0} : conn'[k].st # "none"
      BY <2>1, <2>3, <3>1
    <3> QED
      BY <3>3, <3>4 DEF Shape
  <2> QED
    BY <2>2, <2>3
<1>8. CASE Send
  <2>1. PICK n \in Conn : n = writer /\ conn[n].st \notin {"closed", "none"}
    BY <1>8, ShapeHeld DEF Send
  <2>2. /\ conn'[n].st = conn[n].st /\ conn'[n].busy = conn[n].busy
        /\ \A k \in Conn \ {n} : conn'[k] = conn[k]
        /\ writer' = n /\ reader' = n
    BY <1>8, <2>1, ConnectionFields DEF Send, TypeOK, Connection
  <2>3. ShapeOf(conn'[n])
    BY <2>1, <2>2 DEF ShapeOf, Shape
  <2>4. ASSUME NEW k \in Conn PROVE ShapeOf(conn'[k])
    BY <2>2, <2>3 DEF Shape
  <2>5. \A k \in {writer', reader'} \ {0} : conn'[k].st # "none"
    BY <2>1, <2>2
  <2> QED
    BY <2>4, <2>5 DEF Shape
<1>9. CASE Leaves
  <2>1. writer' = writer /\ reader' = 0 /\ conn' = Leave({reader} \ {writer})
    BY <1>9 DEF Leaves, CallTimeoutLeaves, Cancel, Silence, Abandon, EndCall
  <2>2. ASSUME writer # 0 PROVE conn'[writer].st # "none"
    <3>1. PICK m \in Conn : m = writer /\ conn[m].st # "none"
      BY <2>2, ShapeHeld
    <3>2. conn'[m] = conn[m]
      BY <2>1, <3>1, LeaveView
    <3> QED
      BY <3>1, <3>2
  <2>3. \A k \in Conn : ShapeOf(conn'[k])
    BY <2>1, LeaveShape
  <2>4. \A k \in {writer', reader'} \ {0} : conn'[k].st # "none"
    BY <2>1, <2>2
  <2> QED
    BY <2>3, <2>4 DEF Shape
<1> QED
  BY <1>2, <1>4, <1>5, <1>6, <1>7, <1>8, <1>9 DEF First, Client, Fails, Reads

(* ... and of the server.                                                   *)
LEMMA ShapeServer ==
  ASSUME TypeOK, TypeOK', Shape,
         \/ \E k \in Conn : Serve(k) \/ Drained(k) \/ Ends(k)
         \/ Crash \/ Start
  PROVE  Shape'
<1> USE DEF clientVars, serverVars, counters
<1>0. None \notin Huge
  BY IpcAssumption
<1>1. ASSUME NEW n \in Conn, \A k \in Conn \ {n} : conn'[k] = conn[k], ShapeOf(conn'[n]),
             n \in {writer, reader} => conn'[n].st # "none", UNCHANGED clientVars
      PROVE  Shape'
  <2>1. \A k \in Conn : ShapeOf(conn'[k])
    BY <1>1 DEF Shape
  <2>2. ASSUME NEW k \in {writer, reader} \ {0} PROVE conn'[k].st # "none"
    BY <1>1, <2>2, ShapeHeld
  <2>3. writer' = writer /\ reader' = reader
    BY <1>1
  <2> QED
    BY <2>1, <2>2, <2>3 DEF Shape
<1>2. \A k \in Conn : ShapeOf(conn[k]) /\ (k \in {writer, reader} => conn[k].st # "none")
  BY DEF Shape, Conn
<1>3. ASSUME NEW n \in Conn, Accept(n) PROVE Shape'
  <2>1. /\ conn'[n].st = "open" /\ conn'[n].busy = conn[n].busy
        /\ \A k \in Conn \ {n} : conn'[k] = conn[k]
        /\ UNCHANGED clientVars
    BY <1>3, ConnectionFields DEF Accept, TypeOK, Connection
  <2>2. ShapeOf(conn'[n])
    BY <1>2, <2>1 DEF ShapeOf
  <2> QED
    BY <1>1, <2>1, <2>2
<1>4. ASSUME NEW n \in Conn, Take(n) PROVE Shape'
  <2>1. conn[n].st = "open" /\ UNCHANGED clientVars
    BY <1>4 DEF Take
  <2>2. ShapeOf(conn'[n]) /\ conn'[n].st # "none"
    BY <1>4, <2>1, TakeView DEF ShapeOf
  <2> QED
    BY <1>1, <1>4, <2>1, <2>2, TakeView
<1>5. ASSUME NEW n \in Conn, TakeTooLong(n) PROVE Shape'
  <2>1. UNCHANGED clientVars
    BY <1>5 DEF TakeTooLong
  <2>2. ShapeOf(conn'[n]) /\ conn'[n].st # "none"
    BY <1>0, <1>5, TakeTooLongView DEF ShapeOf
  <2> QED
    BY <1>1, <1>5, <2>1, <2>2, TakeTooLongView
<1>6. ASSUME NEW n \in Conn, Execute(n) PROVE Shape'
  <2>1. UNCHANGED clientVars
    BY <1>6 DEF Execute
  <2>2. ShapeOf(conn'[n]) /\ conn'[n].st = conn[n].st
    BY <1>2, <1>6, ExecuteView DEF ShapeOf
  <2> QED
    BY <1>1, <1>2, <1>6, <2>1, <2>2, ExecuteView
<1>7. ASSUME NEW n \in Conn, NEW ok \in BOOLEAN, (Answer(n) /\ ok) \/ (Refuse(n) /\ ~ok)
      PROVE  Shape'
  <2>1. UNCHANGED clientVars
    BY <1>7 DEF Answer, Refuse
  <2>2. ShapeOf(conn'[n]) /\ conn'[n].st = conn[n].st
    BY <1>0, <1>2, <1>7, AnswerView DEF ShapeOf
  <2> QED
    BY <1>1, <1>2, <1>7, <2>1, <2>2, AnswerView
<1>8. ASSUME NEW n \in Conn, Answer(n) \/ Refuse(n) PROVE Shape'
  <2>1. PICK ok \in BOOLEAN : (Answer(n) /\ ok) \/ (Refuse(n) /\ ~ok)
    BY <1>8
  <2> QED
    BY <1>7, <2>1
<1>9. ASSUME NEW n \in Conn, Swallow(n) PROVE Shape'
  <2>1. /\ conn'[n].st = "draining" /\ conn'[n].busy = conn[n].busy /\ conn[n].st = "draining"
        /\ \A k \in Conn \ {n} : conn'[k] = conn[k]
        /\ UNCHANGED clientVars
    BY <1>9, ConnectionFields DEF Swallow, TypeOK, Connection
  <2>2. ShapeOf(conn'[n])
    BY <1>2, <2>1 DEF ShapeOf
  <2> QED
    BY <1>1, <2>1, <2>2
<1>10. ASSUME NEW k \in Conn
       PROVE  ShapeOf(Shut(k)) /\ (k \in {writer, reader} => Shut(k).st # "none")
  BY <1>0, ShutView DEF ShapeOf
<1>11. ASSUME NEW n \in Conn, CloseIdle(n) \/ CloseDrained(n) PROVE Shape'
  <2>1. /\ conn'[n] = Shut(n) /\ \A k \in Conn \ {n} : conn'[k] = conn[k]
        /\ UNCHANGED clientVars
    BY <1>11 DEF CloseIdle, CloseDrained, TypeOK
  <2> QED
    BY <1>1, <1>10, <2>1
<1>12. CASE Crash
  <2>1. ASSUME NEW k \in Conn
        PROVE  ShapeOf(conn'[k]) /\ (k \in {writer, reader} => conn'[k].st # "none")
    <3>1. \/ conn'[k] = conn[k]
          \/ conn'[k] = Shut(k)
          \/ conn'[k] = [Shut(k) EXCEPT !.replies = <<>>]
      BY <1>12 DEF Crash
    <3>2. CASE conn'[k] = [Shut(k) EXCEPT !.replies = <<>>]
      <4>1. /\ conn'[k].requests = <<>> /\ conn'[k].busy = None /\ conn'[k].replies = <<>>
            /\ conn'[k].st = Shut(k).st
        BY <3>2, ShutView, ShutType DEF Connection
      <4> QED
        BY <1>0, <1>10, <4>1 DEF ShapeOf
    <3> QED
      BY <1>2, <1>10, <3>1, <3>2
  <2>2. UNCHANGED clientVars
    BY <1>12 DEF Crash
  <2>3. ASSUME NEW k \in {writer, reader} \ {0} PROVE conn'[k].st # "none"
    BY <2>1, ShapeHeld
  <2> QED
    BY <2>1, <2>2, <2>3 DEF Shape
<1>13. CASE Start \/ \E k \in Conn : Drained(k)
  BY <1>13 DEF Start, Drained, Shape
<1> QED
  BY <1>3, <1>4, <1>5, <1>6, <1>8, <1>9, <1>11, <1>12, <1>13 DEF Serve, Ends

-----------------------------------------------------------------------------
(* What is on the lines.                                                    *)

LEMMA NextCases == Next => Send \/ Plain \/ \E n \in Conn : Serve(n)
BY DEF Next, Plain, First, Client, Leaves, Ends

LEMMA ServeClient ==
  ASSUME NEW n \in Conn, Serve(n)
  PROVE  UNCHANGED <<clientVars, counters>>
BY DEF Serve, Accept, Take, TakeTooLong, Execute, Answer, Refuse

LEMMA SendView ==
  ASSUME TypeOK, Send
  PROVE  \E n \in Conn :
         /\ n = writer /\ cur \in Call /\ pc = "send" /\ reader = 0
         /\ pc' = "read" /\ reader' = n /\ writer' = n /\ cur' = cur
         /\ conn'[n].requests = Append(conn[n].requests, cur)
         /\ conn'[n].replies = conn[n].replies
         /\ conn'[n].busy = conn[n].busy /\ conn'[n].done = conn[n].done
         /\ \A k \in Conn \ {n} : conn'[k] = conn[k]
         /\ Asked(n)' = Asked(n) \cup {cur} /\ Told(n)' = Told(n)
         /\ Once(conn[n].requests) /\ cur \notin Asked(n) => Once(conn'[n].requests)
         /\ Len(conn'[n].requests) = Len(conn[n].requests) + 1
         /\ UNCHANGED <<st, skewed, replaced, execs, crashes, timeouts>>
<1>1. writer \in Conn /\ cur \in Call /\ pc = "send" /\ reader = 0
  BY DEF Send, TypeOK
<1> PICK n \in Conn : n = writer
  BY <1>1
<1>2. /\ conn'[n].requests = Append(conn[n].requests, cur)
      /\ conn'[n].replies = conn[n].replies
      /\ conn'[n].busy = conn[n].busy /\ conn'[n].done = conn[n].done
      /\ \A k \in Conn \ {n} : conn'[k] = conn[k]
  BY <1>1, ConnectionFields DEF Send, TypeOK, Connection
<1>3. /\ Members(Append(conn[n].requests, cur)) = Members(conn[n].requests) \cup {cur}
      /\ Once(conn[n].requests) /\ cur \notin Members(conn[n].requests)
           => Once(Append(conn[n].requests, cur))
      /\ Len(Append(conn[n].requests, cur)) = Len(conn[n].requests) + 1
  BY <1>1, ConnectionFields, AppendMembers
<1>4. /\ Asked(n)' = Asked(n) \cup {cur} /\ Told(n)' = Told(n)
      /\ Once(conn[n].requests) /\ cur \notin Asked(n) => Once(conn'[n].requests)
  BY <1>2, <1>3 DEF Asked, Told
<1> QED
  BY <1>1, <1>2, <1>3, <1>4 DEF Send, serverVars, counters

(* A call is on a connection in one form at a time: what is sent was not    *)
(* there.                                                                   *)
LEMMA SinglyStep ==
  ASSUME TypeOK, TypeOK', Singly, Unsent, Next
  PROVE  Singly'
<1>1. CASE Plain \/ \E n \in Conn : Serve(n)
  BY <1>1, GentleSteps DEF Singly, Gentle
<1>2. CASE Send
  <2>1. PICK n \in Conn :
         /\ n = writer /\ cur \in Call /\ pc = "send"
         /\ conn'[n].busy = conn[n].busy
         /\ \A k \in Conn \ {n} : conn'[k] = conn[k]
         /\ Asked(n)' = Asked(n) \cup {cur} /\ Told(n)' = Told(n)
         /\ Once(conn[n].requests) /\ cur \notin Asked(n) => Once(conn'[n].requests)
    BY <1>2, SendView
  <2>2. ~Has(n, cur)
    BY <2>1 DEF Unsent, Conn
  <2>3. SinglyAt(n)'
    BY <2>1, <2>2 DEF Singly, SinglyAt, Has
  <2>4. ASSUME NEW k \in Conn \ {n} PROVE SinglyAt(k)'
    BY <2>1 DEF Singly, SinglyAt, Asked, Told
  <2> QED
    BY <2>3, <2>4 DEF Singly
<1> QED
  BY <1>1, <1>2, NextCases

(* What a step does to the call that waits ...                              *)
LEMMA PlainWaits ==
  ASSUME TypeOK, Plain, pc' = "read"
  PROVE  /\ pc = "read" /\ reader' = reader /\ cur' = cur
         /\ reader \notin skewed' => reader \notin skewed
         /\ ~Fails /\ ~Reads /\ ~Leaves /\ ~Connect
<1> USE DEF clientVars
<1>1. ASSUME NEW c \in Call, FirstCall(c) \/ CancelFirst(c) \/ FirstFails(c)
      PROVE  UNCHANGED <<pc, reader, cur, skewed>>
  BY <1>1 DEF FirstCall, CancelFirst, FirstFails
<1>2. ASSUME NEW c \in Call, FirstConnects(c)
      PROVE  UNCHANGED <<pc, reader, cur>> /\ skewed' = skewed \cap {reader}
  BY <1>2, OpenedView DEF FirstConnects
<1>3. ASSUME NEW c \in Call, BeginCall(c) PROVE pc' # "read"
  BY <1>3 DEF BeginCall
<1>4. Connect => pc' # "read"
  BY DEF Connect
<1>5. Fails => pc' # "read"
  BY FailsView, FailAttemptEnds
<1>6. Reads => pc' # "read"
  BY ReadsView DEF EndCall
<1>7. Leaves => pc' # "read"
  BY DEF Leaves, CallTimeoutLeaves, Cancel, Silence, Abandon, EndCall
<1>8. ASSUME NEW k \in Conn, Accept(k) \/ Drained(k) \/ Ends(k)
      PROVE  UNCHANGED clientVars
  BY <1>8 DEF Accept, Drained, Ends, Swallow, CloseIdle, CloseDrained
<1>9. Crash \/ Start \/ UNCHANGED vars => UNCHANGED clientVars
  BY DEF Crash, Start, vars
<1> QED
  BY <1>1, <1>2, <1>3, <1>4, <1>5, <1>6, <1>7, <1>8, <1>9 DEF Plain, Ends, First, Fails, Reads

(* ... and to the connection that nobody waits on.                          *)
LEMMA PlainRests ==
  ASSUME TypeOK, Plain, writer' \notin {0, reader'} \cup skewed'
  PROVE  \/ writer' = writer /\ writer \notin {0, reader} \cup skewed
         \/ \E n \in Conn : /\ writer' = n /\ conn'[n].requests = <<>>
                            /\ conn'[n].replies = <<>> /\ conn'[n].busy = None
         \/ Reads /\ reader = writer
<1> USE DEF clientVars
<1>1. ASSUME NEW c \in Call, FirstCall(c) \/ CancelFirst(c) \/ FirstFails(c) \/ BeginCall(c)
      PROVE  UNCHANGED <<writer, reader, skewed>>
  BY <1>1 DEF FirstCall, CancelFirst, FirstFails, BeginCall
<1>2. ASSUME NEW n \in Conn, Opened(n)
      PROVE  /\ writer' = n /\ conn'[n].requests = <<>>
             /\ conn'[n].replies = <<>> /\ conn'[n].busy = None
  BY <1>2, OpenedView
<1>3. Fails => writer' = 0
  BY FailsView, FailAttemptEnds
<1>4. ASSUME Reads, reader # writer PROVE writer' = writer /\ writer \notin {0, reader} \cup skewed
  <2>1. PICK n \in Conn : n = reader /\ writer' = writer /\ reader' = 0 /\ skewed' = skewed \ {n}
    BY <1>4, ReadsView DEF EndCall
  <2> QED
    BY <1>4, <2>1
<1>5. ASSUME Leaves PROVE writer' = writer /\ writer \notin {0, reader} \cup skewed
  <2>1. /\ writer' = writer /\ reader' = 0
        /\ skewed' = ((skewed \cup {reader}) \cap {writer}) \ {0}
    BY <1>5 DEF Leaves, CallTimeoutLeaves, Cancel, Silence, Abandon, EndCall
  <2> QED
    BY <2>1
<1>6. ASSUME NEW k \in Conn, Accept(k) \/ Drained(k) \/ Ends(k)
      PROVE  UNCHANGED clientVars
  BY <1>6 DEF Accept, Drained, Ends, Swallow, CloseIdle, CloseDrained
<1>7. Crash \/ Start \/ UNCHANGED vars => UNCHANGED clientVars
  BY DEF Crash, Start, vars
<1>8. ASSUME NEW c \in Call, FirstConnects(c) PROVE \E n \in Conn : Opened(n)
  BY <1>8 DEF FirstConnects
<1>9. Connect => \E n \in Conn : Opened(n)
  BY DEF Connect
<1> QED
  BY <1>1, <1>2, <1>3, <1>4, <1>5, <1>6, <1>7, <1>8, <1>9 DEF Plain, Ends, First, Fails, Reads

LEMMA EmptyLine ==
  ASSUME TypeOK, NEW k \in Conn
  PROVE  /\ InFlight(k) = 0 <=> /\ conn[k].requests = <<>> /\ conn[k].replies = <<>>
                                /\ conn[k].busy = None
         /\ InFlight(k) <= 1 /\ conn[k].replies # <<>> =>
              conn[k].requests = <<>> /\ conn[k].busy = None /\ Len(conn[k].replies) = 1
<1> DEFINE a == Len(conn[k].requests)
           b == Len(conn[k].replies)
           n == IF conn[k].busy = None THEN 0 ELSE 1
<1>1. InFlight(k) = (a + b) + n /\ n \in {0, 1} /\ (n = 0 <=> conn[k].busy = None)
  BY DEF InFlight
<1>2. /\ a \in Nat /\ (a = 0 <=> conn[k].requests = <<>>)
      /\ b \in Nat /\ (b = 0 <=> conn[k].replies = <<>>)
  BY ConnectionFields, LenProperties, EmptySeq
<1>3. b = Len(conn[k].replies)
  OBVIOUS
<1> HIDE DEF a, b, n
<1>4. InFlight(k) = 0 <=> a = 0 /\ b = 0 /\ n = 0
  BY <1>1, <1>2
<1>5. InFlight(k) <= 1 /\ b # 0 => a = 0 /\ n = 0 /\ b = 1
  BY <1>1, <1>2
<1> QED
  BY <1>1, <1>2, <1>3, <1>4, <1>5

(* While a call waits, its line carries it and nothing else, unless a call  *)
(* before it has left something behind; the line nobody waits on is empty.  *)
LEMMA OneInFlightStep ==
  ASSUME TypeOK, TypeOK', OneInFlight, Unsent, Next
  PROVE  OneInFlight'
<1> USE DEF clientVars
<1>0. \A k \in Conn : k # 0
  BY DEF Conn
<1>1. ASSUME NEW n \in Conn, conn'[n].requests = <<>>, conn'[n].replies = <<>>,
             conn'[n].busy = None
      PROVE  InFlight(n)' = 0
  BY <1>1, EmptyMembers DEF InFlight
<1>2. CASE Plain
  <2>1. ASSUME pc' = "read", reader' \notin skewed'
        PROVE  InFlight(reader)' <= 1 /\ Concerns(reader, cur)'
    <3>1. pc = "read" /\ reader' = reader /\ cur' = cur /\ reader \notin skewed
      BY <1>2, <2>1, PlainWaits
    <3>2. reader \in Conn /\ cur \in Call
      BY <3>1 DEF TypeOK
    <3>3. PICK n \in Conn : n = reader
      BY <3>2
    <3>4. PICK c \in Call : c = cur
      BY <3>2
    <3>5. InFlight(n) <= 1 /\ Concerns(n, c) /\ InFlight(n) \in Nat
      BY <3>1, <3>3, <3>4, InFlightNat DEF OneInFlight
    <3>6. InFlight(n)' <= InFlight(n) /\ Concerns(n, c)'
      BY <1>2, <2>1, <3>5, GentleSteps DEF Gentle
    <3>7. InFlight(n)' \in Nat
      BY InFlightNatNext
    <3>8. InFlight(n)' <= 1
      BY <3>5, <3>6, <3>7
    <3>9. reader' = n /\ cur' = c
      BY <3>1, <3>3, <3>4
    <3> QED
      BY <3>6, <3>8, <3>9 DEF InFlight, Concerns
  <2>2. ASSUME writer' \notin {0, reader'} \cup skewed' PROVE InFlight(writer)' = 0
    <3>1. CASE writer' = writer /\ writer \notin {0, reader} \cup skewed
      <4>1. PICK n \in Conn : n = writer
        BY <3>1 DEF TypeOK
      <4>2. InFlight(n) = 0
        BY <3>1, <4>1 DEF OneInFlight
      <4>3. InFlight(n)' <= 0 /\ InFlight(n)' \in Nat
        <5>1. InFlight(n)' <= InFlight(n)
          BY <1>2, GentleSteps DEF Gentle
        <5>2. InFlight(n)' \in Nat
          BY InFlightNatNext
        <5> QED
          BY <4>2, <5>1, <5>2
      <4>4. InFlight(n)' = 0 /\ writer' = n
        BY <3>1, <4>1, <4>3
      <4> QED
        BY <4>4 DEF InFlight
    <3>2. ASSUME NEW n \in Conn, writer' = n, conn'[n].requests = <<>>,
                 conn'[n].replies = <<>>, conn'[n].busy = None
          PROVE  InFlight(writer)' = 0
      <4>1. InFlight(n)' = 0
        BY <1>1, <3>2
      <4> QED
        BY <3>2, <4>1 DEF InFlight
    <3>3. CASE Reads /\ reader = writer
      <4>1. PICK n \in Conn :
              /\ n = reader /\ pc = "read" /\ writer' = writer
              /\ conn[n].replies # <<>>
              /\ conn'[n].requests = conn[n].requests
              /\ conn'[n].busy = conn[n].busy
              /\ \/ n \in skewed'
                 \/ conn'[n].replies = Tail(conn[n].replies)
              /\ skewed \subseteq skewed'
        BY <3>3, ReadsView
      <4>2. n \notin skewed' /\ n \notin skewed /\ conn'[n].replies = Tail(conn[n].replies)
        BY <2>2, <3>3, <4>1
      <4>3. InFlight(n) <= 1
        BY <4>1, <4>2 DEF OneInFlight
      <4>4. conn[n].requests = <<>> /\ conn[n].busy = None /\ Len(conn[n].replies) = 1
        BY <4>1, <4>3, EmptyLine
      <4>5. conn'[n].replies \in Seq(Reply) /\ Len(conn'[n].replies) = 1 - 1
        BY <4>1, <4>2, <4>4, ConnectionFields, TailMembers
      <4>6. conn'[n].replies = <<>>
        BY <4>5, EmptySeq
      <4> QED
        BY <3>2, <3>3, <4>1, <4>4, <4>6
    <3> QED
      BY <1>2, <2>2, <3>1, <3>2, <3>3, PlainRests
  <2> QED
    BY <2>1, <2>2 DEF OneInFlight
<1>3. ASSUME NEW m \in Conn, Serve(m) PROVE OneInFlight'
  <2>1. UNCHANGED clientVars /\ \A k \in Conn : Gentle(k)
    BY <1>3, ServeClient, GentleSteps
  <2>2. ASSUME pc' = "read", reader' \notin skewed'
        PROVE  InFlight(reader)' <= 1 /\ Concerns(reader, cur)'
    <3>1. PICK n \in Conn, c \in Call : n = reader /\ c = cur /\ reader' = n /\ cur' = c
      BY <2>1, <2>2 DEF TypeOK
    <3>2. InFlight(n) <= 1 /\ Concerns(n, c) /\ InFlight(n) \in Nat
      BY <2>1, <2>2, <3>1, InFlightNat DEF OneInFlight
    <3>3. InFlight(n)' <= InFlight(n) /\ Concerns(n, c)'
      BY <2>1, <2>2, <3>2 DEF Gentle
    <3>4. InFlight(n)' \in Nat
      BY InFlightNatNext
    <3>5. InFlight(n)' <= 1
      BY <3>2, <3>3, <3>4
    <3> QED
      BY <3>1, <3>3, <3>5 DEF InFlight, Concerns
  <2>3. ASSUME writer' \notin {0, reader'} \cup skewed' PROVE InFlight(writer)' = 0
    <3>1. PICK n \in Conn : n = writer /\ writer' = n
      BY <2>1, <2>3 DEF TypeOK
    <3>2. InFlight(n) = 0
      BY <2>1, <2>3, <3>1 DEF OneInFlight
    <3>3. InFlight(n)' <= InFlight(n)
      BY <2>1 DEF Gentle
    <3>4. InFlight(n)' \in Nat
      BY InFlightNatNext
    <3>5. InFlight(n)' = 0
      BY <3>2, <3>3, <3>4
    <3> QED
      BY <3>1, <3>5 DEF InFlight
  <2> QED
    BY <2>2, <2>3 DEF OneInFlight
<1>4. CASE Send
  <2>1. PICK n \in Conn :
         /\ n = writer /\ cur \in Call /\ pc = "send" /\ reader = 0
         /\ reader' = n /\ writer' = n /\ cur' = cur /\ skewed' = skewed
         /\ conn'[n].requests = Append(conn[n].requests, cur)
         /\ conn'[n].replies = conn[n].replies
         /\ conn'[n].busy = conn[n].busy
         /\ Asked(n)' = Asked(n) \cup {cur}
         /\ Len(conn'[n].requests) = Len(conn[n].requests) + 1
    BY <1>4, SendView
  <2>2. ASSUME n \notin skewed
        PROVE  InFlight(n)' = 1 /\ Concerns(n, cur)'
    <3>1. InFlight(n) = 0
      BY <1>0, <2>1, <2>2 DEF OneInFlight
    <3>2. /\ conn[n].requests = <<>> /\ conn[n].replies = <<>> /\ conn[n].busy = None
      BY <3>1, EmptyLine
    <3>3. Len(conn'[n].requests) = 1 /\ Len(conn'[n].replies) = 0
      BY <2>1, <3>2, EmptyMembers
    <3>4. InFlight(n)' = 1
      BY <2>1, <3>2, <3>3 DEF InFlight
    <3>5. Asked(n)' \subseteq {cur} /\ Members(conn'[n].replies) = {}
      BY <2>1, <3>2, EmptyMembers DEF Asked
    <3>6. conn'[n] \in Connection
      BY DEF TypeOK
    <3> QED
      BY <2>1, <3>2, <3>4, <3>5, <3>6, ConcernsMembers DEF Concerns, Asked
  <2>3. n \notin skewed => InFlight(reader)' <= 1 /\ Concerns(reader, cur)'
    <3> SUFFICES ASSUME n \notin skewed PROVE InFlight(reader)' <= 1 /\ Concerns(reader, cur)'
      OBVIOUS
    <3>1. InFlight(n)' <= 1 /\ Concerns(n, cur)'
      BY <2>2
    <3> QED
      BY <2>1, <3>1 DEF InFlight, Concerns
  <2> QED
    BY <2>1, <2>3 DEF OneInFlight
<1> QED
  BY <1>2, <1>3, <1>4, NextCases

(* A reply says "ok" of what has been done.                                 *)
LEMMA TruthfulStep ==
  ASSUME TypeOK, TypeOK', Truthful, Next
  PROVE  Truthful'
<1> DEFINE True(x, e) == /\ \A r \in Members(x.replies) : r.ok => e[r.to] > 0
                         /\ x.busy # None /\ x.done => e[x.busy] > 0
<1>1. Truthful => \A k \in Conn : True(conn[k], execs)
  BY DEF Truthful
<1>2. (\A k \in Conn : True(conn'[k], execs')) => Truthful'
  BY DEF Truthful
<1>3. CASE Plain
  BY <1>1, <1>2, <1>3, FewerSteps DEF Fewer
<1>4. CASE Send
  <2>1. PICK n \in Conn :
         /\ conn'[n].replies = conn[n].replies
         /\ conn'[n].busy = conn[n].busy /\ conn'[n].done = conn[n].done
         /\ \A k \in Conn \ {n} : conn'[k] = conn[k]
         /\ execs' = execs
    BY <1>4, SendView
  <2>2. ASSUME NEW k \in Conn PROVE True(conn'[k], execs')
    BY <1>1, <2>1
  <2> QED
    BY <1>2, <2>2
<1>5. ASSUME NEW n \in Conn, \A k \in Conn \ {n} : conn'[k] = conn[k], execs' = execs,
             True(conn'[n], execs')
      PROVE  Truthful'
  <2>1. ASSUME NEW k \in Conn PROVE True(conn'[k], execs')
    BY <1>1, <1>5
  <2> QED
    BY <1>2, <2>1
<1>6. ASSUME NEW n \in Conn, Take(n) PROVE Truthful'
  <2>1. execs' = execs
    BY <1>6 DEF Take, serverVars
  <2>2. conn'[n].replies = conn[n].replies /\ conn'[n].done = FALSE
    BY <1>6, TakeView
  <2>3. True(conn'[n], execs')
    <3>1. \A r \in Members(conn'[n].replies) : r.ok => execs'[r.to] > 0
      BY <1>1, <2>1, <2>2
    <3>2. ~conn'[n].done
      BY <2>2, Zenon
    <3> QED
      BY <3>1, <3>2
  <2> QED
    BY <1>5, <1>6, <2>1, <2>3, TakeView
<1>7. ASSUME NEW n \in Conn, TakeTooLong(n) PROVE Truthful'
  <2>1. /\ conn'[n].replies = Replied(n, Head(conn[n].requests), FALSE)
        /\ Head(conn[n].requests) \in Call /\ conn'[n].busy = None
        /\ execs' = execs
    BY <1>7, TakeTooLongView, ConnectionFields, TailMembers DEF TakeTooLong, serverVars
  <2> DEFINE x == [to |-> Head(conn[n].requests), ok |-> FALSE, whole |-> TRUE]
  <2>2. Members(conn'[n].replies) \subseteq Members(conn[n].replies) \cup {x} /\ ~x.ok
    BY <2>1, RepliedView
  <2> HIDE DEF x
  <2>3. True(conn'[n], execs')
    BY <1>1, <2>1, <2>2
  <2> QED
    BY <1>5, <1>7, <2>1, <2>3, TakeTooLongView
<1>8. ASSUME NEW n \in Conn, NEW ok \in BOOLEAN, (Answer(n) /\ ok) \/ (Refuse(n) /\ ~ok)
      PROVE  Truthful'
  <2>1. /\ conn'[n].replies = Replied(n, conn[n].busy, ok)
        /\ conn[n].busy \in Call /\ conn[n].busy # None /\ conn'[n].busy = None
        /\ ok => conn[n].done
        /\ execs' = execs
    BY <1>8, AnswerView, ConnectionFields DEF Answer, Refuse, serverVars
  <2> DEFINE x == [to |-> conn[n].busy, ok |-> ok, whole |-> TRUE]
  <2>2. Members(conn'[n].replies) \subseteq Members(conn[n].replies) \cup {x}
    BY <2>1, RepliedView
  <2>3. x.ok => execs[x.to] > 0
    BY <1>1, <2>1
  <2> HIDE DEF x
  <2>4. True(conn'[n], execs')
    BY <1>1, <2>1, <2>2, <2>3
  <2> QED
    BY <1>5, <1>8, <2>1, <2>4, AnswerView
<1>9. ASSUME NEW n \in Conn, Execute(n) PROVE Truthful'
  <2>1. PICK c \in Call : c = conn[n].busy /\ execs' = [execs EXCEPT ![c] = @ + 1]
    BY <1>9, ExecuteView
  <2>2. execs \in [Call -> Nat]
    BY DEF TypeOK
  <2>3. /\ \A d \in Call : execs[d] > 0 => execs'[d] > 0
        /\ execs'[c] > 0
    BY <2>1, <2>2
  <2>4. ASSUME NEW k \in Conn, NEW r \in Members(conn'[k].replies), r.ok
        PROVE  execs'[r.to] > 0
    <3>1. r \in Members(conn[k].replies) /\ execs[r.to] > 0
      BY <1>1, <1>9, <2>4, ExecuteView
    <3>2. r.to \in Call
      <4>1. conn[k].replies \in Seq(Reply)
        BY ConnectionFields
      <4>2. \A i \in 1 .. Len(conn[k].replies) : conn[k].replies[i] \in Reply
        BY <4>1, ElementOfSeq
      <4> QED
        BY <3>1, <4>2 DEF Members, Reply
    <3> QED
      BY <2>3, <3>1, <3>2
  <2>5. ASSUME NEW k \in Conn, conn'[k].busy # None, conn'[k].done
        PROVE  execs'[conn'[k].busy] > 0
    <3>1. CASE k = n
      BY <1>9, <2>1, <2>3, <3>1, ExecuteView
    <3>2. CASE k # n
      <4>1. conn'[k] = conn[k]
        BY <1>9, <3>2, ExecuteView
      <4>2. conn[k].busy \in Call \cup {None}
        BY ConnectionFields
      <4> QED
        BY <1>1, <2>3, <2>5, <4>1, <4>2
    <3> QED
      BY <3>1, <3>2
  <2> QED
    BY <2>4, <2>5 DEF Truthful
<1>10. ASSUME NEW n \in Conn, Serve(n) PROVE Truthful'
  <2>1. Accept(n) => Plain
    BY DEF Plain
  <2>2. ASSUME Answer(n) \/ Refuse(n) PROVE Truthful'
    <3>1. PICK ok \in BOOLEAN : (Answer(n) /\ ok) \/ (Refuse(n) /\ ~ok)
      BY <2>2
    <3> QED
      BY <1>8, <3>1
  <2> QED
    BY <1>3, <1>6, <1>7, <1>9, <1>10, <2>1, <2>2 DEF Serve
<1> QED
  BY <1>3, <1>4, <1>10, NextCases

(* No step takes a call back to before its first attempt.                   *)
Quiet == {"new", "first", "ready"}

LEMMA QuietStep ==
  ASSUME TypeOK, TypeOK', Standing, Next, NEW c \in Call, st'[c] \in Quiet
  PROVE  st[c] \in Quiet
<1> USE DEF clientVars, Quiet
<1>1. ASSUME NEW d \in Call, FirstCall(d) \/ BeginCall(d) \/ CancelFirst(d) \/ FirstFails(d)
                             \/ FirstConnects(d)
      PROVE  st[c] \in Quiet
  BY <1>1 DEF FirstCall, BeginCall, CancelFirst, FirstFails, FirstConnects, Begun, TypeOK
<1>2. ASSUME NEW o \in Outcome, EndCall(o) PROVE st[c] \in Quiet
  <2>1. o \notin Quiet
    BY DEF Outcome
  <2> QED
    BY <1>2, <2>1 DEF EndCall, TypeOK
<1>3. CASE Fails
  BY <1>2, <1>3, FailsView, FailAttemptEnds DEF Outcome
<1>4. CASE Reads
  BY <1>2, <1>4, ReadsView
<1>5. CASE Leaves
  BY <1>2, <1>5 DEF Leaves, CallTimeoutLeaves, Cancel, Silence, Abandon, Outcome
<1>6. ASSUME UNCHANGED st PROVE st[c] \in Quiet
  BY <1>6
<1>7. ASSUME NEW n \in Conn, Serve(n) \/ Drained(n) \/ Ends(n)
      PROVE  UNCHANGED st
  BY <1>7, ServeClient DEF Drained, Ends, Swallow, CloseIdle, CloseDrained
<1>8. Send \/ Connect \/ Crash \/ Start => UNCHANGED st
  BY DEF Send, Connect, Crash, Start
<1> QED
  BY <1>1, <1>3, <1>4, <1>5, <1>6, <1>7, <1>8 DEF Next, Leaves, Ends, First, Client, Fails, Reads

LEMMA PlainSends ==
  ASSUME TypeOK, Plain, pc' = "send", writer' # 0
  PROVE  \/ pc = "send" /\ writer' = writer /\ cur' = cur
         \/ \E c \in Call : BeginCall(c)
         \/ \E n \in Conn : /\ writer' = n /\ conn'[n].requests = <<>>
                            /\ conn'[n].replies = <<>> /\ conn'[n].busy = None
<1> USE DEF clientVars
<1>1. ASSUME NEW c \in Call, FirstCall(c) \/ CancelFirst(c) \/ FirstFails(c)
      PROVE  UNCHANGED <<pc, writer, cur>>
  BY <1>1 DEF FirstCall, CancelFirst, FirstFails
<1>2. ASSUME NEW n \in Conn, Opened(n)
      PROVE  /\ writer' = n /\ conn'[n].requests = <<>>
             /\ conn'[n].replies = <<>> /\ conn'[n].busy = None
  BY <1>2, OpenedView
<1>3. Fails => writer' = 0
  BY FailsView, FailAttemptEnds
<1>4. Reads => pc' # "send"
  BY ReadsView DEF EndCall
<1>5. Leaves => pc' # "send"
  BY DEF Leaves, CallTimeoutLeaves, Cancel, Silence, Abandon, EndCall
<1>6. ASSUME NEW k \in Conn, Accept(k) \/ Drained(k) \/ Ends(k)
      PROVE  UNCHANGED clientVars
  BY <1>6 DEF Accept, Drained, Ends, Swallow, CloseIdle, CloseDrained
<1>7. Crash \/ Start \/ UNCHANGED vars => UNCHANGED clientVars
  BY DEF Crash, Start, vars
<1>8. ASSUME NEW c \in Call, FirstConnects(c) PROVE \E n \in Conn : Opened(n)
  BY <1>8 DEF FirstConnects
<1>9. Connect => \E n \in Conn : Opened(n)
  BY DEF Connect
<1> QED
  BY <1>1, <1>2, <1>3, <1>4, <1>5, <1>6, <1>7, <1>8, <1>9 DEF Plain, Ends, First, Fails, Reads

(* What a call has not sent is nowhere.                                     *)
LEMMA UnsentStep ==
  ASSUME TypeOK, TypeOK', Standing, Unsent, Next
  PROVE  Unsent'
<1> USE DEF clientVars
<1>1. ASSUME NEW c \in Call, st[c] \in Quiet
      PROVE  execs[c] = 0 /\ \A k \in Conn : ~Has(k, c)
  BY <1>1 DEF Unsent, Quiet
<1>2. ASSUME NEW c \in Call, st'[c] \in Quiet
      PROVE  execs'[c] = 0 /\ \A k \in Conn : ~Has(k, c)'
  <2>1. st[c] \in Quiet
    BY <1>2, QuietStep
  <2>2. execs[c] = 0 /\ \A k \in Conn : ~Has(k, c)
    BY <1>1, <2>1
  <2>3. CASE Plain
    BY <2>2, <2>3, FewerSteps, GentleSteps DEF Gentle
  <2>4. ASSUME NEW n \in Conn, Serve(n)
        PROVE  execs'[c] = 0 /\ \A k \in Conn : ~Has(k, c)'
    <3>1. \A k \in Conn : ~Has(k, c)'
      BY <2>2, <2>4, GentleSteps DEF Gentle
    <3>2. CASE Execute(n)
      <4>1. conn[n].busy # c
        BY <2>2 DEF Has
      <4> QED
        BY <2>2, <3>1, <3>2, <4>1, ExecuteView DEF TypeOK
    <3>3. CASE ~Execute(n)
      <4>1. execs' = execs
        BY <2>4, <3>3 DEF Serve, Accept, Take, TakeTooLong, Answer, Refuse, serverVars
      <4> QED
        BY <2>2, <3>1, <4>1
    <3> QED
      BY <3>2, <3>3
  <2>5. CASE Send
    <3>1. PICK n \in Conn :
           /\ cur \in Call
           /\ conn'[n].busy = conn[n].busy
           /\ \A k \in Conn \ {n} : conn'[k] = conn[k]
           /\ Asked(n)' = Asked(n) \cup {cur} /\ Told(n)' = Told(n)
           /\ execs' = execs
      BY <2>5, SendView
    <3>2. c # cur
      BY <2>1, <3>1 DEF Standing, Quiet
    <3>3. ~Has(n, c)'
      BY <2>2, <3>1, <3>2 DEF Has
    <3>4. ASSUME NEW k \in Conn \ {n} PROVE ~Has(k, c)'
      BY <2>2, <3>1 DEF Has, Asked, Told
    <3> QED
      BY <2>2, <3>1, <3>3, <3>4
  <2> QED
    BY <2>3, <2>4, <2>5, NextCases
<1>3. ASSUME pc' = "send", writer' # 0 PROVE ~Has(writer, cur)'
  <2>1. ASSUME NEW n \in Conn, NEW c \in Call, writer' = n, cur' = c, ~Has(n, c)'
        PROVE  ~Has(writer, cur)'
    BY <2>1 DEF Has, Asked, Told
  <2>2. PICK n \in Conn, c \in Call : writer' = n /\ cur' = c
    BY <1>3 DEF TypeOK
  <2>3. ASSUME pc = "send", writer' = writer, cur' = cur, \A k \in Conn : Gentle(k)
        PROVE  ~Has(writer, cur)'
    <3>1. n = writer /\ c = cur /\ writer # 0
      BY <1>3, <2>2, <2>3
    <3>2. ~Has(n, c)
      BY <2>3, <3>1 DEF Unsent
    <3>3. ~Has(n, c)'
      BY <2>3, <3>2 DEF Gentle
    <3> QED
      BY <2>1, <2>2, <3>3
  <2>4. ASSUME NEW d \in Call, BeginCall(d) PROVE ~Has(writer, cur)'
    <3>1. st[d] \in Quiet /\ cur' = d
      BY <2>4 DEF BeginCall, Quiet
    <3>2. Plain
      BY <2>4 DEF Plain
    <3>3. ~Has(n, c)'
      BY <1>1, <2>2, <3>1, <3>2, GentleSteps DEF Gentle
    <3> QED
      BY <2>1, <2>2, <3>3
  <2>5. ASSUME NEW m \in Conn, writer' = m, conn'[m].requests = <<>>,
               conn'[m].replies = <<>>, conn'[m].busy = None
        PROVE  ~Has(writer, cur)'
    <3>1. None # c
      BY <2>2, IpcAssumption
    <3>2. ~Has(m, c)'
      BY <2>5, <3>1, EmptyMembers DEF Has, Asked, Told
    <3> QED
      BY <2>1, <2>2, <2>5, <3>2
  <2>6. CASE Plain
    BY <1>3, <2>3, <2>4, <2>5, <2>6, PlainSends, GentleSteps
  <2>7. ASSUME NEW m \in Conn, Serve(m) PROVE ~Has(writer, cur)'
    <3>1. UNCHANGED clientVars /\ \A k \in Conn : Gentle(k)
      BY <2>7, ServeClient, GentleSteps
    <3> QED
      BY <1>3, <2>3, <3>1
  <2>8. ~Send
    BY <1>3 DEF Send
  <2> QED
    BY <2>6, <2>7, <2>8, NextCases
<1> QED
  BY <1>2, <1>3 DEF Unsent, Quiet

-----------------------------------------------------------------------------
(* How often a call has its effect.                                         *)

LEMMA SomeConnections ==
  ASSUME NEW S \in SUBSET Conn
  PROVE  /\ Cardinality(S) \in Nat
         /\ \A T \in SUBSET S : Cardinality(T) <= Cardinality(S)
         /\ \A k \in Conn : Cardinality(S \cup {k}) <= Cardinality(S) + 1
         /\ \A k \in S : \A T \in SUBSET (S \ {k}) : Cardinality(T) <= Cardinality(S) - 1
<1>1. IsFiniteSet(Conn)
  BY IpcAssumption, FS_Interval DEF Conn
<1>2. IsFiniteSet(S) /\ Cardinality(S) \in Nat
  BY <1>1, FS_Subset, FS_CardinalityType
<1>3. \A T \in SUBSET S : Cardinality(T) <= Cardinality(S)
  BY <1>2, FS_Subset
<1>4. ASSUME NEW k \in Conn PROVE Cardinality(S \cup {k}) <= Cardinality(S) + 1
  <2>1. Cardinality(S \cup {k}) = IF k \in S THEN Cardinality(S) ELSE Cardinality(S) + 1
    BY <1>2, FS_AddElement
  <2> QED
    BY <1>2, <2>1
<1>5. ASSUME NEW k \in S, NEW T \in SUBSET (S \ {k})
      PROVE  Cardinality(T) <= Cardinality(S) - 1
  <2>1. IsFiniteSet(S \ {k}) /\ Cardinality(S \ {k}) = Cardinality(S) - 1
    BY <1>2, FS_RemoveElement
  <2>2. Cardinality(T) <= Cardinality(S \ {k})
    BY <2>1, FS_Subset
  <2> QED
    BY <2>1, <2>2
<1> QED
  BY <1>2, <1>3, <1>4, <1>5

LEMMA LiveType ==
  ASSUME TypeOK, TypeOK', NEW c \in Call
  PROVE  /\ Live(c) \in SUBSET Conn /\ Cardinality(Live(c)) \in Nat
         /\ Live(c)' \in SUBSET Conn /\ Cardinality(Live(c)') \in Nat
         /\ execs[c] \in Nat /\ execs'[c] \in Nat
         /\ Load(c) \in Nat /\ Load(c)' \in Nat
         /\ Load(c) = Cardinality(Live(c)) + execs[c]
         /\ Load(c)' = Cardinality(Live(c)') + execs'[c]
<1>1. Live(c) \in SUBSET Conn /\ Live(c)' \in SUBSET Conn
  BY DEF Live
<1>2. Cardinality(Live(c)) \in Nat /\ Cardinality(Live(c)') \in Nat
  BY <1>1, SomeConnections
<1>3. execs[c] \in Nat /\ execs'[c] \in Nat
  BY DEF TypeOK
<1>4. /\ Load(c) = Cardinality(Live(c)) + execs[c]
      /\ Load(c)' = Cardinality(Live(c)') + execs'[c]
  BY DEF Load
<1> DEFINE a == Cardinality(Live(c))
           b == Cardinality(Live(c)')
           e == execs[c]
           f == execs'[c]
<1>5. a \in Nat /\ b \in Nat /\ e \in Nat /\ f \in Nat /\ Load(c) = a + e /\ Load(c)' = b + f
  BY <1>2, <1>3, <1>4
<1> HIDE DEF a, b, e, f
<1>6. Load(c) \in Nat /\ Load(c)' \in Nat
  BY <1>5
<1> QED
  BY <1>1, <1>2, <1>3, <1>4, <1>6

(* No step but Send makes the load of a call grow ...                       *)
LEMMA LoadLess ==
  ASSUME TypeOK, TypeOK', Singly, NEW c \in Call, Plain \/ \E n \in Conn : Serve(n)
  PROVE  Load(c)' <= Load(c)
<1> DEFINE a == Cardinality(Live(c))
           b == Cardinality(Live(c)')
           e == execs[c]
           f == execs'[c]
<1>1. a \in Nat /\ b \in Nat /\ e \in Nat /\ f \in Nat /\ Load(c) = a + e /\ Load(c)' = b + f
  BY LiveType
<1>2. Live(c)' \in SUBSET Live(c)
  BY GentleSteps DEF Gentle, Live
<1>3. b <= a
  BY <1>2, LiveType, SomeConnections
<1>4. CASE f = e
  <2> HIDE DEF a, b, e, f
  <2> QED
    BY <1>1, <1>3, <1>4
<1>5. CASE f # e
  <2>1. PICK n \in Conn : Execute(n)
    <3>1. ~Plain
      BY <1>5, FewerSteps
    <3>2. PICK n \in Conn : Serve(n)
      BY <3>1
    <3>3. ~Execute(n) => execs' = execs
      BY <3>2 DEF Serve, Accept, Take, TakeTooLong, Answer, Refuse, serverVars
    <3> QED
      BY <1>5, <3>3
  <2>2. conn[n].busy = c /\ f = e + 1
    <3>1. execs' = [execs EXCEPT ![conn[n].busy] = @ + 1] /\ execs \in [Call -> Nat]
      BY <2>1, ExecuteView DEF TypeOK
    <3> QED
      BY <1>5, <3>1
  <2>3. n \in Live(c) /\ n \notin Live(c)'
    <3>1. c \notin Asked(n) /\ Asked(n)' = Asked(n)
      BY <2>1, <2>2, ExecuteView DEF Singly, SinglyAt, Asked
    <3> QED
      BY <2>1, <2>2, <3>1, ExecuteView DEF Live, Lives
  <2>4. b <= a - 1
    BY <1>2, <2>3, LiveType, SomeConnections
  <2> HIDE DEF a, b, e, f
  <2> QED
    BY <1>1, <2>2, <2>4
<1> QED
  BY <1>4, <1>5

(* ... and one that takes it off a line makes it smaller.                   *)
LEMMA LoadLost ==
  ASSUME TypeOK, TypeOK', NEW c \in Call, Plain,
         NEW n \in Conn, Lives(n, c), ~Lives(n, c)'
  PROVE  Load(c)' <= Load(c) - 1
<1> DEFINE a == Cardinality(Live(c))
           b == Cardinality(Live(c)')
           e == execs[c]
           f == execs'[c]
<1>1. a \in Nat /\ b \in Nat /\ e \in Nat /\ f \in Nat /\ Load(c) = a + e /\ Load(c)' = b + f
  BY LiveType
<1>2. Live(c)' \in SUBSET Live(c)
  BY GentleSteps DEF Gentle, Live
<1>3. n \in Live(c) /\ n \notin Live(c)'
  BY DEF Live
<1>4. b <= a - 1
  BY <1>2, <1>3, LiveType, SomeConnections
<1>5. f = e
  BY FewerSteps
<1> HIDE DEF a, b, e, f
<1> QED
  BY <1>1, <1>4, <1>5

LEMMA LoadSend ==
  ASSUME TypeOK, TypeOK', NEW c \in Call, Send
  PROVE  Load(c)' <= Load(c) + (IF c = cur THEN 1 ELSE 0)
<1> DEFINE a == Cardinality(Live(c))
           b == Cardinality(Live(c)')
           e == execs[c]
           f == execs'[c]
<1>1. a \in Nat /\ b \in Nat /\ e \in Nat /\ f \in Nat /\ Load(c) = a + e /\ Load(c)' = b + f
  BY LiveType
<1>2. PICK n \in Conn :
       /\ cur \in Call
       /\ conn'[n].busy = conn[n].busy /\ conn'[n].done = conn[n].done
       /\ \A k \in Conn \ {n} : conn'[k] = conn[k]
       /\ Asked(n)' = Asked(n) \cup {cur}
       /\ execs' = execs
  BY SendView
<1>3. ASSUME NEW k \in Conn \ {n} PROVE Lives(k, c)' <=> Lives(k, c)
  BY <1>2 DEF Lives, Asked
<1>4. CASE c = cur
  <2>1. \A k \in Live(c)' : k \in Live(c) \cup {n}
    BY <1>3 DEF Live
  <2>2. Live(c) \cup {n} \in SUBSET Conn
    BY LiveType
  <2>3. b <= Cardinality(Live(c) \cup {n})
    BY <2>1, <2>2, LiveType, SomeConnections
  <2>4. Cardinality(Live(c) \cup {n}) <= a + 1 /\ Cardinality(Live(c) \cup {n}) \in Nat
    BY <2>2, LiveType, SomeConnections
  <2>5. b <= a + 1 /\ f = e
    BY <1>1, <1>2, <2>3, <2>4
  <2> HIDE DEF a, b, e, f
  <2>6. Load(c)' <= Load(c) + 1
    BY <1>1, <2>5
  <2> QED
    BY <1>4, <2>6
<1>5. CASE c # cur
  <2>1. Lives(n, c)' <=> Lives(n, c)
    BY <1>2, <1>5 DEF Lives
  <2>2. Live(c)' = Live(c)
    BY <1>3, <2>1 DEF Live
  <2>3. b = a /\ f = e
    BY <1>2, <2>2
  <2> HIDE DEF a, b, e, f
  <2>4. Load(c)' <= Load(c) + 0
    BY <1>1, <2>3
  <2> QED
    BY <1>5, <2>4
<1> QED
  BY <1>4, <1>5

(* What the line of the call that waits has of it stays there, unless the   *)
(* daemon dies or the request is lost before it had any effect.             *)
LEMMA HasKept ==
  ASSUME TypeOK, TypeOK', Shape, pc' = "read", NEW n \in Conn, n = reader, NEW c \in Call,
         Has(n, c), Plain \/ \E k \in Conn : Serve(k)
  PROVE  \/ Has(n, c)'
         \/ Crash
         \/ Plain /\ Lives(n, c) /\ ~Lives(n, c)'
<1>0. None # c
  BY IpcAssumption
<1>1. ASSUME conn'[n] = conn[n] PROVE Has(n, c)'
  BY <1>1 DEF Has, Asked, Told
<1>2. ASSUME NEW k \in Conn, k # n, \A j \in Conn \ {k} : conn'[j] = conn[j] PROVE Has(n, c)'
  BY <1>1, <1>2
<1>3. ASSUME conn[n].busy = None, conn'[n].replies = conn[n].replies
      PROVE  Has(n, c)' \/ (Lives(n, c) /\ ~Lives(n, c)')
  BY <1>0, <1>3 DEF Has, Lives, Told
<1>4. CASE Plain
  <2>1. ASSUME NEW d \in Call, FirstCall(d) \/ BeginCall(d) \/ CancelFirst(d) \/ FirstFails(d)
        PROVE  Has(n, c)'
    BY <1>1, <2>1 DEF FirstCall, BeginCall, CancelFirst, FirstFails
  <2>2. ASSUME NEW d \in Call, FirstConnects(d) PROVE Has(n, c)'
    <3>1. PICK m \in Conn : Opened(m)
      BY <2>2 DEF FirstConnects
    <3>2. n # m
      BY <3>1, OpenedView, ShapeHeld DEF Conn
    <3>3. conn'[n] = conn[n]
      BY <3>1, <3>2, OpenedView, LeaveView
    <3> QED
      BY <1>1, <3>3
  <2>3. ASSUME NEW k \in Conn, Swallow(k) PROVE Has(n, c)' \/ (Lives(n, c) /\ ~Lives(n, c)')
    <3>1. /\ conn[k].st = "draining" /\ conn'[k].replies = conn[k].replies
          /\ \A j \in Conn \ {k} : conn'[j] = conn[j]
      BY <2>3, ConnectionFields DEF Swallow, TypeOK, Connection
    <3>2. conn[k].busy = None
      BY <3>1 DEF Shape, ShapeOf
    <3> QED
      BY <1>2, <1>3, <3>1, <3>2
  <2>4. ASSUME NEW k \in Conn, CloseIdle(k) \/ CloseDrained(k)
        PROVE  Has(n, c)' \/ (Lives(n, c) /\ ~Lives(n, c)')
    <3>1. conn'[k] = Shut(k) /\ \A j \in Conn \ {k} : conn'[j] = conn[j]
      BY <2>4 DEF CloseIdle, CloseDrained, TypeOK
    <3>2. conn[k].busy = None
      BY <2>4 DEF CloseIdle, CloseDrained, Shape, ShapeOf
    <3>3. k = n => conn'[n].replies = conn[n].replies
      BY <3>1, ShutView
    <3> QED
      BY <1>2, <1>3, <3>1, <3>2, <3>3
  <2>5. ASSUME NEW k \in Conn, Accept(k) PROVE Has(n, c)'
    <3>1. /\ conn'[k].replies = conn[k].replies /\ conn'[k].requests = conn[k].requests
          /\ conn'[k].busy = conn[k].busy
          /\ \A j \in Conn \ {k} : conn'[j] = conn[j]
      BY <2>5, ConnectionFields DEF Accept, TypeOK, Connection
    <3>2. k = n => Has(n, c)'
      BY <3>1 DEF Has, Asked, Told
    <3> QED
      BY <1>2, <3>1, <3>2
  <2>6. Start \/ (\E k \in Conn : Drained(k)) \/ UNCHANGED vars => Has(n, c)'
    BY <1>1 DEF Start, Drained, vars
  <2>7. ~Fails /\ ~Reads /\ ~Leaves /\ ~Connect
    BY <1>4, PlainWaits
  <2> QED
    BY <1>4, <2>1, <2>2, <2>3, <2>4, <2>5, <2>6, <2>7 DEF Plain, Ends, First, Fails, Reads
<1>5. ASSUME NEW k \in Conn, Serve(k) PROVE Has(n, c)' \/ Plain
  <2>1. Accept(k) => Plain
    BY DEF Plain
  <2>2. CASE Take(k)
    <3>0. Members(conn[k].requests) =
            Members(Tail(conn[k].requests)) \cup {Head(conn[k].requests)}
      BY <2>2, TakeView, ConnectionFields, TailMembers
    <3>1. Members(conn[k].requests) = Members(conn'[k].requests) \cup {conn'[k].busy}
      BY <2>2, <3>0, TakeView
    <3>2. k = n => Has(n, c)'
      BY <1>0, <2>2, <3>1, TakeView DEF Has, Asked, Told
    <3> QED
      BY <1>2, <2>2, <3>2, TakeView
  <2>3. CASE TakeTooLong(k)
    <3> PICK h \in Call : h = Head(conn[k].requests)
      BY <2>3, TakeTooLongView, ConnectionFields, TailMembers
    <3>1. /\ Members(conn[k].requests) = Members(conn'[k].requests) \cup {h}
          /\ conn[k].busy = None
      BY <2>3, TakeTooLongView, ConnectionFields, TailMembers
    <3>2. k = n => Told(k)' = Told(k) \cup {h}
      <4> DEFINE r == [to |-> h, ok |-> FALSE, whole |-> TRUE]
      <4>1. k = n => Members(conn'[k].replies) = Members(conn[k].replies) \cup {r}
        BY <2>3, TakeTooLongView, RepliedView
      <4>2. r.to = h
        OBVIOUS
      <4> HIDE DEF r
      <4> QED
        BY <4>1, <4>2 DEF Told
    <3>3. k = n => Has(n, c)'
      BY <1>0, <3>1, <3>2 DEF Has, Asked
    <3> QED
      BY <1>2, <2>3, <3>3, TakeTooLongView
  <2>4. CASE Execute(k)
    <3>1. k = n => Has(n, c)'
      BY <2>4, ExecuteView DEF Has, Asked, Told
    <3> QED
      BY <1>2, <2>4, <3>1, ExecuteView
  <2>5. CASE Answer(k) \/ Refuse(k)
    <3>1. PICK ok \in BOOLEAN : (Answer(k) /\ ok) \/ (Refuse(k) /\ ~ok)
      BY <2>5
    <3> PICK h \in Call : h = conn[k].busy
      BY <3>1, AnswerView, ConnectionFields
    <3>2. k = n => Told(k)' = Told(k) \cup {h}
      <4> DEFINE r == [to |-> h, ok |-> ok, whole |-> TRUE]
      <4>1. k = n => Members(conn'[k].replies) = Members(conn[k].replies) \cup {r}
        BY <3>1, AnswerView, RepliedView
      <4>2. r.to = h
        OBVIOUS
      <4> HIDE DEF r
      <4> QED
        BY <4>1, <4>2 DEF Told
    <3>3. k = n => Has(n, c)'
      BY <3>1, <3>2, AnswerView DEF Has, Asked
    <3> QED
      BY <1>2, <3>1, <3>3, AnswerView
  <2> QED
    BY <1>5, <2>1, <2>2, <2>3, <2>4, <2>5 DEF Serve
<1> QED
  BY <1>4, <1>5

(* What excuses a repetition stays.                                         *)
LEMMA CountersStep ==
  ASSUME TypeOK, TypeOK', Next
  PROVE  /\ crashes \in Nat /\ timeouts \in Nat /\ crashes' \in Nat /\ timeouts' \in Nat
         /\ crashes <= crashes' /\ timeouts <= timeouts'
         /\ Crash => crashes' = crashes + 1
         /\ CallTimeout => timeouts' = timeouts + 1
         /\ replaced => replaced'
<1> USE DEF clientVars, counters
<1>1. crashes \in Nat /\ timeouts \in Nat /\ crashes' \in Nat /\ timeouts' \in Nat
  BY DEF TypeOK
<1>2. Crash => crashes' = crashes + 1 /\ timeouts' = timeouts /\ replaced' = replaced
  BY DEF Crash
<1>3. CallTimeout => crashes' = crashes /\ timeouts' = timeouts + 1 /\ replaced' = replaced
  BY DEF CallTimeout, Silence
<1>8. CallTimeoutLeaves => crashes' = crashes /\ timeouts' = timeouts + 1 /\ replaced' = replaced
  BY DEF CallTimeoutLeaves, Silence, Abandon
<1>4. Reads => crashes' = crashes /\ timeouts' = timeouts /\ replaced' = replaced
  BY ReadsView
<1>5. ASSUME ~Crash, ~CallTimeout, ~CallTimeoutLeaves
      PROVE  crashes' = crashes /\ timeouts' = timeouts /\ (replaced => replaced')
  <2>1. ASSUME NEW c \in Call, FirstCall(c) \/ BeginCall(c) \/ CancelFirst(c) \/ FirstFails(c)
        PROVE  crashes' = crashes /\ timeouts' = timeouts /\ replaced' = replaced
    BY <2>1 DEF FirstCall, BeginCall, CancelFirst, FirstFails
  <2>2. ASSUME NEW c \in Call, FirstConnects(c)
        PROVE  crashes' = crashes /\ timeouts' = timeouts /\ (replaced => replaced')
    <3>1. crashes' = crashes /\ timeouts' = timeouts /\ replaced' = (replaced \/ pc = "read")
      BY <2>2 DEF FirstConnects
    <3> QED
      BY <3>1
  <2>3. ASSUME Connect \/ ConnectFails \/ SendFails \/ ReadEof \/ Send \/ Cancel \/ Start
        PROVE  crashes' = crashes /\ timeouts' = timeouts /\ replaced' = replaced
    BY <2>3 DEF Connect, ConnectFails, SendFails, ReadEof, Send, Cancel, Abandon, Start
  <2>4. ASSUME NEW k \in Conn, Serve(k) \/ Drained(k) \/ Ends(k)
        PROVE  crashes' = crashes /\ timeouts' = timeouts /\ replaced' = replaced
    BY <2>4, ServeClient DEF Drained, Ends, Swallow, CloseIdle, CloseDrained
  <2> QED
    BY <1>4, <1>5, <2>1, <2>2, <2>3, <2>4 DEF Next, Ends, First, Client, Reads
<1>6. crashes <= crashes' /\ timeouts <= timeouts'
  BY <1>1, <1>2, <1>3, <1>5, <1>8
<1>7. replaced => replaced'
  BY <1>2, <1>3, <1>5, <1>8
<1> QED
  BY <1>1, <1>2, <1>3, <1>6, <1>7

LEMMA ExcusesStep ==
  ASSUME TypeOK, TypeOK', Next
  PROVE  /\ Excuses \in Nat /\ Excuses' \in Nat
         /\ ((replaced /\ reader \in {0, writer}) => replaced' /\ reader' \in {0, writer'})
              => Excuses <= Excuses' /\ (Crash \/ CallTimeout => Excuses + 1 <= Excuses')
         /\ ~(replaced /\ reader \in {0, writer}) /\ replaced' /\ reader' \in {0, writer'}
              => Excuses + 1 <= Excuses'
<1> DEFINE x == crashes + timeouts
           y == crashes' + timeouts'
           g == IF replaced /\ reader \in {0, writer} THEN 1 ELSE 0
           h == IF replaced' /\ reader' \in {0, writer'} THEN 1 ELSE 0
<1>1. /\ Excuses = x + g /\ Excuses' = y + h /\ g \in {0, 1} /\ h \in {0, 1}
      /\ g = 1 <=> (replaced /\ reader \in {0, writer})
      /\ h = 1 <=> (replaced' /\ reader' \in {0, writer'})
  BY DEF Excuses
<1>2. x \in Nat /\ y \in Nat /\ x <= y /\ (Crash \/ CallTimeout => x + 1 <= y)
  BY CountersStep
<1> HIDE DEF x, y, g, h
<1>3. Excuses \in Nat /\ Excuses' \in Nat
  BY <1>1, <1>2
<1>4. ASSUME (replaced /\ reader \in {0, writer}) => replaced' /\ reader' \in {0, writer'}
      PROVE  Excuses <= Excuses' /\ (Crash \/ CallTimeout => Excuses + 1 <= Excuses')
  <2>1. g <= h
    BY <1>1, <1>4
  <2>2. x + g <= y + h /\ (x + 1 <= y => (x + g) + 1 <= y + h)
    BY <1>1, <1>2, <2>1
  <2> QED
    BY <1>1, <1>2, <2>2
<1>5. ASSUME ~(replaced /\ reader \in {0, writer}), replaced' /\ reader' \in {0, writer'}
      PROVE  Excuses + 1 <= Excuses'
  <2>1. g = 0 /\ h = 1
    BY <1>1, <1>5
  <2> QED
    BY <1>1, <1>2, <2>1
<1> QED
  BY <1>3, <1>4, <1>5

(* The total never exceeds what is excused.                                 *)
LEMMA BudgetTotal ==
  ASSUME TypeOK, TypeOK', Singly, Budget, Next, NEW c \in Call \ Huge
  PROVE  Load(c)' <= 1 + crashes' + timeouts' + (IF replaced' THEN 1 ELSE 0)
<1> DEFINE x == crashes + timeouts
           y == crashes' + timeouts'
           g == IF replaced THEN 1 ELSE 0
           h == IF replaced' THEN 1 ELSE 0
           l == Load(c)
           m == Load(c)'
<1>1. x \in Nat /\ y \in Nat /\ x <= y /\ g \in Nat /\ h \in Nat /\ g <= h
  BY CountersStep
<1>2. l \in Nat /\ m \in Nat
  BY LiveType
<1>3. CASE ~Send
  <2>1. m <= l
    BY <1>3, LoadLess, NextCases
  <2>2. l <= 1 + crashes + timeouts + g
    BY DEF Budget
  <2>3. l <= (1 + x) + g
    BY <2>2, CountersStep
  <2>4. m <= (1 + y) + h
    <3> HIDE DEF x, y, g, h, l, m
    <3> QED
      BY <1>1, <1>2, <2>1, <2>3
  <2> QED
    BY <2>4, CountersStep
<1>4. CASE Send
  <2>1. /\ pc = "send" /\ reader = 0 /\ crashes' = crashes /\ timeouts' = timeouts
        /\ replaced' = replaced
    BY <1>4, SendView
  <2>2. m <= l + (IF c = cur THEN 1 ELSE 0)
    BY <1>4, LoadSend
  <2>3. CASE c = cur
    <3>1. l <= Excuses /\ Excuses = x + g
      BY <2>1, <2>3 DEF Budget, Excuses
    <3>2. m <= l + 1
      BY <2>2, <2>3
    <3>3. m <= (1 + y) + h
      <4> HIDE DEF x, y, g, h, l, m
      <4> QED
        BY <1>1, <1>2, <3>1, <3>2
    <3> QED
      BY <3>3, CountersStep
  <2>4. CASE c # cur
    <3>1. l <= 1 + crashes + timeouts + g
      BY DEF Budget
    <3>2. l <= (1 + x) + g /\ m <= l + 0
      BY <2>2, <2>4, <3>1, CountersStep
    <3>3. m <= (1 + y) + h
      <4> HIDE DEF x, y, g, h, l, m
      <4> QED
        BY <1>1, <1>2, <3>2
    <3> QED
      BY <3>3, CountersStep
  <2> QED
    BY <2>3, <2>4
<1> QED
  BY <1>3, <1>4

(* Before an attempt, what has been taken is excused ...                    *)
LEMMA BudgetSends ==
  ASSUME TypeOK, TypeOK', Standing, Shape, Singly, Unsent, Budget, Next,
         NEW c \in Call \ Huge, c = cur', pc' = "send"
  PROVE  Load(c)' <= Excuses'
<1> USE DEF clientVars, counters
<1>1. /\ Load(c) \in Nat /\ Load(c)' \in Nat /\ Load(c)' <= Load(c)
      /\ Excuses \in Nat /\ Excuses' \in Nat
  <2>1. ~Send
    BY DEF Send
  <2> QED
    BY <2>1, LiveType, LoadLess, NextCases, ExcusesStep
<1>0. c \in Call /\ c \notin Huge
  OBVIOUS
<1>2. reader' = 0
  BY DEF TypeOK
<1>3. (replaced /\ reader \in {0, writer}) => replaced' /\ reader' \in {0, writer'}
  BY <1>2, CountersStep
<1>4. Excuses <= Excuses' /\ (CallTimeout => Excuses + 1 <= Excuses')
  BY <1>3, ExcusesStep
<1>5. ASSUME BeginCall(c) PROVE Load(c)' <= Excuses'
  <2>1. st[c] \in {"new", "first", "ready"}
    BY <1>5 DEF BeginCall
  <2>2. execs[c] = 0 /\ \A k \in Conn : ~Has(k, c)
    BY <2>1 DEF Unsent
  <2>3. Live(c) = {}
    BY <2>2 DEF Live, Lives, Has
  <2>4. Load(c) = 0
    BY <2>2, <2>3, FS_EmptySet DEF Load
  <2> QED
    BY <1>1, <2>4
<1>6. ASSUME pc = "send", cur = c PROVE Load(c)' <= Excuses'
  <2>1. Load(c) <= Excuses
    BY <1>6 DEF Budget
  <2> QED
    BY <1>1, <1>4, <2>1
<1>7. ASSUME pc = "read", cur = c, Fails PROVE Load(c)' <= Excuses'
  <2>1. Load(c) <= Excuses + (IF Has(reader, c) THEN 1 ELSE 0)
    BY <1>7 DEF Budget
  <2>2. Load(c) <= Excuses + 1
    BY <1>1, <2>1
  <2>3. CASE CallTimeout
    BY <1>1, <1>4, <2>2, <2>3
  <2>4. CASE reader # writer
    <3>1. reader \notin {0, writer} /\ replaced
      BY <1>7, <2>4 DEF Standing, TypeOK
    <3>2. Excuses + 1 <= Excuses'
      BY <1>2, <3>1, CountersStep, ExcusesStep
    <3> QED
      BY <1>1, <2>2, <3>2
  <2>5. CASE conn[reader].replies = <<>> /\ conn[reader].st = "closed"
    <3>1. PICK n \in Conn : n = reader
      BY <1>7 DEF TypeOK
    <3>2. conn[n].requests = <<>> /\ conn[n].busy = None /\ conn[n].replies = <<>>
      BY <2>5, <3>1 DEF Shape, ShapeOf
    <3>3. ~Has(n, c)
      BY <3>2, EmptyMembers, IpcAssumption DEF Has, Asked, Told
    <3>4. Load(c) <= Excuses + 0
      BY <2>1, <3>1, <3>3
    <3> QED
      BY <1>1, <1>4, <3>4
  <2> QED
    BY <1>7, <2>3, <2>4, <2>5, <1>0 DEF Fails, ConnectFails, SendFails, ReadEof
<1>8. \/ BeginCall(c)
      \/ pc = "send" /\ cur = c
      \/ pc = "read" /\ cur = c /\ Fails
  <2>1. ASSUME NEW d \in Call, BeginCall(d) PROVE BeginCall(c)
    BY <2>1 DEF BeginCall
  <2>2. Reads => pc' # "send"
    BY ReadsView DEF EndCall
  <2>3. Leaves => pc' # "send"
    BY DEF Leaves, CallTimeoutLeaves, Cancel, Silence, Abandon, EndCall
  <2>4. ~Send
    BY DEF Send
  <2>5. Fails => pc \in {"send", "read"} /\ cur' = cur
    <3>1. Fails /\ EndCall("raised") => pc' # "send"
      BY DEF EndCall
    <3> QED
      BY <3>1, FailsView, FailAttemptEnds
  <2>6. ASSUME NEW d \in Call, FirstCall(d) \/ CancelFirst(d) \/ FirstFails(d)
                               \/ FirstConnects(d)
        PROVE  UNCHANGED <<pc, cur>>
    BY <2>6 DEF FirstCall, CancelFirst, FirstFails, FirstConnects
  <2>7. ASSUME NEW k \in Conn, Serve(k) \/ Drained(k) \/ Ends(k)
        PROVE  UNCHANGED <<pc, cur>>
    BY <2>7, ServeClient DEF Drained, Ends, Swallow, CloseIdle, CloseDrained
  <2>8. Connect \/ Crash \/ Start => UNCHANGED <<pc, cur>>
    BY DEF Connect, Crash, Start
  <2> QED
    BY <2>1, <2>2, <2>3, <2>4, <2>5, <2>6, <2>7, <2>8 DEF Next, Leaves, Ends, First, Client, Fails, Reads
<1> QED
  BY <1>5, <1>6, <1>7, <1>8

(* ... and while the call waits, all but what its line still has of it.     *)
LEMMA BudgetWaits ==
  ASSUME TypeOK, TypeOK', Standing, Shape, Singly, Unsent, Budget, Next,
         NEW c \in Call \ Huge, c = cur', pc' = "read", NEW n \in Conn, n = reader'
  PROVE  Load(c)' <= Excuses' + (IF Has(n, c)' THEN 1 ELSE 0)
<1> USE DEF clientVars, counters
<1>1. /\ Load(c) \in Nat /\ Load(c)' \in Nat /\ Excuses \in Nat /\ Excuses' \in Nat
  BY LiveType, ExcusesStep
<1>2. CASE Send
  <2>1. PICK m \in Conn :
         /\ m = writer /\ cur \in Call /\ pc = "send" /\ reader = 0
         /\ reader' = m /\ writer' = m /\ cur' = cur
         /\ Asked(m)' = Asked(m) \cup {cur} /\ replaced' = replaced
    BY <1>2, SendView
  <2>2. Load(c) <= Excuses
    BY <2>1 DEF Budget
  <2>3. Load(c)' <= Load(c) + 1
    BY <1>2, <2>1, LoadSend
  <2>4. Excuses <= Excuses'
    BY <2>1, ExcusesStep
  <2>5. Has(n, c)'
    BY <2>1 DEF Has
  <2>6. Load(c)' <= Excuses' + 1
    BY <1>1, <2>2, <2>3, <2>4
  <2> QED
    BY <2>5, <2>6
<1>3. CASE ~Send
  <2>1. pc = "read" /\ reader = n /\ cur = c
    BY <1>3, NextCases, PlainWaits, ServeClient
  <2>2. Load(c) <= Excuses + (IF Has(n, c) THEN 1 ELSE 0)
    BY <2>1 DEF Budget, Has, Asked, Told
  <2>3. Load(c)' <= Load(c)
    BY <1>3, LoadLess, NextCases
  <2>4. (replaced /\ reader \in {0, writer}) => replaced' /\ reader' \in {0, writer'}
    <3>1. ASSUME replaced PROVE writer' = writer
      <4>1. ASSUME NEW d \in Call, FirstConnects(d) PROVE FALSE
        BY <3>1, <4>1 DEF FirstConnects, Standing
      <4>2. ASSUME NEW d \in Call, FirstCall(d) \/ BeginCall(d) \/ CancelFirst(d) \/ FirstFails(d)
            PROVE  UNCHANGED writer
        BY <4>2 DEF FirstCall, BeginCall, CancelFirst, FirstFails
      <4>3. ASSUME NEW k \in Conn, Serve(k) \/ Drained(k) \/ Ends(k)
            PROVE  UNCHANGED writer
        BY <4>3, ServeClient DEF Drained, Ends, Swallow, CloseIdle, CloseDrained
      <4>4. Crash \/ Start \/ UNCHANGED vars => UNCHANGED writer
        BY DEF Crash, Start, vars
      <4>5. Plain => ~Fails /\ ~Reads /\ ~Leaves /\ ~Connect
        BY PlainWaits
      <4> QED
        BY <1>3, <4>1, <4>2, <4>3, <4>4, <4>5, NextCases DEF Plain, Ends, First, Fails, Reads, Serve
    <3> QED
      BY <2>1, <3>1, CountersStep
  <2>5. Excuses <= Excuses' /\ (Crash => Excuses + 1 <= Excuses')
    BY <2>4, ExcusesStep
  <2>6. CASE Has(n, c) /\ ~Has(n, c)'
    <3>1. Crash \/ (Plain /\ Lives(n, c) /\ ~Lives(n, c)')
      BY <1>3, <2>1, <2>6, HasKept, NextCases
    <3>2. Load(c) <= Excuses + 1
      BY <2>2, <2>6
    <3>3. CASE Crash
      <4>1. Load(c)' <= Excuses' + 0
        BY <1>1, <2>3, <2>5, <3>2, <3>3
      <4> QED
        BY <2>6, <4>1
    <3>4. CASE Plain /\ Lives(n, c) /\ ~Lives(n, c)'
      <4>1. Load(c)' <= Load(c) - 1
        BY <3>4, LoadLost
      <4>2. Load(c)' <= Excuses' + 0
        BY <1>1, <2>5, <3>2, <4>1
      <4> QED
        BY <2>6, <4>2
    <3> QED
      BY <3>1, <3>3, <3>4
  <2>7. CASE ~Has(n, c)
    <3>1. Load(c) <= Excuses + 0
      BY <2>2, <2>7
    <3>2. Load(c)' <= Excuses' + 0 /\ Load(c)' <= Excuses' + 1
      BY <1>1, <2>3, <2>5, <3>1
    <3> QED
      BY <3>2
  <2>8. CASE Has(n, c)'
    <3>1. Load(c) <= Excuses + 1
      BY <1>1, <2>2
    <3>2. Load(c)' <= Excuses' + 1
      BY <1>1, <2>3, <2>5, <3>1
    <3> QED
      BY <2>8, <3>2
  <2> QED
    BY <2>6, <2>7, <2>8
<1> QED
  BY <1>2, <1>3

LEMMA BudgetStep ==
  ASSUME TypeOK, TypeOK', Standing, Shape, Singly, Unsent, Budget, Next
  PROVE  Budget'
<1> SUFFICES ASSUME NEW c \in Call \ Huge
             PROVE  /\ Load(c)' <= 1 + crashes' + timeouts' + (IF replaced' THEN 1 ELSE 0)
                    /\ c = cur' /\ pc' = "send" => Load(c)' <= Excuses'
                    /\ c = cur' /\ pc' = "read" =>
                         Load(c)' <= Excuses' + (IF Has(reader, c)' THEN 1 ELSE 0)
  BY DEF Budget
<1>1. ASSUME c = cur', pc' = "read"
      PROVE  Load(c)' <= Excuses' + (IF Has(reader, c)' THEN 1 ELSE 0)
  <2>1. PICK n \in Conn : n = reader'
    BY <1>1 DEF TypeOK
  <2>2. Load(c)' <= Excuses' + (IF Has(n, c)' THEN 1 ELSE 0)
    BY <1>1, <2>1, BudgetWaits
  <2> QED
    BY <2>1, <2>2 DEF Has, Asked, Told
<1> QED
  BY <1>1, BudgetTotal, BudgetSends

-----------------------------------------------------------------------------
(* The theorems.                                                            *)

IInv == /\ TypeOK /\ Standing /\ Shape /\ Singly /\ Unsent /\ Budget /\ Truthful
        /\ OneInFlight /\ SuccessMeansDone

LEMMA InvInit == Init => IInv
<1> SUFFICES ASSUME Init PROVE IInv
  OBVIOUS
<1>0. /\ TypeOK /\ None \notin Call
      /\ cur = None /\ pc = "idle" /\ writer = 0 /\ reader = 0 /\ replaced = FALSE
      /\ crashes = 0 /\ timeouts = 0
  BY TypeInit, IpcAssumption DEF Init
<1>1. ASSUME NEW k \in Conn
      PROVE  /\ conn[k] = NoConnection
             /\ conn[k].requests = <<>> /\ conn[k].replies = <<>> /\ conn[k].busy = None
  BY DEF Init, NoConnection
<1>2. ASSUME NEW c \in Call
      PROVE  st[c] = "new" /\ execs[c] = 0 /\ reply[c] = None
  BY DEF Init
<1>3. ASSUME NEW k \in Conn PROVE Asked(k) = {} /\ Told(k) = {}
  BY <1>1, EmptyMembers DEF Asked, Told
<1>4. ASSUME NEW c \in Call, NEW k \in Conn PROVE ~Has(k, c)
  BY <1>0, <1>1, <1>3 DEF Has
<1>5. Standing
  BY <1>0, <1>2 DEF Standing
<1>6. Shape
  BY <1>0, <1>1, IpcAssumption DEF Shape, ShapeOf
<1>7. Singly
  BY <1>1, <1>3, EmptyMembers DEF Singly, SinglyAt
<1>8. Unsent
  BY <1>0, <1>2, <1>4 DEF Unsent
<1>9. Budget
  <2> SUFFICES ASSUME NEW c \in Call \ Huge
               PROVE  Load(c) <= 1 + crashes + timeouts + (IF replaced THEN 1 ELSE 0)
    BY <1>0 DEF Budget
  <2>1. Live(c) = {}
    BY <1>4 DEF Live, Lives, Has
  <2>2. Load(c) = 0
    BY <1>2, <2>1, FS_EmptySet DEF Load
  <2> QED
    BY <1>0, <2>2
<1>10. Truthful
  BY <1>1, EmptyMembers DEF Truthful
<1>11. OneInFlight
  BY <1>0 DEF OneInFlight
<1>12. SuccessMeansDone
  BY <1>2 DEF SuccessMeansDone
<1> QED
  BY <1>0, <1>5, <1>6, <1>7, <1>8, <1>9, <1>10, <1>11, <1>12 DEF IInv

(* Only Read gives a call a reply.                                          *)
LEMMA ReplyStep ==
  ASSUME TypeOK, Next
  PROVE  \/ Read
         \/ reply' = reply /\ \A c \in Call : st'[c] = "ok" => st[c] = "ok"
<1> USE DEF clientVars
<1>1. ASSUME NEW c \in Call, FirstCall(c) \/ BeginCall(c) \/ CancelFirst(c) \/ FirstFails(c)
                             \/ FirstConnects(c)
      PROVE  reply' = reply /\ \A d \in Call : st'[d] = "ok" => st[d] = "ok"
  BY <1>1 DEF FirstCall, BeginCall, CancelFirst, FirstFails, FirstConnects, TypeOK
<1>2. ASSUME NEW o, EndCall(o), o # "ok"
      PROVE  \A d \in Call : st'[d] = "ok" => st[d] = "ok"
  BY <1>2 DEF EndCall, TypeOK
<1>3. Fails => reply' = reply /\ \A d \in Call : st'[d] = "ok" => st[d] = "ok"
  BY <1>2, FailsView, FailAttemptEnds
<1>4. ReadTooLong \/ ReadRest =>
        reply' = reply /\ \A d \in Call : st'[d] = "ok" => st[d] = "ok"
  BY <1>2 DEF ReadTooLong, ReadRest, EndRead
<1>5. Leaves => reply' = reply /\ \A d \in Call : st'[d] = "ok" => st[d] = "ok"
  BY <1>2 DEF Leaves, CallTimeoutLeaves, Cancel, Silence, Abandon
<1>6. Connect \/ Send \/ Crash \/ Start => reply' = reply /\ st' = st
  BY DEF Connect, Send, Crash, Start
<1>7. ASSUME NEW k \in Conn, Serve(k) \/ Drained(k) \/ Ends(k)
      PROVE  reply' = reply /\ st' = st
  BY <1>7, ServeClient DEF Drained, Ends, Swallow, CloseIdle, CloseDrained
<1> QED
  BY <1>1, <1>3, <1>4, <1>5, <1>6, <1>7 DEF Next, Leaves, Ends, First, Client, Fails

LEMMA ReadView ==
  ASSUME TypeOK, Read
  PROVE  \E n \in Conn, c \in Call : \E r \in Members(conn[n].replies) :
         /\ n = reader /\ c = cur /\ pc = "read"
         /\ r = FirstLine /\ r \in Reply
         /\ conn[n].replies # <<>>
         /\ reply' = [reply EXCEPT ![c] = r.to]
         /\ st' = [st EXCEPT ![c] = IF r.ok THEN "ok" ELSE "raised"]
         /\ execs' = execs
<1>1. reader \in Conn /\ cur \in Call /\ pc = "read" /\ conn[reader].replies # <<>>
  BY DEF Read, Waiting, TypeOK
<1> PICK n \in Conn, c \in Call : n = reader /\ c = cur
  BY <1>1
<1>2. FirstLine \in Members(conn[n].replies) /\ FirstLine \in Reply
  BY <1>1, ConnectionFields, TailMembers DEF FirstLine
<1>3. /\ reply' = [reply EXCEPT ![c] = FirstLine.to]
      /\ st' = [st EXCEPT ![c] = IF FirstLine.ok THEN "ok" ELSE "raised"]
      /\ execs' = execs
  BY DEF Read, EndRead, EndCall, serverVars
<1> QED
  BY <1>1, <1>2, <1>3

LEMMA SuccessStep ==
  ASSUME TypeOK, TypeOK', Shape, Truthful, SuccessMeansDone, Next
  PROVE  SuccessMeansDone'
<1>1. /\ \A c \in Call : execs[c] \in Nat /\ execs'[c] \in Nat /\ execs[c] <= execs'[c]
      /\ \A c \in Huge : execs'[c] = execs[c]
  <2>1. CASE execs' = execs
    BY <2>1, IpcAssumption DEF TypeOK
  <2>2. CASE execs' # execs
    <3>1. ~Send /\ ~Plain
      BY <2>2, SendView, FewerSteps
    <3>2. PICK n \in Conn : Serve(n)
      BY <3>1, NextCases
    <3>3. Execute(n)
      BY <2>2, <3>2 DEF Serve, Accept, Take, TakeTooLong, Answer, Refuse, serverVars
    <3>4. conn[n].busy \in Call \ Huge /\ execs' = [execs EXCEPT ![conn[n].busy] = @ + 1]
      BY <3>3, ExecuteView DEF Shape, ShapeOf
    <3> QED
      BY <3>4, IpcAssumption DEF TypeOK
  <2> QED
    BY <2>1, <2>2
<1>2. ASSUME NEW c \in Call, st'[c] = "ok", reply'[c] = c PROVE execs'[c] > 0
  <2>1. ASSUME st[c] = "ok", reply[c] = c PROVE execs'[c] > 0
    BY <1>1, <2>1 DEF SuccessMeansDone
  <2>2. CASE Read
    <3>1. PICK n \in Conn, d \in Call : \E r \in Members(conn[n].replies) :
           /\ reply' = [reply EXCEPT ![d] = r.to]
           /\ st' = [st EXCEPT ![d] = IF r.ok THEN "ok" ELSE "raised"]
           /\ execs' = execs
      BY <2>2, ReadView
    <3> PICK r \in Members(conn[n].replies) :
           /\ reply' = [reply EXCEPT ![d] = r.to]
           /\ st' = [st EXCEPT ![d] = IF r.ok THEN "ok" ELSE "raised"]
           /\ execs' = execs
      BY <3>1
    <3>2. CASE c = d
      <4>1. r.to = c /\ r.ok
        BY <1>2, <3>2 DEF TypeOK
      <4> QED
        BY <4>1 DEF Truthful
    <3>3. CASE c # d
      BY <1>2, <2>1, <3>3 DEF TypeOK
    <3> QED
      BY <3>2, <3>3
  <2>3. CASE ~Read
    BY <1>2, <2>1, <2>3, ReplyStep
  <2> QED
    BY <2>2, <2>3
<1>3. ASSUME NEW c \in Huge PROVE execs'[c] = 0
  BY <1>1, IpcAssumption DEF SuccessMeansDone
<1> QED
  BY <1>2, <1>3 DEF SuccessMeansDone

LEMMA InvStep == IInv /\ [Next]_vars => IInv'
<1> SUFFICES ASSUME IInv, [Next]_vars PROVE IInv'
  OBVIOUS
<1>1. CASE Next
  <2>1. TypeOK'
    BY TypeStep DEF IInv
  <2>2. Standing'
    BY <1>1, <2>1, StandingStep DEF IInv
  <2>3. Shape'
    BY <1>1, <2>1, ShapeClient, ShapeServer DEF IInv, Next, Leaves, Ends
  <2>4. Singly'
    BY <1>1, <2>1, SinglyStep DEF IInv
  <2>5. Unsent'
    BY <1>1, <2>1, UnsentStep DEF IInv
  <2>6. Budget'
    BY <1>1, <2>1, BudgetStep DEF IInv
  <2>7. Truthful'
    BY <1>1, <2>1, TruthfulStep DEF IInv
  <2>8. OneInFlight'
    BY <1>1, <2>1, OneInFlightStep DEF IInv
  <2>9. SuccessMeansDone'
    BY <1>1, <2>1, SuccessStep DEF IInv
  <2> QED
    BY <2>1, <2>2, <2>3, <2>4, <2>5, <2>6, <2>7, <2>8, <2>9 DEF IInv
<1>2. CASE UNCHANGED vars
  <2> USE <1>2 DEF vars, clientVars, serverVars, counters
  <2>1. TypeOK'
    BY TypeStep DEF IInv
  <2>2. Standing'
    BY DEF IInv, Standing, Begun
  <2>3. Shape'
    BY DEF IInv, Shape
  <2>4. Singly'
    BY DEF IInv, Singly, SinglyAt, Asked, Told
  <2>5. Unsent'
    BY DEF IInv, Unsent, Has, Asked, Told
  <2>6. Budget'
    BY DEF IInv, Budget, Load, Live, Lives, Excuses, Has, Asked, Told
  <2>7. Truthful'
    BY DEF IInv, Truthful
  <2>8. OneInFlight'
    BY DEF IInv, OneInFlight, InFlight, Concerns
  <2>9. SuccessMeansDone'
    BY DEF IInv, SuccessMeansDone
  <2> QED
    BY <2>1, <2>2, <2>3, <2>4, <2>5, <2>6, <2>7, <2>8, <2>9 DEF IInv
<1> QED
  BY <1>1, <1>2

THEOREM InvCorrect == Spec => []IInv
BY InvInit, InvStep, PTL DEF Spec

(* The reason why nothing needs to compare ids: on a connection that no     *)
(* call has left early, the line holds at most the request or the reply of  *)
(* the call that waits, and the line of a writer nobody waits on is empty.  *)
THEOREM OneInFlightCorrect == Spec => []OneInFlight
<1>1. IInv => OneInFlight
  BY DEF IInv
<1> QED
  BY <1>1, InvCorrect, PTL

(* A call returns the reply to its own request, unless the connection it    *)
(* reads from was left early by a call before it.                           *)
THEOREM OwnReplyCorrect == Spec => OwnReply
<1>1. ASSUME IInv, Next, NEW c \in Call, reply'[c] # reply[c]
      PROVE  reply'[c] = c \/ reader \in skewed
  <2>1. Read /\ TypeOK /\ OneInFlight
    BY <1>1, ReplyStep DEF IInv
  <2>2. PICK n \in Conn, d \in Call : \E r \in Members(conn[n].replies) :
         /\ n = reader /\ d = cur /\ pc = "read"
         /\ reply' = [reply EXCEPT ![d] = r.to]
    BY <2>1, ReadView
  <2> PICK r \in Members(conn[n].replies) : reply' = [reply EXCEPT ![d] = r.to]
    BY <2>2
  <2>3. c = d /\ reply'[c] = r.to
    BY <1>1, <2>1, <2>2 DEF TypeOK
  <2>4. ASSUME reader \notin skewed PROVE r.to = d
    <3>1. Concerns(n, d) /\ conn[n] \in Connection
      BY <2>1, <2>2, <2>4 DEF OneInFlight, TypeOK
    <3> QED
      BY <3>1, ConcernsMembers DEF Concerns
  <2> QED
    BY <2>3, <2>4
<1>2. IInv /\ [Next]_vars =>
        [\A c \in Call : reply'[c] # reply[c] => (reply'[c] = c \/ reader \in skewed)]_vars
  BY <1>1
<1> QED
  BY <1>2, InvCorrect, PTL DEF Spec, OwnReply

(* A call has its effect once, and once more at most for every death or     *)
(* silence of the daemon and for a first connect that came late.            *)
THEOREM NotRepeatedCorrect == Spec => []NotRepeated
<1>1. ASSUME IInv PROVE NotRepeated
  <2>0. ASSUME NEW c \in Huge
        PROVE  execs[c] <= 1 + crashes + timeouts + (IF replaced THEN 1 ELSE 0)
    <3>1. execs[c] = 0 /\ crashes \in Nat /\ timeouts \in Nat
      BY <1>1, IpcAssumption DEF IInv, SuccessMeansDone, TypeOK
    <3> QED
      BY <3>1
  <2> SUFFICES ASSUME NEW c \in Call \ Huge
               PROVE  execs[c] <= 1 + crashes + timeouts + (IF replaced THEN 1 ELSE 0)
    BY <2>0 DEF NotRepeated
  <2> DEFINE a == Cardinality(Live(c))
             e == execs[c]
             x == crashes + timeouts
             g == IF replaced THEN 1 ELSE 0
  <2>1. a \in Nat
    <3>1. Live(c) \in SUBSET Conn
      BY DEF Live
    <3> QED
      BY <3>1, SomeConnections
  <2>2. e \in Nat /\ crashes \in Nat /\ timeouts \in Nat
    BY <1>1 DEF IInv, TypeOK
  <2>3. a + e <= 1 + crashes + timeouts + g
    BY <1>1 DEF IInv, Budget, Load
  <2>4. g \in Nat
    OBVIOUS
  <2> HIDE DEF a, e, g
  <2>5. e <= 1 + crashes + timeouts + g
    BY <2>1, <2>2, <2>3, <2>4
  <2> QED
    BY <2>5 DEF e, g
<1> QED
  BY <1>1, InvCorrect, PTL

(* A call that succeeds with a reply of its own has had its effect, and a   *)
(* request over the server's limit never has any.                           *)
THEOREM SuccessMeansDoneCorrect == Spec => []SuccessMeansDone
<1>1. IInv => SuccessMeansDone
  BY DEF IInv
<1> QED
  BY <1>1, InvCorrect, PTL

=============================================================================
