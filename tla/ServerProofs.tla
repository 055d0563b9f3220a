---------------------------- MODULE ServerProofs ----------------------------
(* Proofs about module Server, for every set of calls, any number of        *)
(* retries, and whatever fails, is cancelled or cut off.                    *)
EXTENDS Server, TLAPS

(* A call is at a request only inside the `async with`, and has an outcome  *)
(* only once it leaves.                                                     *)
Placed ==
  \A c \in Call : /\ pc[c] \in {"new", "enter", "flood", "ended"} => pos[c] = 0
                  /\ out[c] # "none" => pc[c] \in {"exit", "ended"}

(* How far the requests of a call are: those to come have not been sent,    *)
(* those it is past have been carried out, the one it waits for is on its   *)
(* way or carried out, and no request is both.                              *)
Unsent(r) == r \notin wire /\ ran[r] = 0

Progress ==
  \A r \in Effects :
    LET c == r[1]
        i == r[2]
    IN  /\ ran[r] \in {0, 1} /\ (r \in wire => ran[r] = 0)
        /\ pc[c] \in {"new", "enter", "flood"} => Unsent(r)
        /\ pc[c] = "send" /\ i >= pos[c] => Unsent(r)
        /\ pc[c] = "wait" /\ i > pos[c] => Unsent(r)
        /\ pc[c] \in {"send", "wait"} /\ i < pos[c] => ran[r] = 1
        /\ pc[c] = "wait" /\ i = pos[c] /\ r \notin wire => ran[r] = 1
        /\ out[c] = "ok" => ran[r] = 1

(* A call that has met no other is the only one while it runs, and has the  *)
(* client to itself.                                                        *)
Alone ==
  \A c \in lone : /\ pc[c] # "new"
                  /\ pc[c] \in Running => \A d \in Call \ {c} : pc[d] \notin Running
                  /\ pc[c] \in {"send", "wait"} => connected

Inv == TypeOK /\ Placed /\ Progress /\ Alone /\ LoneIsUndisturbed

-----------------------------------------------------------------------------
(* The requests that count are numbered from 1.                             *)
LEMMA EffectsFacts ==
  /\ \A c \in Call : Requests(c) \in 1 .. 2
  /\ \A r \in Effects : /\ r[1] \in Call /\ r[2] \in 1 .. 2
                        /\ r[2] <= Requests(r[1]) /\ r = <<r[1], r[2]>>
  /\ \A c \in Call : <<c, 0>> \notin Effects
<1>1. \A c \in Call : Requests(c) \in 1 .. 2
  BY DEF Requests
<1>2. \A r \in Effects : /\ r[1] \in Call /\ r[2] \in 1 .. 2
                         /\ r[2] <= Requests(r[1]) /\ r = <<r[1], r[2]>>
  BY DEF Effects
<1>3. \A c \in Call : <<c, 0>> \notin Effects
  BY DEF Effects
<1> QED  BY <1>1, <1>2, <1>3

LEMMA InvInit == Init => Inv
<1> SUFFICES ASSUME Init PROVE Inv
  OBVIOUS
<1>1. TypeOK
  <2>1. \A c \in Call : pos[c] <= Requests(c)
    BY EffectsFacts DEF Init
  <2>2. connected \in BOOLEAN
    BY DEF Init
  <2> QED  BY <2>1, <2>2, ServerAssumption DEF Init, TypeOK, Outcome, Running
<1>2. Placed /\ Alone /\ LoneIsUndisturbed
  BY DEF Init, Placed, Alone, LoneIsUndisturbed
<1>3. Progress
  BY EffectsFacts DEF Init, Progress, Unsent
<1> QED  BY <1>1, <1>2, <1>3 DEF Inv
(* Types: a request that is not the last is followed by one more.           *)
LEMMA TypeStep == Inv /\ [Next]_vars => TypeOK'
<1> SUFFICES ASSUME Inv, [Next]_vars PROVE TypeOK'
  OBVIOUS
<1> USE EffectsFacts, ServerAssumption
    DEF Inv, TypeOK, callVars, processVars, Running, Outcome, Placed
<1>1. ASSUME NEW c \in Call, CallTool(c) PROVE TypeOK'
  BY <1>1 DEF CallTool
<1>2. ASSUME NEW c \in Call, RefuseCall(c) PROVE TypeOK'
  BY <1>2 DEF RefuseCall
<1>3. ASSUME NEW c \in Call, Enter(c) PROVE TypeOK'
  BY <1>3 DEF Enter
<1>4. ASSUME NEW c \in Call, ConnectFails(c) PROVE TypeOK'
  BY <1>4 DEF ConnectFails
<1>5. ASSUME NEW c \in Call, Send(c) PROVE TypeOK'
  BY <1>5 DEF Send
<1>6. ASSUME NEW c \in Call, SendOffline(c) PROVE TypeOK'
  BY <1>6 DEF SendOffline, Raise, AfterRaise
<1>7. ASSUME NEW c \in Call, Deliver(c) PROVE TypeOK'
  BY <1>7 DEF Deliver
<1>8. ASSUME NEW c \in Call, NothingToDo(c) PROVE TypeOK'
  BY <1>8 DEF NothingToDo
<1>9. ASSUME NEW c \in Call, RequestFails(c) PROVE TypeOK'
  BY <1>9 DEF RequestFails, Raise, AfterRaise
<1>10. ASSUME NEW c \in Call, FloodAtEntry(c) PROVE TypeOK'
  BY <1>10 DEF FloodAtEntry
<1>11. ASSUME NEW c \in Call, Retry(c) PROVE TypeOK'
  BY <1>11 DEF Retry
<1>12. ASSUME NEW c \in Call, Exit(c) PROVE TypeOK'
  <2>1. pc' \in [Call -> {"new", "ended"} \cup Running]
    BY <1>12 DEF Exit, AfterRaise
  <2>2. out' \in [Call -> Outcome]
    BY <1>12 DEF Exit, Cancelled
  <2>3. connected' \in BOOLEAN
    BY <1>12 DEF Exit
  <2>4. pos' \in [Call -> 0 .. 2] /\ \A d \in Call : pos'[d] <= Requests(d)
    BY <1>12 DEF Exit
  <2> QED
    BY <1>12, <2>1, <2>2, <2>3, <2>4 DEF Exit
<1>13. ASSUME NEW c \in Call, Cancel(c) PROVE TypeOK'
  BY <1>13 DEF Cancel, AfterRaise, Cancelled
<1>14. ASSUME NEW r \in wire, Execute(r) PROVE TypeOK'
  BY <1>14 DEF Execute
<1>15. CASE Listener
  BY <1>15 DEF Listener, ListenerFails, ListenerRetries, ListenerReturns, ListenerStep
<1>16. CASE CloseInput
  BY <1>16 DEF CloseInput
<1>17. CASE Finish
  BY <1>17 DEF Finish
<1>18. CASE UNCHANGED vars
  BY <1>18 DEF vars
<1> QED
  BY <1>1, <1>2, <1>3, <1>4, <1>5, <1>6, <1>7, <1>8, <1>9,
     <1>10, <1>11, <1>12, <1>13, <1>14, <1>15, <1>16, <1>17, <1>18 DEF Next, Step

(* Where calls stand.                                                       *)
LEMMA PlacedStep == Inv /\ [Next]_vars => Placed'
<1> SUFFICES ASSUME Inv, [Next]_vars PROVE Placed'
  OBVIOUS
<1> USE EffectsFacts, ServerAssumption
    DEF Inv, TypeOK, callVars, processVars, Running, Placed
<1>1. ASSUME NEW c \in Call, CallTool(c) PROVE Placed'
  BY <1>1 DEF CallTool
<1>2. ASSUME NEW c \in Call, RefuseCall(c) PROVE Placed'
  BY <1>2 DEF RefuseCall
<1>3. ASSUME NEW c \in Call, Enter(c) PROVE Placed'
  BY <1>3 DEF Enter
<1>4. ASSUME NEW c \in Call, ConnectFails(c) PROVE Placed'
  BY <1>4 DEF ConnectFails
<1>5. ASSUME NEW c \in Call, Send(c) PROVE Placed'
  BY <1>5 DEF Send
<1>6. ASSUME NEW c \in Call, SendOffline(c) PROVE Placed'
  BY <1>6 DEF SendOffline, Raise, AfterRaise
<1>7. ASSUME NEW c \in Call, Deliver(c) PROVE Placed'
  BY <1>7 DEF Deliver
<1>8. ASSUME NEW c \in Call, NothingToDo(c) PROVE Placed'
  BY <1>8 DEF NothingToDo
<1>9. ASSUME NEW c \in Call, RequestFails(c) PROVE Placed'
  BY <1>9 DEF RequestFails, Raise, AfterRaise
<1>10. ASSUME NEW c \in Call, FloodAtEntry(c) PROVE Placed'
  BY <1>10 DEF FloodAtEntry
<1>11. ASSUME NEW c \in Call, Retry(c) PROVE Placed'
  BY <1>11 DEF Retry
<1>12. ASSUME NEW c \in Call, Exit(c) PROVE Placed'
  BY <1>12 DEF Exit, AfterRaise, Cancelled
<1>13. ASSUME NEW c \in Call, Cancel(c) PROVE Placed'
  BY <1>13 DEF Cancel, AfterRaise, Cancelled
<1>14. ASSUME NEW r \in wire, Execute(r) PROVE Placed'
  BY <1>14 DEF Execute
<1>15. CASE Listener
  BY <1>15 DEF Listener, ListenerFails, ListenerRetries, ListenerReturns, ListenerStep
<1>16. CASE CloseInput
  BY <1>16 DEF CloseInput
<1>17. CASE Finish
  BY <1>17 DEF Finish
<1>18. CASE UNCHANGED vars
  BY <1>18 DEF vars
<1> QED
  BY <1>1, <1>2, <1>3, <1>4, <1>5, <1>6, <1>7, <1>8, <1>9,
     <1>10, <1>11, <1>12, <1>13, <1>14, <1>15, <1>16, <1>17, <1>18 DEF Next, Step

(* The heart of it: a tool is called again only from `flood`, where nothing *)
(* has been sent.                                                           *)
LEMMA ProgressStep == Inv /\ [Next]_vars => Progress'
<1> SUFFICES ASSUME Inv, [Next]_vars PROVE Progress'
  OBVIOUS
<1> USE EffectsFacts, ServerAssumption
    DEF Inv, TypeOK, callVars, processVars, Running, Placed, Progress, Unsent
<1>1. ASSUME NEW c \in Call, CallTool(c) PROVE Progress'
  BY <1>1 DEF CallTool
<1>2. ASSUME NEW c \in Call, RefuseCall(c) PROVE Progress'
  BY <1>2 DEF RefuseCall
<1>3. ASSUME NEW c \in Call, Enter(c) PROVE Progress'
  BY <1>3 DEF Enter
<1>4. ASSUME NEW c \in Call, ConnectFails(c) PROVE Progress'
  BY <1>4 DEF ConnectFails
<1>5. ASSUME NEW c \in Call, Send(c) PROVE Progress'
  BY <1>5 DEF Send
<1>6. ASSUME NEW c \in Call, SendOffline(c) PROVE Progress'
  BY <1>6 DEF SendOffline, Raise, AfterRaise
<1>7. ASSUME NEW c \in Call, Deliver(c) PROVE Progress'
  BY <1>7 DEF Deliver
<1>8. ASSUME NEW c \in Call, NothingToDo(c) PROVE Progress'
  BY <1>8 DEF NothingToDo
<1>9. ASSUME NEW c \in Call, RequestFails(c) PROVE Progress'
  BY <1>9 DEF RequestFails, Raise, AfterRaise
<1>10. ASSUME NEW c \in Call, FloodAtEntry(c) PROVE Progress'
  BY <1>10 DEF FloodAtEntry
<1>11. ASSUME NEW c \in Call, Retry(c) PROVE Progress'
  BY <1>11 DEF Retry
<1>12. ASSUME NEW c \in Call, Exit(c) PROVE Progress'
  BY <1>12 DEF Exit, AfterRaise, Cancelled
<1>13. ASSUME NEW c \in Call, Cancel(c) PROVE Progress'
  BY <1>13 DEF Cancel, AfterRaise, Cancelled
<1>14. ASSUME NEW r \in wire, Execute(r) PROVE Progress'
  BY <1>14 DEF Execute
<1>15. CASE Listener
  BY <1>15 DEF Listener, ListenerFails, ListenerRetries, ListenerReturns, ListenerStep
<1>16. CASE CloseInput
  BY <1>16 DEF CloseInput
<1>17. CASE Finish
  BY <1>17 DEF Finish
<1>18. CASE UNCHANGED vars
  BY <1>18 DEF vars
<1> QED
  BY <1>1, <1>2, <1>3, <1>4, <1>5, <1>6, <1>7, <1>8, <1>9,
     <1>10, <1>11, <1>12, <1>13, <1>14, <1>15, <1>16, <1>17, <1>18 DEF Next, Step

(* Nobody enters beside a call that stays in `lone`.                        *)
LEMMA AloneStep == Inv /\ [Next]_vars => Alone'
<1> SUFFICES ASSUME Inv, [Next]_vars PROVE Alone'
  OBVIOUS
<1> USE EffectsFacts, ServerAssumption
    DEF Inv, TypeOK, callVars, processVars, Running, Active, Placed, Alone
<1>1. ASSUME NEW c \in Call, CallTool(c) PROVE Alone'
  BY <1>1 DEF CallTool
<1>2. ASSUME NEW c \in Call, RefuseCall(c) PROVE Alone'
  BY <1>2 DEF RefuseCall
<1>3. ASSUME NEW c \in Call, Enter(c) PROVE Alone'
  BY <1>3 DEF Enter
<1>4. ASSUME NEW c \in Call, ConnectFails(c) PROVE Alone'
  BY <1>4 DEF ConnectFails
<1>5. ASSUME NEW c \in Call, Send(c) PROVE Alone'
  BY <1>5 DEF Send
<1>6. ASSUME NEW c \in Call, SendOffline(c) PROVE Alone'
  BY <1>6 DEF SendOffline, Raise, AfterRaise
<1>7. ASSUME NEW c \in Call, Deliver(c) PROVE Alone'
  BY <1>7 DEF Deliver
<1>8. ASSUME NEW c \in Call, NothingToDo(c) PROVE Alone'
  BY <1>8 DEF NothingToDo
<1>9. ASSUME NEW c \in Call, RequestFails(c) PROVE Alone'
  BY <1>9 DEF RequestFails, Raise, AfterRaise
<1>10. ASSUME NEW c \in Call, FloodAtEntry(c) PROVE Alone'
  BY <1>10 DEF FloodAtEntry
<1>11. ASSUME NEW c \in Call, Retry(c) PROVE Alone'
  BY <1>11 DEF Retry
<1>12. ASSUME NEW c \in Call, Exit(c) PROVE Alone'
  BY <1>12 DEF Exit, AfterRaise, Cancelled
<1>13. ASSUME NEW c \in Call, Cancel(c) PROVE Alone'
  BY <1>13 DEF Cancel, AfterRaise, Cancelled
<1>14. ASSUME NEW r \in wire, Execute(r) PROVE Alone'
  BY <1>14 DEF Execute
<1>15. CASE Listener
  BY <1>15 DEF Listener, ListenerFails, ListenerRetries, ListenerReturns, ListenerStep
<1>16. CASE CloseInput
  BY <1>16 DEF CloseInput
<1>17. CASE Finish
  BY <1>17 DEF Finish
<1>18. CASE UNCHANGED vars
  BY <1>18 DEF vars
<1> QED
  BY <1>1, <1>2, <1>3, <1>4, <1>5, <1>6, <1>7, <1>8, <1>9,
     <1>10, <1>11, <1>12, <1>13, <1>14, <1>15, <1>16, <1>17, <1>18 DEF Next, Step

(* Nobody is there to disconnect it.                                        *)
LEMMA LoneStep == Inv /\ [Next]_vars => LoneIsUndisturbed'
<1> SUFFICES ASSUME Inv, [Next]_vars PROVE LoneIsUndisturbed'
  OBVIOUS
<1> USE EffectsFacts, ServerAssumption
    DEF Inv, TypeOK, callVars, processVars, Running, Active, Placed, Alone, LoneIsUndisturbed
<1>1. ASSUME NEW c \in Call, CallTool(c) PROVE LoneIsUndisturbed'
  BY <1>1 DEF CallTool
<1>2. ASSUME NEW c \in Call, RefuseCall(c) PROVE LoneIsUndisturbed'
  BY <1>2 DEF RefuseCall
<1>3. ASSUME NEW c \in Call, Enter(c) PROVE LoneIsUndisturbed'
  BY <1>3 DEF Enter
<1>4. ASSUME NEW c \in Call, ConnectFails(c) PROVE LoneIsUndisturbed'
  BY <1>4 DEF ConnectFails
<1>5. ASSUME NEW c \in Call, Send(c) PROVE LoneIsUndisturbed'
  BY <1>5 DEF Send
<1>6. ASSUME NEW c \in Call, SendOffline(c) PROVE LoneIsUndisturbed'
  BY <1>6 DEF SendOffline, Raise, AfterRaise
<1>7. ASSUME NEW c \in Call, Deliver(c) PROVE LoneIsUndisturbed'
  BY <1>7 DEF Deliver
<1>8. ASSUME NEW c \in Call, NothingToDo(c) PROVE LoneIsUndisturbed'
  BY <1>8 DEF NothingToDo
<1>9. ASSUME NEW c \in Call, RequestFails(c) PROVE LoneIsUndisturbed'
  BY <1>9 DEF RequestFails, Raise, AfterRaise
<1>10. ASSUME NEW c \in Call, FloodAtEntry(c) PROVE LoneIsUndisturbed'
  BY <1>10 DEF FloodAtEntry
<1>11. ASSUME NEW c \in Call, Retry(c) PROVE LoneIsUndisturbed'
  BY <1>11 DEF Retry
<1>12. ASSUME NEW c \in Call, Exit(c) PROVE LoneIsUndisturbed'
  BY <1>12 DEF Exit, AfterRaise, Cancelled
<1>13. ASSUME NEW c \in Call, Cancel(c) PROVE LoneIsUndisturbed'
  BY <1>13 DEF Cancel, AfterRaise, Cancelled
<1>14. ASSUME NEW r \in wire, Execute(r) PROVE LoneIsUndisturbed'
  BY <1>14 DEF Execute
<1>15. CASE Listener
  BY <1>15 DEF Listener, ListenerFails, ListenerRetries, ListenerReturns, ListenerStep
<1>16. CASE CloseInput
  BY <1>16 DEF CloseInput
<1>17. CASE Finish
  BY <1>17 DEF Finish
<1>18. CASE UNCHANGED vars
  BY <1>18 DEF vars
<1> QED
  BY <1>1, <1>2, <1>3, <1>4, <1>5, <1>6, <1>7, <1>8, <1>9,
     <1>10, <1>11, <1>12, <1>13, <1>14, <1>15, <1>16, <1>17, <1>18 DEF Next, Step

(* The invariant holds throughout.                                          *)
THEOREM InvCorrect == Spec => []Inv
<1>1. Inv /\ [Next]_vars => Inv'
  BY TypeStep, PlacedStep, ProgressStep, AloneStep, LoneStep DEF Inv
<1> QED
  BY InvInit, <1>1, PTL DEF Spec

(* The promises of the module, each a part of the invariant.                *)

(* Every variable keeps its type and no call is tried more than MaxRetries  *)
(* times again.                                                             *)
THEOREM TypeCorrect == Spec => []TypeOK
<1>1. Inv => TypeOK
  BY DEF Inv
<1> QED
  BY InvCorrect, <1>1, PTL

(* No change is made twice by one call, and a call that reports its changes *)
(* has made them all, whatever the others do to the client they share.      *)
THEOREM ExactlyWhatIsSaidCorrect == Spec => []ExactlyWhatIsSaid
<1>1. Inv => ExactlyWhatIsSaid
  BY EffectsFacts DEF Inv, Progress, ExactlyWhatIsSaid
<1> QED
  BY InvCorrect, <1>1, PTL

(* A call that overlaps no other and is not cancelled is served.            *)
THEOREM LoneIsUndisturbedCorrect == Spec => []LoneIsUndisturbed
<1>1. Inv => LoneIsUndisturbed
  BY DEF Inv
<1> QED
  BY InvCorrect, <1>1, PTL
=============================================================================
