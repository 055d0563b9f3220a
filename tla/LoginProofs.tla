---------------------------- MODULE LoginProofs -----------------------------
(***************************************************************************)
(* Proofs about Login for any number of attempts and passwords.             *)
(***************************************************************************)
EXTENDS Login, TLAPS

(* Every code asked for is a new token.                                     *)
Counted ==
  /\ token = attempt
  /\ pc \in {"connect", "check"} \cup Phone => attempt = 0
  /\ pc \in {"show", "wait", "recreate"} => attempt > 0
  /\ pc = "recreate" => attempt < MaxAttempts

(* Where a login stands tells whether Telegram has accepted it, unless the  *)
(* answer was lost.                                                         *)
Standing ==
  /\ pc \in {"greet", "named", "phoneGreet"} => authorized
  /\ pc \in {"show", "wait", "recreate", "password"} => ~authorized \/ unheard

(* A picture is there only in a QR login, which remembers to remove it.     *)
Remembered ==
  /\ png => diskError \/ torn \/ (temp /\ pc # "ended")
  /\ pc \in Phone => ~png

Inv == TypeOK /\ Counted /\ Standing /\ Remembered /\ ResultIsTrue /\ ShownIsCurrent

LEMMA InitInv == Init => Inv
<1> SUFFICES ASSUME Init PROVE Inv
  OBVIOUS
<1>1. TypeOK
  <2>1. pc \in Qr \cup Phone /\ result = "none"
    BY DEF Init, Qr, Phone
  <2>2. /\ file \in BOOLEAN /\ png \in BOOLEAN /\ temp \in BOOLEAN
        /\ authorized \in BOOLEAN /\ unheard \in BOOLEAN /\ diskError \in BOOLEAN /\ torn \in BOOLEAN
    BY DEF Init
  <2> QED
    BY <2>1, <2>2, LoginAssumption DEF Init, TypeOK, Qr, Phone
<1>2. Counted /\ Standing /\ Remembered /\ ResultIsTrue /\ ShownIsCurrent
  BY DEF Init, Counted, Standing, Remembered, ResultIsTrue, ShownIsCurrent, Phone
<1> QED
  BY <1>1, <1>2 DEF Inv

LEMMA ProgramInv == Inv /\ Program => Inv'
<1> SUFFICES ASSUME Inv, Program PROVE Inv'
  OBVIOUS
<1> USE LoginAssumption
    DEF Inv, TypeOK, Counted, Standing, Remembered, ResultIsTrue, ShownIsCurrent,
        Qr, Phone, Leave, MayBeAccepted, codeVars, fileVars
<1>1. CASE Connect
  BY <1>1 DEF Connect
<1>2. CASE CheckSession
  BY <1>2 DEF CheckSession
<1>3. CASE Show
  BY <1>3 DEF Show
<1>4. CASE SaveFails
  BY <1>4 DEF SaveFails
<1>5. CASE Recreate
  BY <1>5 DEF Recreate
<1>6. CASE Greet
  BY <1>6 DEF Greet
<1>7. CASE Fail
  <2>1. /\ authorized' \in BOOLEAN /\ unheard' \in BOOLEAN
        /\ authorized = TRUE => authorized' = TRUE
        /\ unheard = TRUE => unheard' = TRUE
        /\ authorized' = authorized \/ unheard' = TRUE
    BY <1>7 DEF Fail
  <2>2. TypeOK'
    BY <1>7, <2>1 DEF Fail
  <2>3. (Counted /\ Standing)'
    BY <1>7, <2>1 DEF Fail
  <2>4. (Remembered /\ ResultIsTrue /\ ShownIsCurrent)'
    BY <1>7, <2>1 DEF Fail
  <2> QED
    BY <2>2, <2>3, <2>4
<1>8. CASE CodeAccepted
  BY <1>8 DEF CodeAccepted
<1>9. CASE PasswordNeeded
  BY <1>9 DEF PasswordNeeded
<1>10. CASE TelegramTimesOut
  <2>1. /\ authorized' \in BOOLEAN /\ unheard' \in BOOLEAN
        /\ authorized = TRUE => authorized' = TRUE
        /\ unheard = TRUE => unheard' = TRUE
        /\ authorized' = authorized \/ unheard' = TRUE
    BY <1>10 DEF TelegramTimesOut
  <2>2. TypeOK'
    BY <1>10, <2>1 DEF TelegramTimesOut
  <2>3. (Counted /\ Standing)'
    BY <1>10, <2>1 DEF TelegramTimesOut
  <2>4. (Remembered /\ ResultIsTrue /\ ShownIsCurrent)'
    BY <1>10, <2>1 DEF TelegramTimesOut
  <2> QED
    BY <2>2, <2>3, <2>4
<1>11. CASE Name
  BY <1>11 DEF Name
<1>12. CASE NameFails
  <2>1. /\ authorized' \in BOOLEAN /\ unheard' \in BOOLEAN
        /\ authorized = TRUE => authorized' = TRUE
        /\ unheard = TRUE => unheard' = TRUE
        /\ authorized' = authorized \/ unheard' = TRUE
    BY <1>12 DEF NameFails, NextPassword
  <2>2. TypeOK'
    BY <1>12, <2>1 DEF NameFails, NextPassword
  <2>3. (Counted /\ Standing)'
    BY <1>12, <2>1 DEF NameFails, NextPassword
  <2>4. (Remembered /\ ResultIsTrue /\ ShownIsCurrent)'
    BY <1>12, <2>1 DEF NameFails, NextPassword
  <2> QED
    BY <2>2, <2>3, <2>4
<1>13. CASE Finally
  BY <1>13 DEF Finally
<1>14. CASE UnlinkFails
  BY <1>14 DEF UnlinkFails
<1> QED
  BY <1>1, <1>2, <1>3, <1>4, <1>5, <1>6, <1>7, <1>8, <1>9, <1>10, <1>11, <1>12, <1>13, <1>14
     DEF Program

LEMMA UserInv == Inv /\ User => Inv'
<1> SUFFICES ASSUME Inv, User PROVE Inv'
  OBVIOUS
<1> USE LoginAssumption
    DEF Inv, TypeOK, Counted, Standing, Remembered, ResultIsTrue, ShownIsCurrent,
        Qr, Phone, Leave, MayBeAccepted, codeVars, fileVars
<1>1. CASE PasswordFails
  <2>1. /\ authorized' \in BOOLEAN /\ unheard' \in BOOLEAN
        /\ authorized = TRUE => authorized' = TRUE
        /\ unheard = TRUE => unheard' = TRUE
        /\ authorized' = authorized \/ unheard' = TRUE
    BY <1>1 DEF PasswordFails, NextPassword
  <2>2. TypeOK'
    BY <1>1, <2>1 DEF PasswordFails, NextPassword
  <2>3. (Counted /\ Standing)'
    BY <1>1, <2>1 DEF PasswordFails, NextPassword
  <2>4. (Remembered /\ ResultIsTrue /\ ShownIsCurrent)'
    BY <1>1, <2>1 DEF PasswordFails, NextPassword
  <2> QED
    BY <2>2, <2>3, <2>4
<1>2. CASE PasswordAccepted
  BY <1>2 DEF PasswordAccepted
<1>3. CASE Interrupt
  <2>1. /\ authorized' \in BOOLEAN /\ unheard' \in BOOLEAN
        /\ authorized = TRUE => authorized' = TRUE
        /\ unheard = TRUE => unheard' = TRUE
        /\ authorized' = authorized \/ unheard' = TRUE
    BY <1>3 DEF Interrupt
  <2>2. TypeOK'
    BY <1>3, <2>1 DEF Interrupt
  <2>3. (Counted /\ Standing)'
    BY <1>3, <2>1 DEF Interrupt
  <2>4. (Remembered /\ ResultIsTrue /\ ShownIsCurrent)'
    BY <1>3, <2>1 DEF Interrupt
  <2> QED
    BY <2>2, <2>3, <2>4
<1>8. CASE InterruptCleanup
  <2>1. /\ authorized' \in BOOLEAN /\ unheard' \in BOOLEAN
        /\ authorized = TRUE => authorized' = TRUE
        /\ unheard = TRUE => unheard' = TRUE
        /\ authorized' = authorized \/ unheard' = TRUE
    BY <1>8 DEF InterruptCleanup
  <2>2. TypeOK'
    BY <1>8, <2>1 DEF InterruptCleanup
  <2>3. (Counted /\ Standing)'
    BY <1>8, <2>1 DEF InterruptCleanup
  <2>4. (Remembered /\ ResultIsTrue /\ ShownIsCurrent)'
    BY <1>8, <2>1 DEF InterruptCleanup
  <2> QED
    BY <2>2, <2>3, <2>4
<1>4. CASE CodeEntered
  BY <1>4 DEF CodeEntered
<1>5. CASE PhonePassword
  BY <1>5 DEF PhonePassword
<1>6. CASE PhoneGreet
  BY <1>6 DEF PhoneGreet
<1>7. CASE PhoneRaises
  BY <1>7 DEF PhoneRaises
<1> QED
  BY <1>1, <1>2, <1>3, <1>4, <1>5, <1>6, <1>7, <1>8 DEF User

LEMMA StutterInv == Inv /\ UNCHANGED vars => Inv'
BY DEF Inv, TypeOK, Counted, Standing, Remembered, ResultIsTrue, ShownIsCurrent,
       Qr, Phone, vars, codeVars, fileVars

LEMMA Invariant == Spec => []Inv
<1>1. Inv /\ [Next]_vars => Inv'
  BY ProgramInv, UserInv, StutterInv DEF Next
<1> QED
  BY <1>1, InitInv, PTL DEF Spec

-----------------------------------------------------------------------------
(* Every variable keeps its type; attempts and password prompts stay within *)
(* their limits.                                                            *)
THEOREM TypeCorrect == Spec => []TypeOK
<1> QED
  BY Invariant, PTL DEF Inv

(* What a login reports is what Telegram thinks, but for a call that failed *)
(* after Telegram had accepted the login.                                   *)
THEOREM ResultIsTrueCorrect == Spec => []ResultIsTrue
<1> QED
  BY Invariant, PTL DEF Inv

(* The user never looks at a code that has been replaced while the program  *)
(* waits for it.                                                            *)
THEOREM ShownIsCurrentCorrect == Spec => []ShownIsCurrent
<1> QED
  BY Invariant, PTL DEF Inv

(* The picture of a code outlives a login only if the disk has failed, or   *)
(* an interrupt struck between two steps of saving or removing it.          *)
THEOREM NoCodeLeftCorrect == Spec => []NoCodeLeft
<1>1. Inv => NoCodeLeft
  BY DEF Inv, Remembered, NoCodeLeft
<1> QED
  BY <1>1, Invariant, PTL
=============================================================================
