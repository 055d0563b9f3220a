------------------------------- MODULE Login --------------------------------
(***************************************************************************)
(* The interactive login (src/mcp_telegram/telegram.py, qr_auth.py): by a   *)
(* QR code that is shown on the terminal and in a file, renewed after a     *)
(* timeout and completed by a password if the account has one, or by a code *)
(* sent to the phone.  Telegram, the user and the disk choose what happens  *)
(* at every step; any call may raise, and the user may interrupt.           *)
(***************************************************************************)
EXTENDS Naturals

CONSTANTS MaxAttempts,    \* QRAuthHandler.max_attempts
          MaxPasswords    \* max_attempts of _handle_2fa

ASSUME LoginAssumption == MaxAttempts \in Nat \ {0} /\ MaxPasswords \in Nat \ {0}

VARIABLES pc,
          file,         \* method in ["file", "both"]
          authorized,   \* Telegram takes the session as logged in
          attempt,      \* codes asked for so far, and the number of the
          password,     \* password prompt
          token,        \* the login token that Telegram has issued last
          shown,        \* the one in the code the user sees
          png,          \* telegram_qr_auth.png is there
          temp,         \* it is in temp_files
          result,       \* of authenticate() or phone_login_to_telegram()
          unheard,      \* history: a call has failed after Telegram took the login
          diskError,    \* history: save or unlink has failed
          torn          \* history: an interrupt left the picture behind

codeVars == <<file, attempt, token, shown>>
fileVars == <<png, temp, diskError, torn>>
vars == <<pc, codeVars, fileVars, authorized, password, result, unheard>>

(* "greet": in get_me after a login; "named": in get_me after a password.   *)
Qr == {"connect", "check", "show", "wait", "recreate", "greet", "password", "named"}
Phone == {"code", "phonePassword", "phoneGreet"}

TypeOK ==
  /\ pc \in Qr \cup Phone \cup {"finally", "ended"}
  /\ file \in BOOLEAN /\ png \in BOOLEAN /\ temp \in BOOLEAN
  /\ authorized \in BOOLEAN /\ unheard \in BOOLEAN
  /\ diskError \in BOOLEAN /\ torn \in BOOLEAN
  /\ attempt \in 0 .. MaxAttempts
  /\ password \in 0 .. MaxPasswords - 1
  /\ token \in 0 .. MaxAttempts /\ shown \in 0 .. token
  /\ result \in {"none", "success", "failure", "raised"}
  /\ result = "none" <=> pc \notin {"finally", "ended"}

(* connect_to_telegram: --qr or a phone number; the session may be logged   *)
(* in already.                                                              *)
Init ==
  /\ pc \in {"connect", "code"}
  /\ file \in BOOLEAN /\ authorized \in BOOLEAN
  /\ attempt = 0 /\ password = 0 /\ token = 0 /\ shown = 0
  /\ png = FALSE /\ temp = FALSE /\ diskError = FALSE /\ torn = FALSE
  /\ result = "none" /\ unheard = FALSE

-----------------------------------------------------------------------------
(* authenticate()                                                           *)

(* Every way out of the body of authenticate's `try`.                       *)
Leave(r) == pc' = "finally" /\ result' = r

(* A call that ends in an error may have been accepted by Telegram: the     *)
(* answer is lost, or a request that follows it fails.                      *)
MayBeAccepted == \/ UNCHANGED <<authorized, unheard>>
                 \/ authorized' = TRUE /\ unheard' = TRUE

Connect ==
  /\ pc = "connect"
  /\ pc' = "check"
  /\ UNCHANGED <<codeVars, fileVars, authorized, password, result, unheard>>

(* is_user_authorized(), and if not, qr_login().                            *)
CheckSession ==
  /\ pc = "check"
  /\ IF authorized
     THEN pc' = "greet" /\ UNCHANGED <<attempt, token>>
     ELSE pc' = "show" /\ attempt' = 1 /\ token' = 1
  /\ UNCHANGED <<file, shown, fileVars, authorized, password, result, unheard>>

(* _display_qr                                                              *)
Show ==
  /\ pc = "show"
  /\ pc' = "wait" /\ shown' = token
  /\ png' = (png \/ file) /\ temp' = (temp \/ file)
  /\ UNCHANGED <<file, attempt, token, diskError, torn, authorized, password, result, unheard>>

(* img.save raises, with or without a part of the file on the disk, before  *)
(* the file is in temp_files; the terminal may have shown the code.         *)
SaveFails ==
  /\ pc = "show" /\ file
  /\ shown' \in {shown, token}
  /\ png' \in BOOLEAN /\ (png => png')
  /\ diskError' = TRUE
  /\ Leave("failure")
  /\ UNCHANGED <<file, attempt, token, temp, torn, authorized, password, unheard>>

(* The user has scanned the code and wait() fetches the authorization.      *)
CodeAccepted ==
  /\ pc = "wait"
  /\ authorized' = TRUE
  /\ pc' = "greet"
  /\ UNCHANGED <<codeVars, fileVars, password, result, unheard>>

(* SessionPasswordNeededError                                               *)
PasswordNeeded ==
  /\ pc = "wait"
  /\ pc' = "password"
  /\ UNCHANGED <<codeVars, fileVars, authorized, password, result, unheard>>

(* telethon.errors.TimeoutError, which Telegram's servers send while the    *)
(* authorization is fetched, or the name of the user after it: another      *)
(* code, or there have been enough.                                         *)
TelegramTimesOut ==
  /\ \/ pc = "wait" /\ MayBeAccepted
     \/ pc = "greet" /\ attempt > 0 /\ unheard' = TRUE /\ UNCHANGED authorized
  /\ IF attempt < MaxAttempts
     THEN pc' = "recreate" /\ UNCHANGED result
     ELSE Leave("failure")
  /\ UNCHANGED <<codeVars, fileVars, password>>

\* MUTANT of Recreate: the attempt is not counted (the number of the token
\* is left alone at its bound).
RecreateUncounted ==
  /\ pc = "recreate"
  /\ token' = IF token < MaxAttempts THEN token + 1 ELSE token
  /\ pc' = "show"
  /\ UNCHANGED <<file, attempt, shown, fileVars, authorized, password, result, unheard>>

(* qr_login.recreate()                                                      *)
Recreate ==
  /\ pc = "recreate"
  /\ token' = token + 1 /\ attempt' = attempt + 1
  /\ pc' = "show"
  /\ UNCHANGED <<file, shown, fileVars, authorized, password, result, unheard>>

(* get_me() names the user.                                                 *)
Greet ==
  /\ pc = "greet"
  /\ Leave("success")
  /\ UNCHANGED <<codeVars, fileVars, authorized, password, unheard>>

(* `except Exception`: any call raises.  So does wait() after qr_timeout,   *)
(* with asyncio's TimeoutError, which is not the one of telethon.errors     *)
(* that qr_auth.py imports under this name.  wait() and recreate() ask      *)
(* Telegram for the state of the code, which logs in if it was scanned.     *)
Fail ==
  /\ Leave("failure")
  /\ \/ pc \in {"connect", "check", "show"} /\ UNCHANGED <<authorized, unheard>>
     \/ pc \in {"wait", "recreate"} /\ MayBeAccepted
     \/ pc = "greet" /\ unheard' = TRUE /\ UNCHANGED authorized
  /\ UNCHANGED <<codeVars, fileVars, password>>

-----------------------------------------------------------------------------
(* _handle_2fa()                                                            *)

\* MUTANT of NextPassword: the end of the loop counts as a success.
NextPasswordPasses ==
  IF password + 1 < MaxPasswords
  THEN password' = password + 1 /\ pc' = "password" /\ UNCHANGED result
  ELSE Leave("success") /\ UNCHANGED password

\* MUTANT of NextPassword: one prompt too many.
NextPasswordLate ==
  IF password < MaxPasswords
  THEN password' = password + 1 /\ pc' = "password" /\ UNCHANGED result
  ELSE Leave("failure") /\ UNCHANGED password

(* The next turn of the loop, or its end.                                   *)
NextPassword ==
  IF password + 1 < MaxPasswords
  THEN password' = password + 1 /\ pc' = "password" /\ UNCHANGED result
  ELSE Leave("failure") /\ UNCHANGED password

(* The password is empty or wrong, or getpass or sign_in raises, which it   *)
(* may after a right password, too.                                         *)
PasswordFails ==
  /\ pc = "password"
  /\ MayBeAccepted
  /\ NextPassword
  /\ UNCHANGED <<codeVars, fileVars>>

PasswordAccepted ==
  /\ pc = "password"
  /\ authorized' = TRUE
  /\ pc' = "named"
  /\ UNCHANGED <<codeVars, fileVars, password, result, unheard>>

Name ==
  /\ pc = "named"
  /\ Leave("success")
  /\ UNCHANGED <<codeVars, fileVars, authorized, password, unheard>>

(* The same clause catches a get_me that fails after the right password:    *)
(* the user is told it was wrong and asked again.                           *)
NameFails ==
  /\ pc = "named"
  /\ unheard' = TRUE
  /\ NextPassword
  /\ UNCHANGED <<codeVars, fileVars, authorized>>

-----------------------------------------------------------------------------
\* MUTANT of Finally: files are removed after a success only.
FinallyOnSuccess ==
  /\ pc = "finally"
  /\ pc' = "ended"
  /\ png' = (png /\ ~(temp /\ result = "success"))
  /\ temp' = FALSE
  /\ UNCHANGED <<codeVars, diskError, torn, authorized, password, result, unheard>>

(* _cleanup_temp_files: also called on some of the ways here, to the same   *)
(* effect.                                                                  *)
Finally ==
  /\ pc = "finally"
  /\ pc' = "ended"
  /\ png' = (png /\ ~temp)
  /\ temp' = FALSE
  /\ UNCHANGED <<codeVars, diskError, torn, authorized, password, result, unheard>>

(* A file that cannot be removed is forgotten.                              *)
UnlinkFails ==
  /\ pc = "finally" /\ png /\ temp
  /\ pc' = "ended"
  /\ diskError' = TRUE
  /\ temp' = FALSE
  /\ UNCHANGED <<codeVars, png, torn, authorized, password, result, unheard>>

(* Ctrl-C passes every `except Exception`, not the `finally`.  On Python    *)
(* 3.9 and 3.10, and the second time on later ones, it strikes anywhere,    *)
(* also when the picture is on the disk and not yet in temp_files.          *)
Interrupt ==
  /\ Leave("raised")
  /\ \/ pc \in {"wait", "recreate", "password"} /\ MayBeAccepted
     \/ pc \in Qr /\ UNCHANGED <<authorized, unheard>>
  /\ \/ UNCHANGED fileVars
     \/ /\ pc = "show" /\ file
        /\ png' = TRUE /\ torn' = (torn \/ ~temp)
        /\ UNCHANGED <<temp, diskError>>
  /\ UNCHANGED <<codeVars, password>>

(* Ctrl-C inside the last _cleanup_temp_files; an earlier one is followed   *)
(* by this one.                                                             *)
InterruptCleanup ==
  /\ pc = "finally"
  /\ pc' = "ended" /\ result' = "raised"
  /\ png' \in {png, png /\ ~temp}
  /\ temp' \in {temp, FALSE}
  /\ torn' = (torn \/ (png' /\ temp))
  /\ UNCHANGED <<codeVars, diskError, authorized, password, unheard>>

-----------------------------------------------------------------------------
(* phone_login_to_telegram(): nothing is caught but the need of a password, *)
(* which is asked for once.                                                 *)

CodeEntered ==
  /\ pc = "code"
  /\ \/ authorized' = TRUE /\ pc' = "phoneGreet"
     \/ pc' = "phonePassword" /\ UNCHANGED authorized
  /\ UNCHANGED <<codeVars, fileVars, password, result, unheard>>

PhonePassword ==
  /\ pc = "phonePassword"
  /\ authorized' = TRUE /\ pc' = "phoneGreet"
  /\ UNCHANGED <<codeVars, fileVars, password, result, unheard>>

PhoneGreet ==
  /\ pc = "phoneGreet"
  /\ pc' = "ended" /\ result' = "success"
  /\ UNCHANGED <<codeVars, fileVars, authorized, password, unheard>>

PhoneRaises ==
  /\ pc \in Phone
  /\ pc' = "ended" /\ result' = "raised"
  /\ MayBeAccepted
  /\ UNCHANGED <<codeVars, fileVars, password>>

Program == \/ Connect \/ CheckSession \/ Show \/ SaveFails \/ Recreate \/ Greet \/ Fail
           \/ CodeAccepted \/ PasswordNeeded \/ TelegramTimesOut
           \/ Name \/ NameFails \/ Finally \/ UnlinkFails

User == \/ PasswordFails \/ PasswordAccepted \/ Interrupt \/ InterruptCleanup
        \/ CodeEntered \/ PhonePassword \/ PhoneGreet \/ PhoneRaises

Next == Program \/ User

Spec == Init /\ [][Next]_vars

(* Fairness: calls return or raise, and wait() ends after qr_timeout; what  *)
(* the user types is not forced.                                            *)
FairSpec == Spec /\ WF_vars(Program)

-----------------------------------------------------------------------------
(* Properties.                                                              *)

(* A login that reports success has one, however it got there.  One that    *)
(* reports failure has not logged in, unless a call failed after Telegram   *)
(* had accepted the login: wait() or sign_in() without an answer, or the    *)
(* question for the user's name (qr_auth.py:68, 72, 88, 164-173).  Before   *)
(* the first code the session is as it was.                                 *)
ResultIsTrue ==
  /\ result = "success" => authorized
  /\ result = "failure" /\ authorized => unheard \/ attempt = 0

(* The code the user looks at is the one the program waits for, also after  *)
(* it has been renewed (qr_auth.py:56-89).                                  *)
ShownIsCurrent == pc = "wait" => shown = token /\ token = attempt

(* However the login ends, the picture of the code is gone, unless the disk *)
(* failed or Ctrl-C struck between img.save and temp_files.append or inside *)
(* the last cleanup (qr_auth.py:80, 98, 110-111, 136-137, 180-188).  At any *)
(* other place Ctrl-C leaves none.                                          *)
NoCodeLeft == pc = "ended" => ~png \/ diskError \/ torn

(* A QR login ends, or waits for the user at a password prompt.             *)
QrLoginEnds == pc \in Qr ~> pc \in {"ended", "password"}
=============================================================================
