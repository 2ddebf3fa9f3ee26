----------------------------- MODULE PhoneCode ------------------------------
(***************************************************************************)
(* LoginScreen's request for a code by text message: the send button gives *)
(* way to a countdown, Firebase answers by callbacks, and the code field   *)
(* appears when a code was sent.                                           *)
(*                                                                         *)
(* verifyNumber starts a new periodic timer each time; all timers count    *)
(* the one field _start down, and _timer remembers only the last of them.  *)
(* The button is replaced by the next frame, so it can be tapped again     *)
(* before that.  What signIn does with the code is in Session.             *)
(*                                                                         *)
(* Requests, with their timers and verification ids, are numbered.         *)
(***************************************************************************)
EXTENDS Integers

CONSTANTS
  Countdown,  \* seconds between two codes: 30 in the code
  MaxCodes    \* bound: codes asked for

ASSUME PhoneCodeAssumption == Countdown \in Nat \ {0} /\ MaxCodes \in Nat

VARIABLES
  loginMounted,    \* the screen is there
  isWait,          \* the last value added to isWait
  countShown,      \* the countdown is on the screen, not the button
  timers,          \* the timers that run
  start,           \* _LoginScreenState._start
  codesAsked,      \* calls of verifyPhoneNumber
  unsent,          \* calls Firebase has not answered
  unretrieved,     \* codes sent whose automatic retrieval has not ended
  verificationId,  \* _LoginScreenState.verificationId, 0 if null
  isSent,          \* _LoginScreenState.isSent: the code field is there
  isEnable,        \* _LoginScreenState.isEnable: it can be written in
  sentLast,        \* history: the youngest call whose code was sent
  failedLast,      \* history: the youngest call that failed
  tappedTwice,     \* history: the button was tapped while a timer ran
  overlapped       \* history: a code was asked for with callbacks to come

callbacks == <<unsent, unretrieved, verificationId, isSent, isEnable,
               sentLast, failedLast>>
countdown == <<isWait, countShown, timers, start, codesAsked>>
codeVars == <<loginMounted, isWait, countShown, timers, start, codesAsked,
              unsent, unretrieved, verificationId, isSent, isEnable,
              sentLast, failedLast, tappedTwice, overlapped>>

Codes == 1..MaxCodes

-----------------------------------------------------------------------------
\* initState adds false to isWait; before it arrives there is no button.
CodeInit ==
  /\ loginMounted = TRUE
  /\ isWait = FALSE
  /\ countShown = TRUE
  /\ timers = {}
  /\ start = Countdown
  /\ codesAsked = 0
  /\ unsent = {}
  /\ unretrieved = {}
  /\ verificationId = 0
  /\ isSent = FALSE
  /\ isEnable = FALSE
  /\ sentLast = 0
  /\ failedLast = 0
  /\ tappedTwice = FALSE
  /\ overlapped = FALSE

\* The StreamBuilder of isWait is built.
WaitFrame ==
  /\ loginMounted
  /\ countShown' = isWait
  /\ UNCHANGED <<loginMounted, isWait, timers, start, codesAsked, callbacks,
                 tappedTwice, overlapped>>

\* The send button with a number in the field: verifyNumber and startTimer.
VerifyNumber ==
  /\ loginMounted /\ ~countShown /\ codesAsked < MaxCodes
  /\ isWait' = TRUE
  /\ codesAsked' = codesAsked + 1
  /\ timers' = timers \union {codesAsked + 1}
  /\ unsent' = unsent \union {codesAsked + 1}
  /\ tappedTwice' = (tappedTwice \/ timers # {})
  /\ overlapped' = (overlapped \/ unsent \union unretrieved # {})
  /\ UNCHANGED <<loginMounted, countShown, start, unretrieved, verificationId,
                 isSent, isEnable, sentLast, failedLast>>

TickUnreset(t) ==  \* mutant: the end of the countdown is not announced
  /\ t \in timers
  /\ start' = IF start = 1 THEN Countdown ELSE start - 1
  /\ timers' = IF start = 1 THEN timers \ {t} ELSE timers
  /\ UNCHANGED <<loginMounted, isWait, countShown, codesAsked, callbacks,
                 tappedTwice, overlapped>>

(***************************************************************************)
(* A second passes on timer t.  Once the screen is gone a release build    *)
(* still counts, and fails afterwards; a debug build fails before it and   *)
(* changes nothing.                                                        *)
(***************************************************************************)
Tick(t) ==
  /\ t \in timers
  /\ start' = IF start = 1 THEN Countdown ELSE start - 1
  /\ timers' = IF start = 1 THEN timers \ {t} ELSE timers
  /\ isWait' = (isWait /\ (start # 1 \/ ~loginMounted))
  /\ UNCHANGED <<loginMounted, countShown, codesAsked, callbacks, tappedTwice,
                 overlapped>>

\* codeSent.
SmsCodeSent(q) ==
  /\ q \in unsent
  /\ unsent' = unsent \ {q}
  /\ unretrieved' = unretrieved \union {q}
  /\ verificationId' = q
  /\ isSent' = (isSent \/ loginMounted)
  /\ isEnable' = (isEnable \/ loginMounted)
  /\ sentLast' = IF q > sentLast THEN q ELSE sentLast
  /\ UNCHANGED <<loginMounted, countdown, failedLast, tappedTwice, overlapped>>

AutoRetrieveClearing(q) ==  \* mutant: the timeout invalidates the code
  /\ q \in unretrieved
  /\ unretrieved' = unretrieved \ {q}
  /\ verificationId' = 0
  /\ UNCHANGED <<loginMounted, countdown, unsent, isSent, isEnable, sentLast,
                 failedLast, tappedTwice, overlapped>>

\* codeAutoRetrievalTimeout.
AutoRetrieve(q) ==
  /\ q \in unretrieved
  /\ unretrieved' = unretrieved \ {q}
  /\ verificationId' = q
  /\ UNCHANGED <<loginMounted, countdown, unsent, isSent, isEnable, sentLast,
                 failedLast, tappedTwice, overlapped>>

\* verificationCompleted, with or without a code sent, does nothing.
VerificationSuccess(q) ==
  /\ q \in unsent \union unretrieved
  /\ unsent' = unsent \ {q}
  /\ unretrieved' = unretrieved \ {q}
  /\ UNCHANGED <<loginMounted, countdown, verificationId, isSent, isEnable,
                 sentLast, failedLast, tappedTwice, overlapped>>

\* verificationFailed.
VerificationFailed(q) ==
  /\ q \in unsent
  /\ unsent' = unsent \ {q}
  /\ isSent' = (isSent /\ ~loginMounted)
  /\ isEnable' = (isEnable /\ ~loginMounted)
  /\ failedLast' = IF q > failedLast THEN q ELSE failedLast
  /\ UNCHANGED <<loginMounted, countdown, unretrieved, verificationId, sentLast,
                 tappedTwice, overlapped>>

\* signIn was given a wrong code; meanwhile the field may have gone.
InvalidCode ==
  /\ loginMounted /\ sentLast # 0
  /\ isEnable' = TRUE
  /\ UNCHANGED <<loginMounted, countdown, unsent, unretrieved, verificationId,
                 isSent, sentLast, failedLast, tappedTwice, overlapped>>

\* dispose closes isWait and cancels the last timer - if there is none, it
\* throws after everything else of the screen was closed.
LoginDispose ==
  /\ loginMounted
  /\ loginMounted' = FALSE
  /\ timers' = timers \ {codesAsked}
  /\ UNCHANGED <<isWait, countShown, start, codesAsked, callbacks, tappedTwice,
                 overlapped>>

CodeNext ==
  \/ WaitFrame \/ VerifyNumber \/ InvalidCode \/ LoginDispose
  \/ \E t \in timers : Tick(t)
  \/ \E q \in unsent \union unretrieved :
       \/ SmsCodeSent(q) \/ AutoRetrieve(q)
       \/ VerificationSuccess(q) \/ VerificationFailed(q)

CodeSpec == CodeInit /\ [][CodeNext]_codeVars

-----------------------------------------------------------------------------
CodeTypeOK ==
  /\ loginMounted \in BOOLEAN
  /\ isWait \in BOOLEAN
  /\ countShown \in BOOLEAN
  /\ timers \subseteq Codes
  /\ start \in 1..Countdown
  /\ codesAsked \in 0..MaxCodes
  /\ unsent \subseteq Codes
  /\ unretrieved \subseteq Codes
  /\ verificationId \in 0..MaxCodes
  /\ isSent \in BOOLEAN
  /\ isEnable \in BOOLEAN
  /\ sentLast \in 0..MaxCodes
  /\ failedLast \in 0..MaxCodes
  /\ tappedTwice \in BOOLEAN
  /\ overlapped \in BOOLEAN

(***************************************************************************)
(* A countdown always has a timer that will end it; and a timer runs for a *)
(* countdown only, and not beyond its screen - unless the button was       *)
(* tapped again before it was replaced: then a timer goes on after the     *)
(* countdown has ended and after the screen is gone.                       *)
(***************************************************************************)
CountdownOwned ==
  /\ loginMounted /\ isWait => timers # {}
  /\ timers # {} => (loginMounted /\ isWait) \/ tappedTwice

(***************************************************************************)
(* As long as no code is asked for with callbacks of an earlier one still  *)
(* to come, the code field is there only for the code of the last text     *)
(* message: signIn sends the id it belongs to, and no later call failed.   *)
(***************************************************************************)
FieldMatchesCode ==
  (isSent /\ loginMounted /\ ~overlapped)
  => verificationId = sentLast /\ sentLast # 0 /\ failedLast < sentLast
=============================================================================
