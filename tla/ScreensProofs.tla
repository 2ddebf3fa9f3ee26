--------------------------- MODULE ScreensProofs ----------------------------
(***************************************************************************)
(* The screens' properties for every value of the constants.               *)
(*                                                                         *)
(* Each screen has an inductive invariant, proved of its own specification;*)
(* EachScreen shows that a behaviour of Screens is one of every screen.    *)
(***************************************************************************)
EXTENDS Screens, SequenceTheorems, TLAPS

-----------------------------------------------------------------------------
(***************************************************************************)
(* PhoneCode.  Without a second tap the only timer is the one _timer       *)
(* remembers; without an overlap the only callbacks to come are those of   *)
(* the last call, and verificationId is that of the last code sent.        *)
(***************************************************************************)
OneTimer ==
  /\ loginMounted /\ isWait => timers # {}
  /\ ~tappedTwice => timers \subseteq {codesAsked}
  /\ ~tappedTwice /\ timers # {} => loginMounted /\ isWait

OneCall ==
  ~overlapped =>
    /\ unsent \union unretrieved \subseteq {codesAsked}
    /\ unretrieved \subseteq {sentLast}
    /\ verificationId = sentLast
    /\ unsent # {} => sentLast < codesAsked /\ failedLast < codesAsked
    /\ isSent /\ loginMounted => sentLast # 0 /\ failedLast < sentLast

Called == sentLast <= codesAsked /\ failedLast <= codesAsked
            /\ \A q \in unsent \union unretrieved : q <= codesAsked

CodeInv == CodeTypeOK /\ Called /\ OneTimer /\ OneCall

LEMMA CodeInitially == CodeInit => CodeInv
<1> SUFFICES ASSUME CodeInit PROVE CodeInv
  OBVIOUS
<1>1. 0 \in 0..MaxCodes /\ Countdown \in 1..Countdown
  BY PhoneCodeAssumption
<1>2. CodeTypeOK
  BY <1>1, Zenon DEF CodeInit, CodeTypeOK
<1>3. Called /\ OneTimer /\ OneCall
  BY DEF CodeInit, Called, OneTimer, OneCall
<1>4. QED
  BY <1>2, <1>3 DEF CodeInv

LEMMA CodeStep == CodeInv /\ [CodeNext]_codeVars => CodeInv'
<1> SUFFICES ASSUME CodeInv, [CodeNext]_codeVars PROVE CodeInv'
  OBVIOUS
<1> USE PhoneCodeAssumption
    DEF CodeInv, CodeTypeOK, Called, OneTimer, OneCall, Codes, callbacks, countdown
<1>1. CASE WaitFrame
  BY <1>1 DEF WaitFrame
<1>2. CASE VerifyNumber
  <2>1. codesAsked + 1 \in Codes /\ codesAsked + 1 \in 0..MaxCodes
    BY <1>2 DEF VerifyNumber
  <2>2. CodeTypeOK'
    BY <1>2, <2>1, Zenon DEF VerifyNumber
  <2>3. Called'
    BY <1>2 DEF VerifyNumber
  <2>4. isWait' /\ loginMounted' /\ (~tappedTwice' => ~tappedTwice /\ timers = {})
    BY <1>2, Zenon DEF VerifyNumber
  <2>5. OneTimer'
    BY <1>2, <2>4 DEF VerifyNumber
  <2>6. ~overlapped' => ~overlapped /\ unsent = {} /\ unretrieved = {}
    <3>1. ~overlapped' => ~overlapped /\ unsent \union unretrieved = {}
      BY <1>2, Zenon DEF VerifyNumber
    <3>2. QED
      BY <3>1
  <2>7. OneCall'
    BY <1>2, <2>1, <2>6 DEF VerifyNumber
  <2>8. QED
    BY <2>2, <2>3, <2>5, <2>7
<1>3. CASE InvalidCode
  BY <1>3 DEF InvalidCode
<1>4. CASE LoginDispose
  BY <1>4 DEF LoginDispose
<1>5. ASSUME NEW t \in timers, Tick(t) PROVE CodeInv'
  <2>1. start' \in 1..Countdown
    BY <1>5 DEF Tick
  <2>2. isWait' \in BOOLEAN /\ (isWait' => isWait) /\ (start = 1 /\ loginMounted => ~isWait')
    BY <1>5, Zenon DEF Tick
  <2>3. start # 1 => (isWait' <=> isWait)
    BY <1>5, Zenon DEF Tick
  <2>4. timers' = IF start = 1 THEN timers \ {t} ELSE timers
    BY <1>5, Zenon DEF Tick
  <2>5. UNCHANGED <<loginMounted, countShown, codesAsked, callbacks, tappedTwice,
                    overlapped>>
    BY <1>5 DEF Tick
  <2>6. CodeTypeOK'
    BY <2>1, <2>2, <2>4, <2>5
  <2>7. Called' /\ OneTimer' /\ OneCall'
    BY <2>2, <2>3, <2>4, <2>5
  <2>8. QED
    BY <2>6, <2>7
<1>6. ASSUME NEW q \in unsent \union unretrieved, SmsCodeSent(q) PROVE CodeInv'
  <2>1. q \in Codes /\ q \in 0..MaxCodes /\ sentLast' \in 0..MaxCodes
    BY <1>6 DEF SmsCodeSent
  <2>2. CodeTypeOK'
    BY <1>6, <2>1, Zenon DEF SmsCodeSent
  <2>3. Called' /\ OneTimer'
    BY <1>6 DEF SmsCodeSent
  <2>4. OneCall'
    <3> SUFFICES ASSUME ~overlapped' PROVE OneCall'
      OBVIOUS
    <3>1. q = codesAsked /\ sentLast < q /\ failedLast < q
      BY <1>6 DEF SmsCodeSent
    <3>2. sentLast' = q /\ verificationId' = q /\ unsent' = {} /\ unretrieved' \subseteq {q}
      BY <1>6, <2>1, <3>1 DEF SmsCodeSent
    <3>3. codesAsked' = codesAsked /\ failedLast' = failedLast
      BY <1>6 DEF SmsCodeSent
    <3>4. QED
      BY <2>1, <3>1, <3>2, <3>3
  <2>5. QED
    BY <2>2, <2>3, <2>4
<1>7. ASSUME NEW q \in unsent \union unretrieved, AutoRetrieve(q) PROVE CodeInv'
  BY <1>7 DEF AutoRetrieve
<1>8. ASSUME NEW q \in unsent \union unretrieved, VerificationSuccess(q) PROVE CodeInv'
  BY <1>8 DEF VerificationSuccess
<1>9. ASSUME NEW q \in unsent \union unretrieved, VerificationFailed(q) PROVE CodeInv'
  <2>1. q \in Codes /\ failedLast' \in 0..MaxCodes
    BY <1>9 DEF VerificationFailed
  <2>2. CodeTypeOK'
    BY <1>9, <2>1, Zenon DEF VerificationFailed
  <2>3. Called' /\ OneTimer'
    BY <1>9 DEF VerificationFailed
  <2>4. ~(isSent' /\ loginMounted')
    BY <1>9, Zenon DEF VerificationFailed
  <2>5. OneCall'
    BY <1>9, <2>4 DEF VerificationFailed
  <2>6. QED
    BY <2>2, <2>3, <2>5
<1>10. CASE UNCHANGED codeVars
  BY <1>10 DEF codeVars
<1>11. QED
  BY <1>1, <1>2, <1>3, <1>4, <1>5, <1>6, <1>7, <1>8, <1>9, <1>10 DEF CodeNext

LEMMA CodeCorrect == CodeSpec => []CodeInv
BY CodeInitially, CodeStep, PTL DEF CodeSpec

(***************************************************************************)
(* A countdown on the login screen always has a timer that ends it, for    *)
(* any length of the countdown and any number of codes.                    *)
(***************************************************************************)
THEOREM CountdownHasTimer == CodeSpec => []CountdownOwned
<1>1. CodeInv => CountdownOwned
  BY DEF CodeInv, OneTimer, CountdownOwned
<1>2. QED
  BY <1>1, CodeCorrect, PTL

(***************************************************************************)
(* The code field of the login screen belongs to the last text message.    *)
(***************************************************************************)
THEOREM FieldIsOfLastCode == CodeSpec => []FieldMatchesCode
<1>1. CodeInv => FieldMatchesCode
  BY DEF CodeInv, OneCall, FieldMatchesCode
<1>2. QED
  BY <1>1, CodeCorrect, PTL

-----------------------------------------------------------------------------
(***************************************************************************)
(* Recorder.  The plugin's calls are answered in order, so what will be    *)
(* recorded and uploaded can be read off the queue: a start with a stop    *)
(* behind it was stopped early, and of two stops in the queue the second   *)
(* finds a file that was stopped twice or stopped early.                   *)
(***************************************************************************)
Exempt == stoppedTwice \union early

Sending == {u.nr : u \in uploads} \union {sent[i] : i \in DOMAIN sent}

\* A recording to be started is new; it has its buttons or is early.
StartsAreNew ==
  \A i \in DOMAIN calls : calls[i].op = "start" =>
    /\ calls[i].nr \in 1..starts
    /\ calls[i].nr \notin Sending /\ calls[i].nr # path /\ calls[i].nr # recorder
    /\ (recMounted /\ isRecording) \/ calls[i].nr \in early

QueueInOrder ==
  \A i, j \in DOMAIN calls : i < j =>
    /\ calls[i].op = "start" /\ calls[j].op = "start" => calls[i].nr # calls[j].nr
    /\ calls[i].op = "start" /\ calls[j].op = "stop" => calls[i].nr \in early
    /\ calls[i].op = "stop" /\ calls[j].op = "stop" => path \in Exempt

FileIsRecording ==
  /\ path <= starts /\ recorder <= starts
  /\ recorder # 0 => path = recorder \/ (~recMounted /\ recorder \in early)
  /\ recorder \notin Sending
  /\ Sending \subseteq 1..starts
  /\ Pending("stop") /\ path \in Sending => path \in Exempt

UploadsDiffer ==
  \A u, v \in uploads : u.nr = v.nr => u = v \/ u.nr \in Exempt

RecInv ==
  /\ RecTypeOK /\ StartsAreNew /\ QueueInOrder /\ FileIsRecording /\ UploadsDiffer
  /\ MicrophoneOwned /\ StoppedIsSent

\* The queue after a call was made, and after one was answered.
LEMMA CallMade ==
  ASSUME NEW S, NEW s \in Seq(S), NEW e \in S
  PROVE  /\ Append(s, e) \in Seq(S)
         /\ DOMAIN Append(s, e) = 1..(Len(s) + 1)
         /\ \A i \in DOMAIN s : i \in 1..Len(s) /\ Append(s, e)[i] = s[i]
         /\ Append(s, e)[Len(s) + 1] = e
BY AppendProperties

LEMMA CallAnswered ==
  ASSUME NEW S, NEW s \in Seq(S), s # <<>>
  PROVE  /\ Tail(s) \in Seq(S)
         /\ Head(s) = s[1] /\ 1 \in DOMAIN s
         /\ \A i \in DOMAIN Tail(s) :
              i \in Nat \ {0} /\ i + 1 \in DOMAIN s /\ Tail(s)[i] = s[i + 1]
         /\ \A i \in DOMAIN s : i # 1 => i - 1 \in DOMAIN Tail(s) /\ i \in Nat
BY HeadTailProperties

LEMMA RecInitially == RecInit => RecInv
<1> SUFFICES ASSUME RecInit PROVE RecInv
  OBVIOUS
<1>1. 0 \in 0..MaxRecordings /\ <<>> \in Seq(Calls) /\ <<>> \in Seq(Sounds)
  BY RecorderAssumption
<1>2. RecTypeOK
  BY <1>1, Zenon DEF RecInit, RecTypeOK
<1>3. QED
  BY <1>2 DEF RecInit, RecInv, StartsAreNew, QueueInOrder, FileIsRecording,
     UploadsDiffer, MicrophoneOwned, StoppedIsSent, NoneLost, NoneTwice, Sending, Pending

LEMMA RecStep == RecInv /\ [RecNext]_recVars => RecInv'
<1> SUFFICES ASSUME RecInv, [RecNext]_recVars PROVE RecInv'
  OBVIOUS
<1> USE RecorderAssumption
<1>t. /\ RecTypeOK /\ calls \in Seq(Calls)
      /\ \A i \in DOMAIN calls : i \in Nat /\ calls[i] \in Calls
  BY DEF RecInv, RecTypeOK
<1>1. CASE RecFrame
  BY <1>1 DEF RecFrame, RecInv, RecTypeOK, StartsAreNew, QueueInOrder, FileIsRecording,
     UploadsDiffer, MicrophoneOwned, StoppedIsSent, NoneLost, NoneTwice, Sending,
     Pending, Exempt, Copies, traces
<1>2. CASE StartRecorder
  <2> DEFINE e == [op |-> "start", nr |-> starts + 1]
  <2>1. e \in Calls /\ starts + 1 \in 0..MaxRecordings /\ starts + 1 \notin 1..starts
    BY <1>2, <1>t DEF StartRecorder, Calls, Sounds, RecTypeOK
  <2>2. /\ calls' = Append(calls, e) /\ starts' = starts + 1 /\ isRecording' = TRUE
        /\ recMounted = TRUE
        /\ UNCHANGED <<recMounted, buttons, openChat, recorder, path, uploads, sent,
                       traces>>
    BY <1>2, <1>t DEF StartRecorder, RecTypeOK
  <2>3. /\ calls' \in Seq(Calls) /\ DOMAIN calls' = 1..(Len(calls) + 1)
        /\ DOMAIN calls = 1..Len(calls) /\ Len(calls) \in Nat
        /\ \A i \in DOMAIN calls : calls'[i] = calls[i]
        /\ calls'[Len(calls) + 1] = e
    BY <2>1, <2>2, <1>t, CallMade
  <2>4. \A i \in DOMAIN calls' : i \in DOMAIN calls \/ (i = Len(calls) + 1 /\ calls'[i] = e)
    BY <2>3
  <2> HIDE DEF e
  <2>5. RecTypeOK'
    BY <1>t, <2>1, <2>2, <2>3 DEF RecTypeOK, traces
  <2>6. e.op = "start" /\ e.nr = starts + 1 /\ starts \in Nat
    BY <1>t DEF e, RecTypeOK
  <2>7. Sending' = Sending /\ Exempt' = Exempt
    BY <2>2 DEF Sending, Exempt, traces
  <2>8. StartsAreNew'
    <3> SUFFICES ASSUME NEW i \in DOMAIN calls', calls'[i].op = "start"
                 PROVE  /\ calls'[i].nr \in 1..starts'
                        /\ calls'[i].nr \notin Sending' /\ calls'[i].nr # path'
                        /\ calls'[i].nr # recorder'
      BY <2>2 DEF StartsAreNew
    <3>1. path < starts + 1 /\ recorder < starts + 1
      BY <1>t, <2>6 DEF RecInv, FileIsRecording, RecTypeOK
    <3>2. CASE i \in DOMAIN calls
      BY <3>2, <2>2, <2>3, <2>6, <2>7 DEF RecInv, StartsAreNew
    <3>3. CASE i = Len(calls) + 1 /\ calls'[i] = e
      BY <3>1, <3>3, <2>1, <2>2, <2>6, <2>7 DEF RecInv, FileIsRecording
    <3>4. QED
      BY <2>4, <3>2, <3>3
  <2>9. QueueInOrder'
    BY <2>2, <2>3, <2>4, <2>6, <2>7 DEF RecInv, QueueInOrder, StartsAreNew, traces
  <2>10. Pending("stop")' <=> Pending("stop")
    BY <2>3, <2>4, <2>6 DEF Pending
  <2>11. FileIsRecording'
    BY <1>t, <2>2, <2>6, <2>7, <2>10 DEF RecInv, FileIsRecording, RecTypeOK, traces
  <2>12. UploadsDiffer' /\ MicrophoneOwned' /\ StoppedIsSent'
    BY <2>2, <2>7 DEF RecInv, UploadsDiffer, MicrophoneOwned, StoppedIsSent, NoneLost,
       NoneTwice, Copies, traces, Exempt
  <2>13. QED
    BY <2>5, <2>8, <2>9, <2>11, <2>12 DEF RecInv
<1>3. CASE StopRecorder
  <2>1. CASE recorder = 0
    <3>1. UNCHANGED <<recMounted, buttons, openChat, recorder, path, starts, uploads,
                      sent, stopped, lostSounds, refused, calls>>
          /\ early' = early \union Starting /\ isRecording' = FALSE
          /\ stoppedTwice' = stoppedTwice
      BY <1>3, <2>1 DEF StopRecorder, Twice
    <3>2. Starting \subseteq Sounds
      BY <1>t DEF Starting, Calls
    <3>3. \A i \in DOMAIN calls : calls[i].op = "start" => calls[i].nr \in Starting
      BY DEF Starting
    <3>4. RecTypeOK'
      BY <1>t, <3>1, <3>2 DEF RecTypeOK
    <3>5. StartsAreNew' /\ QueueInOrder'
      BY <3>1, <3>3 DEF RecInv, StartsAreNew, QueueInOrder, Sending, Exempt
    <3>6. FileIsRecording' /\ UploadsDiffer'
      BY <2>1, <3>1 DEF RecInv, FileIsRecording, UploadsDiffer, Sending, Exempt, Pending
    <3>7. MicrophoneOwned' /\ StoppedIsSent'
      BY <2>1, <3>1 DEF RecInv, MicrophoneOwned, StoppedIsSent, NoneLost, NoneTwice, Copies
    <3>8. QED
      BY <3>4, <3>5, <3>6, <3>7 DEF RecInv
  <2>2. CASE recorder # 0
    <3> DEFINE e == [op |-> "stop", chat |-> openChat]
    <3>1. /\ UNCHANGED <<recMounted, buttons, openChat, recorder, path, starts, uploads,
                         sent, stopped, lostSounds, refused>>
          /\ early' = early \union Starting /\ isRecording' = FALSE /\ recMounted
          /\ calls' = Append(calls, e) /\ stoppedTwice' = stoppedTwice \union Twice
      BY <1>3, <2>2 DEF StopRecorder
    <3>2. Starting \subseteq Sounds /\ Twice \subseteq Sounds
      BY <1>t DEF Starting, Calls, Twice, RecTypeOK, Sounds
    <3>3. \A i \in DOMAIN calls : calls[i].op = "start" => calls[i].nr \in early'
      BY <3>1 DEF Starting
    <3>4. e \in Calls /\ e.op = "stop"
      BY <1>t DEF Calls, RecTypeOK
    <3>5. /\ calls' \in Seq(Calls) /\ DOMAIN calls' = 1..(Len(calls) + 1)
          /\ DOMAIN calls = 1..Len(calls) /\ Len(calls) \in Nat
          /\ \A i \in DOMAIN calls : calls'[i] = calls[i]
          /\ calls'[Len(calls) + 1] = e
      BY <3>1, <3>4, <1>t, CallMade
    <3>6. \A i \in DOMAIN calls' : i \in DOMAIN calls \/ (i = Len(calls) + 1 /\ calls'[i] = e)
      BY <3>5
    <3> HIDE DEF e
    <3>7. RecTypeOK'
      BY <1>t, <3>1, <3>2, <3>5 DEF RecTypeOK
    <3>8. Sending' = Sending /\ Exempt \subseteq Exempt' /\ early \subseteq early'
      BY <3>1 DEF Sending, Exempt
    <3>9. path = recorder /\ path \notin Sending
      BY <2>2, <3>1 DEF RecInv, FileIsRecording
    <3>10. Pending("stop")'
      BY <3>4, <3>5 DEF Pending
    <3>11. Pending("stop") => path \in Exempt'
      BY <2>2, <3>1, <3>9 DEF Twice, Exempt
    <3>12. StartsAreNew'
      BY <3>1, <3>3, <3>4, <3>5, <3>6, <3>8 DEF RecInv, StartsAreNew
    <3>13. QueueInOrder'
      <4> SUFFICES ASSUME NEW i \in DOMAIN calls', NEW j \in DOMAIN calls', i < j
                   PROVE  /\ calls'[i].op = "start" /\ calls'[j].op = "start"
                               => calls'[i].nr # calls'[j].nr
                          /\ calls'[i].op = "start" /\ calls'[j].op = "stop"
                               => calls'[i].nr \in early'
                          /\ calls'[i].op = "stop" /\ calls'[j].op = "stop"
                               => path' \in Exempt'
        BY DEF QueueInOrder
      <4>1. i \in DOMAIN calls /\ calls'[i] = calls[i]
        BY <3>5, <3>6
      <4>2. calls'[i].op = "stop" => path' \in Exempt'
        BY <4>1, <3>1, <3>11 DEF Pending
      <4>3. calls'[i].op = "start" => calls'[i].nr \in early'
        BY <4>1, <3>3
      <4>4. calls'[i].op = "start" /\ calls'[j].op = "start" => calls'[i].nr # calls'[j].nr
        BY <4>1, <3>4, <3>5, <3>6 DEF RecInv, QueueInOrder
      <4>5. QED
        BY <4>2, <4>3, <4>4
    <3>14. FileIsRecording' /\ UploadsDiffer'
      BY <3>1, <3>8, <3>9 DEF RecInv, FileIsRecording, UploadsDiffer
    <3>15. MicrophoneOwned'
      BY <3>10 DEF MicrophoneOwned
    <3>16. StoppedIsSent'
      BY <3>1, <3>8 DEF RecInv, StoppedIsSent, NoneLost, NoneTwice, Copies, Exempt
    <3>17. QED
      BY <3>7, <3>12, <3>13, <3>14, <3>15, <3>16 DEF RecInv
  <2>3. QED
    BY <2>1, <2>2
<1>4. CASE Started
  <2>1. /\ calls # <<>> /\ Head(calls).op = "start" /\ calls' = Tail(calls)
        /\ UNCHANGED <<recMounted, isRecording, buttons, openChat, starts, uploads,
                       sent, traces>>
    BY <1>4 DEF Started
  <2>2. /\ calls' \in Seq(Calls) /\ Head(calls) = calls[1] /\ 1 \in DOMAIN calls
        /\ \A i \in DOMAIN calls' :
             i \in Nat \ {0} /\ i + 1 \in DOMAIN calls /\ calls'[i] = calls[i + 1]
    BY <1>t, <2>1, CallAnswered
  <2>3. Sending' = Sending /\ Exempt' = Exempt /\ early' = early
    BY <2>1 DEF Sending, Exempt, traces
  <2>4. Pending("stop") => Pending("stop")'
    <3> SUFFICES ASSUME NEW i \in DOMAIN calls, calls[i].op = "stop" PROVE Pending("stop")'
      BY DEF Pending
    <3>1. i # 1
      BY <2>1, <2>2
    <3>2. i - 1 \in DOMAIN calls' /\ calls'[i - 1] = calls[i]
      BY <1>t, <2>1, <2>2, <3>1, CallAnswered
    <3>3. QED
      BY <3>2 DEF Pending
  <2>5. Pending("drop") => Pending("drop")'
    <3> SUFFICES ASSUME NEW i \in DOMAIN calls, calls[i].op = "drop" PROVE Pending("drop")'
      BY DEF Pending
    <3>1. i # 1
      BY <2>1, <2>2
    <3>2. i - 1 \in DOMAIN calls' /\ calls'[i - 1] = calls[i]
      BY <1>t, <2>1, <2>2, <3>1, CallAnswered
    <3>3. QED
      BY <3>2 DEF Pending
  <2>6. Pending("stop")' => Pending("stop")
    BY <2>2 DEF Pending
  <2>7. UploadsDiffer' /\ StoppedIsSent'
    BY <2>1, <2>3 DEF RecInv, UploadsDiffer, StoppedIsSent, NoneLost, NoneTwice, Copies,
       traces, Exempt
  <2>8. CASE UNCHANGED <<recorder, path>>
    <3>1. RecTypeOK'
      BY <1>t, <2>1, <2>2, <2>8 DEF RecTypeOK, traces
    <3>2. StartsAreNew' /\ QueueInOrder'
      BY <2>1, <2>2, <2>3, <2>8 DEF RecInv, StartsAreNew, QueueInOrder
    <3>3. FileIsRecording'
      BY <2>1, <2>3, <2>6, <2>8 DEF RecInv, FileIsRecording
    <3>4. MicrophoneOwned'
      BY <2>1, <2>4, <2>5, <2>8 DEF RecInv, MicrophoneOwned, traces
    <3>5. QED
      BY <2>7, <3>1, <3>2, <3>3, <3>4 DEF RecInv
  <2>9. CASE recorder = 0 /\ recorder' = Head(calls).nr
             /\ path' = IF recMounted THEN Head(calls).nr ELSE path
    <3> DEFINE n == Head(calls).nr
    <3>1. /\ n \in 1..starts /\ n \notin Sending /\ n # path
          /\ (recMounted /\ isRecording) \/ n \in early
      BY <2>1, <2>2 DEF RecInv, StartsAreNew
    <3>2. n \in 0..MaxRecordings
      BY <1>t, <3>1 DEF RecTypeOK
    <3>3. \A i \in DOMAIN calls' : /\ calls'[i].op = "start" => calls'[i].nr # n
                                   /\ calls'[i].op = "stop" => n \in early
      BY <2>1, <2>2 DEF RecInv, QueueInOrder
    <3> HIDE DEF n
    <3>4. recorder' = n /\ path' \in {n, path} /\ (recMounted => path' = n)
      BY <2>9 DEF n
    <3>5. RecTypeOK'
      BY <1>t, <2>1, <2>2, <3>2, <3>4 DEF RecTypeOK, traces
    <3>6. StartsAreNew'
      BY <2>1, <2>2, <2>3, <3>3, <3>4 DEF RecInv, StartsAreNew
    <3>7. QueueInOrder'
      <4> SUFFICES ASSUME NEW i \in DOMAIN calls', NEW j \in DOMAIN calls', i < j
                   PROVE  /\ calls'[i].op = "start" /\ calls'[j].op = "start"
                               => calls'[i].nr # calls'[j].nr
                          /\ calls'[i].op = "start" /\ calls'[j].op = "stop"
                               => calls'[i].nr \in early'
                          /\ calls'[i].op = "stop" /\ calls'[j].op = "stop"
                               => path' \in Exempt'
        BY DEF QueueInOrder
      <4>1. /\ i + 1 \in DOMAIN calls /\ j + 1 \in DOMAIN calls /\ i + 1 < j + 1
            /\ calls'[i] = calls[i + 1] /\ calls'[j] = calls[j + 1]
        BY <2>2
      <4>2. /\ calls'[i].op = "start" /\ calls'[j].op = "start"
                 => calls'[i].nr # calls'[j].nr
            /\ calls'[i].op = "start" /\ calls'[j].op = "stop" => calls'[i].nr \in early
            /\ calls'[i].op = "stop" /\ calls'[j].op = "stop" => path \in Exempt
        BY <4>1 DEF RecInv, QueueInOrder
      <4>3. calls'[i].op = "stop" => n \in Exempt
        BY <3>3 DEF Exempt
      <4>4. QED
        BY <2>3, <3>4, <4>2, <4>3
    <3>8. FileIsRecording'
      <4>1. path' <= starts' /\ recorder' <= starts' /\ Sending' \subseteq 1..starts'
        BY <1>t, <2>1, <2>3, <3>1, <3>4 DEF RecInv, FileIsRecording, RecTypeOK
      <4>2. path' = recorder' \/ (~recMounted' /\ recorder' \in early')
        BY <2>1, <2>3, <3>1, <3>4
      <4>3. recorder' \notin Sending'
        BY <2>3, <3>1, <3>4
      <4>4. Pending("stop")' /\ path' \in Sending' => path' \in Exempt'
        BY <2>3, <2>6, <3>1, <3>4 DEF RecInv, FileIsRecording
      <4>5. QED
        BY <4>1, <4>2, <4>3, <4>4 DEF FileIsRecording
    <3>9. MicrophoneOwned'
      BY <2>1, <2>3, <3>1, <3>4 DEF MicrophoneOwned
    <3>10. QED
      BY <2>7, <3>5, <3>6, <3>7, <3>8, <3>9 DEF RecInv
  <2>10. QED
    BY <1>4, <2>8, <2>9 DEF Started
<1>5. CASE Stopped
  <2>1. /\ calls # <<>> /\ Head(calls).op = "stop" /\ calls' = Tail(calls)
        /\ UNCHANGED <<recMounted, isRecording, buttons, openChat, path, starts, sent,
                       lostSounds, early, stoppedTwice>>
    BY <1>5 DEF Stopped
  <2>2. /\ calls' \in Seq(Calls) /\ Head(calls) = calls[1] /\ 1 \in DOMAIN calls
        /\ \A i \in DOMAIN calls' :
             i \in Nat \ {0} /\ i + 1 \in DOMAIN calls /\ calls'[i] = calls[i + 1]
    BY <1>t, <2>1, CallAnswered
  <2>3. Exempt' = Exempt /\ Pending("stop")
    BY <2>1, <2>2 DEF Exempt, Pending
  <2>4. CASE refused' = refused \union ({recorder} \ {0})
             /\ UNCHANGED <<recorder, uploads, stopped>>
    <3>1. RecTypeOK'
      BY <1>t, <2>1, <2>2, <2>4 DEF RecTypeOK, Sounds
    <3>2. StartsAreNew' /\ QueueInOrder'
      BY <2>1, <2>2, <2>3, <2>4 DEF RecInv, StartsAreNew, QueueInOrder, Sending
    <3>3. FileIsRecording' /\ UploadsDiffer'
      BY <2>1, <2>3, <2>4 DEF RecInv, FileIsRecording, UploadsDiffer, Sending
    <3>4. MicrophoneOwned'
      BY <2>1, <2>4 DEF MicrophoneOwned
    <3>5. StoppedIsSent'
      BY <2>1, <2>4 DEF RecInv, StoppedIsSent, NoneLost, NoneTwice, Copies
    <3>6. QED
      BY <3>1, <3>2, <3>3, <3>4, <3>5 DEF RecInv
  <2>5. CASE /\ recorder' = 0
             /\ uploads' = IF path = 0 THEN uploads
                           ELSE uploads \union {[nr |-> path, chat |-> Head(calls).chat]}
             /\ stopped' = stopped \union ({recorder} \ {0})
             /\ UNCHANGED refused
    <3> DEFINE new == [nr |-> path, chat |-> Head(calls).chat]
    <3>1. Head(calls).chat \in RecChats
      BY <1>t, <2>1, <2>2 DEF Calls
    <3>2. new.nr = path /\ (path # 0 => new \in [nr : Sounds, chat : RecChats])
      BY <1>t, <3>1 DEF RecTypeOK, Sounds
    <3> HIDE DEF new
    <3>3. uploads \subseteq uploads' /\ \A u \in uploads' : u \in uploads \/ (u = new /\ path # 0)
      BY <2>5 DEF new
    <3>4. /\ path # 0 => new \in uploads'
          /\ path # 0 => path \in {u.nr : u \in uploads'}
      BY <2>5, <3>2 DEF new
    <3>5. RecTypeOK'
      BY <1>t, <2>1, <2>2, <2>5, <3>2, <3>3 DEF RecTypeOK, Sounds
    <3>6. \A n \in Sending' : n \in Sending \/ (n = path /\ path # 0)
      BY <2>1, <3>2, <3>3 DEF Sending
    <3>7. path \in Sending => path \in Exempt
      BY <2>3 DEF RecInv, FileIsRecording
    <3>8. Pending("stop")' => path \in Exempt
      BY <2>1, <2>2 DEF RecInv, QueueInOrder, Pending
    <3>9. StartsAreNew'
      <4> SUFFICES ASSUME NEW i \in DOMAIN calls', calls'[i].op = "start"
                   PROVE  /\ calls'[i].nr \in 1..starts'
                          /\ calls'[i].nr \notin Sending' /\ calls'[i].nr # path'
                          /\ calls'[i].nr # recorder'
                          /\ (recMounted' /\ isRecording') \/ calls'[i].nr \in early'
        BY DEF StartsAreNew
      <4>1. i + 1 \in DOMAIN calls /\ calls'[i] = calls[i + 1]
        BY <2>2
      <4>2. /\ calls'[i].nr \in 1..starts /\ calls'[i].nr \notin Sending
            /\ calls'[i].nr # path /\ ((recMounted /\ isRecording) \/ calls'[i].nr \in early)
        BY <4>1 DEF RecInv, StartsAreNew
      <4>3. calls'[i].nr # 0
        BY <1>t, <4>2 DEF RecTypeOK
      <4>4. QED
        BY <2>1, <2>5, <3>6, <4>2, <4>3
    <3>10. QueueInOrder'
      BY <2>1, <2>2, <2>3 DEF RecInv, QueueInOrder
    <3>11. FileIsRecording'
      <4>1. path' <= starts' /\ recorder' <= starts'
        BY <1>t, <2>1, <2>5 DEF RecInv, FileIsRecording, RecTypeOK
      <4>2. Sending' \subseteq 1..starts'
        <5>1. path # 0 => path \in 1..starts
          BY <1>t DEF RecInv, FileIsRecording, RecTypeOK
        <5>2. QED
          BY <2>1, <3>6, <5>1 DEF RecInv, FileIsRecording
      <4>3. recorder' \notin Sending'
        BY <1>t, <2>1, <2>5, <4>2 DEF RecTypeOK
      <4>4. QED
        BY <2>1, <2>3, <2>5, <3>8, <4>1, <4>2, <4>3 DEF FileIsRecording
    <3>12. UploadsDiffer'
      <4> SUFFICES ASSUME NEW u \in uploads', NEW v \in uploads', u.nr = v.nr, u # v
                   PROVE  u.nr \in Exempt'
        BY DEF UploadsDiffer
      <4>1. CASE u \in uploads /\ v \in uploads
        BY <2>3, <4>1 DEF RecInv, UploadsDiffer
      <4>2. CASE u \in uploads /\ v = new
        BY <2>3, <3>2, <3>7, <4>2 DEF Sending
      <4>3. CASE v \in uploads /\ u = new
        BY <2>3, <3>2, <3>7, <4>3 DEF Sending
      <4>4. QED
        BY <3>3, <4>1, <4>2, <4>3
    <3>13. MicrophoneOwned'
      BY <2>5 DEF MicrophoneOwned
    <3>14. NoneLost'
      <4>1. recorder # 0 => recorder \in early \/ path = recorder
        BY DEF RecInv, FileIsRecording
      <4>2. stopped' \ early' \subseteq (stopped \ early) \union ({path} \ {0})
        BY <2>1, <2>5, <4>1
      <4>3. {u.nr : u \in uploads} \subseteq {u.nr : u \in uploads'}
        BY <3>3
      <4>4. QED
        BY <2>1, <3>4, <4>2, <4>3 DEF RecInv, StoppedIsSent, NoneLost
    <3>15. NoneTwice'
      <4>1. \A i, j \in DOMAIN sent' :
              sent'[i] = sent'[j] => i = j \/ sent'[i] \in stoppedTwice' \union early'
        BY <2>1 DEF RecInv, StoppedIsSent, NoneTwice
      <4>2. ASSUME NEW u \in uploads' PROVE Copies(u.nr)' = {} \/ u.nr \in stoppedTwice' \union early'
        <5>1. CASE u \in uploads
          BY <2>1, <5>1 DEF RecInv, StoppedIsSent, NoneTwice, Copies
        <5>2. CASE u = new
          BY <2>1, <3>2, <3>7, <5>2 DEF Copies, Sending, Exempt
        <5>3. QED
          BY <3>3, <5>1, <5>2
      <4>3. QED
        BY <4>1, <4>2 DEF NoneTwice, Copies
    <3>16. QED
      BY <3>5, <3>9, <3>10, <3>11, <3>12, <3>13, <3>14, <3>15 DEF RecInv, StoppedIsSent
  <2>6. QED
    BY <1>5, <2>4, <2>5 DEF Stopped
<1>6. CASE Dropped
  <2>1. /\ calls # <<>> /\ Head(calls).op = "drop" /\ calls' = Tail(calls)
        /\ recorder' \in {0, recorder}
        /\ recorder' = 0 \/ recorder' \in refused'
        /\ refused' \subseteq refused \union ({recorder} \ {0})
        /\ UNCHANGED <<recMounted, isRecording, buttons, openChat, path, starts,
                       uploads, sent, stopped, lostSounds, early, stoppedTwice>>
    BY <1>6 DEF Dropped
  <2>2. /\ calls' \in Seq(Calls) /\ Head(calls) = calls[1] /\ 1 \in DOMAIN calls
        /\ \A i \in DOMAIN calls' :
             i \in Nat \ {0} /\ i + 1 \in DOMAIN calls /\ calls'[i] = calls[i + 1]
    BY <1>t, <2>1, CallAnswered
  <2>3. Sending' = Sending /\ Exempt' = Exempt /\ (Pending("stop")' => Pending("stop"))
    BY <2>1, <2>2 DEF Sending, Exempt, Pending
  <2>4. RecTypeOK'
    BY <1>t, <2>1, <2>2 DEF RecTypeOK, Sounds
  <2>5. 0 \notin Sending /\ 0 \notin 1..starts /\ starts \in Nat
    BY <1>t DEF RecInv, FileIsRecording, RecTypeOK
  <2>6. StartsAreNew' /\ QueueInOrder'
    BY <2>1, <2>2, <2>3, <2>5 DEF RecInv, StartsAreNew, QueueInOrder
  <2>7. FileIsRecording' /\ UploadsDiffer'
    BY <2>1, <2>3, <2>5 DEF RecInv, FileIsRecording, UploadsDiffer
  <2>8. MicrophoneOwned' /\ StoppedIsSent'
    BY <2>1 DEF RecInv, MicrophoneOwned, StoppedIsSent, NoneLost, NoneTwice, Copies
  <2>9. QED
    BY <2>4, <2>6, <2>7, <2>8 DEF RecInv
<1>7. ASSUME NEW u \in uploads, Uploaded(u) PROVE RecInv'
  <2>1. /\ uploads' = uploads \ {u} /\ sent' = Append(sent, u.nr)
        /\ UNCHANGED <<recMounted, isRecording, buttons, openChat, recorder, path,
                       starts, calls, traces>>
    BY <1>7 DEF Uploaded
  <2>2. u.nr \in Sounds /\ sent \in Seq(Sounds)
    BY <1>t DEF RecTypeOK
  <2>3. /\ sent' \in Seq(Sounds) /\ DOMAIN sent' = 1..(Len(sent) + 1)
        /\ DOMAIN sent = 1..Len(sent) /\ Len(sent) \in Nat
        /\ \A i \in DOMAIN sent : sent'[i] = sent[i]
        /\ sent'[Len(sent) + 1] = u.nr
    BY <2>1, <2>2, CallMade
  <2>4. RecTypeOK'
    BY <1>t, <2>1, <2>3 DEF RecTypeOK, traces
  <2>5. \A i \in DOMAIN sent' : i \in DOMAIN sent \/ (i = Len(sent) + 1 /\ sent'[i] = u.nr)
    BY <2>3
  <2>6. Sending' \subseteq Sending
    BY <2>1, <2>3, <2>5 DEF Sending
  <2>7. StartsAreNew' /\ QueueInOrder' /\ FileIsRecording' /\ UploadsDiffer'
    <3>1. StartsAreNew'
      BY <2>1, <2>6 DEF RecInv, StartsAreNew, traces
    <3>2. QueueInOrder'
      BY <2>1, <2>6 DEF RecInv, QueueInOrder, Exempt, traces
    <3>3. FileIsRecording'
      BY <2>1, <2>6 DEF RecInv, FileIsRecording, Exempt, Pending, traces
    <3>4. UploadsDiffer'
      BY <2>1, <2>6 DEF RecInv, UploadsDiffer, Exempt, traces
    <3>5. QED
      BY <3>1, <3>2, <3>3, <3>4
  <2>8. MicrophoneOwned'
    BY <2>1 DEF RecInv, MicrophoneOwned, Pending, traces
  <2>9. NoneLost'
    <3> SUFFICES ASSUME NEW n \in stopped \ early
                 PROVE  n \in {v.nr : v \in uploads'} \union lostSounds
                                \union {sent'[i] : i \in DOMAIN sent'}
      BY <2>1 DEF NoneLost, traces
    <3>1. n \in {v.nr : v \in uploads} \union lostSounds \union {sent[i] : i \in DOMAIN sent}
      BY DEF RecInv, StoppedIsSent, NoneLost
    <3>2. QED
      BY <2>1, <2>3, <3>1
  <2>10. NoneTwice'
    <3>0. UNCHANGED <<stoppedTwice, early>>
      BY <2>1 DEF traces
    <3>1. \A i \in DOMAIN sent : sent[i] = u.nr => u.nr \in Exempt
      BY DEF RecInv, StoppedIsSent, NoneTwice, Copies, Exempt
    <3>2. ASSUME NEW i \in DOMAIN sent', NEW j \in DOMAIN sent', sent'[i] = sent'[j], i # j
          PROVE  sent'[i] \in Exempt
      <4>1. CASE i \in DOMAIN sent /\ j \in DOMAIN sent
        BY <2>3, <3>2, <4>1 DEF RecInv, StoppedIsSent, NoneTwice, Exempt
      <4>2. CASE i \in DOMAIN sent /\ sent'[j] = u.nr
        BY <2>3, <3>1, <3>2, <4>2
      <4>3. CASE j \in DOMAIN sent /\ sent'[i] = u.nr
        BY <2>3, <3>1, <3>2, <4>3
      <4>4. QED
        BY <2>5, <3>2, <4>1, <4>2, <4>3
    <3>3. ASSUME NEW v \in uploads', v.nr \notin Exempt PROVE Copies(v.nr)' = {}
      <4>1. v.nr # u.nr
        BY <2>1, <3>3 DEF RecInv, UploadsDiffer
      <4>2. Copies(v.nr) = {}
        BY <2>1, <3>3 DEF RecInv, StoppedIsSent, NoneTwice, Exempt
      <4>3. QED
        BY <2>3, <2>5, <4>1, <4>2 DEF Copies
    <3>4. QED
      BY <3>0, <3>2, <3>3 DEF NoneTwice, Exempt, Copies
  <2>11. QED
    BY <2>4, <2>7, <2>8, <2>9, <2>10 DEF RecInv, StoppedIsSent
<1>8. ASSUME NEW u \in uploads, UploadFails(u) PROVE RecInv'
  <2>1. /\ uploads' = uploads \ {u} /\ lostSounds' = lostSounds \union {u.nr}
        /\ UNCHANGED <<recMounted, isRecording, buttons, openChat, recorder, path,
                       starts, calls, sent, stopped, early, refused, stoppedTwice>>
    BY <1>8 DEF UploadFails
  <2>2. RecTypeOK'
    BY <1>t, <2>1 DEF RecTypeOK
  <2>3. Sending' \subseteq Sending
    BY <2>1 DEF Sending
  <2>4. StartsAreNew' /\ QueueInOrder' /\ FileIsRecording' /\ UploadsDiffer'
    <3>1. StartsAreNew'
      BY <2>1, <2>3 DEF RecInv, StartsAreNew
    <3>2. QueueInOrder'
      BY <2>1, <2>3 DEF RecInv, QueueInOrder, Exempt
    <3>3. FileIsRecording'
      BY <2>1, <2>3 DEF RecInv, FileIsRecording, Exempt, Pending
    <3>4. UploadsDiffer'
      BY <2>1, <2>3 DEF RecInv, UploadsDiffer, Exempt
    <3>5. QED
      BY <3>1, <3>2, <3>3, <3>4
  <2>5. MicrophoneOwned' /\ StoppedIsSent'
    BY <2>1 DEF RecInv, MicrophoneOwned, Pending, StoppedIsSent, NoneLost, NoneTwice, Copies
  <2>6. QED
    BY <2>2, <2>4, <2>5 DEF RecInv
<1>9. ASSUME NEW c \in RecChats, OpenChat(c) PROVE RecInv'
  BY <1>9, <1>t DEF OpenChat, RecInv, RecTypeOK, StartsAreNew, QueueInOrder, FileIsRecording,
     UploadsDiffer, MicrophoneOwned, StoppedIsSent, NoneLost, NoneTwice, Sending,
     Pending, Exempt, Copies, traces
<1>10. CASE RecDispose
  <2>1. CASE recorder = 0
    <3>1. UNCHANGED <<isRecording, buttons, openChat, recorder, path, starts, uploads,
                      sent, stopped, lostSounds, refused, calls, stoppedTwice>>
          /\ early' = early \union Starting /\ recMounted' = FALSE
      BY <1>10, <2>1 DEF RecDispose
    <3>2. Starting \subseteq Sounds
      BY <1>t DEF Starting, Calls
    <3>3. \A i \in DOMAIN calls : calls[i].op = "start" => calls[i].nr \in Starting
      BY DEF Starting
    <3>4. RecTypeOK'
      BY <1>t, <3>1, <3>2 DEF RecTypeOK
    <3>5. StartsAreNew' /\ QueueInOrder'
      BY <3>1, <3>3 DEF RecInv, StartsAreNew, QueueInOrder, Sending, Exempt
    <3>6. FileIsRecording' /\ UploadsDiffer'
      BY <2>1, <3>1 DEF RecInv, FileIsRecording, UploadsDiffer, Sending, Exempt, Pending
    <3>7. MicrophoneOwned' /\ StoppedIsSent'
      BY <2>1, <3>1 DEF RecInv, MicrophoneOwned, StoppedIsSent, NoneLost, NoneTwice, Copies
    <3>8. QED
      BY <3>4, <3>5, <3>6, <3>7 DEF RecInv
  <2>2. CASE recorder # 0
    <3> DEFINE e == [op |-> "drop"]
    <3>1. /\ UNCHANGED <<isRecording, buttons, openChat, recorder, path, starts, uploads,
                         sent, stopped, lostSounds, refused, stoppedTwice>>
          /\ early' = early \union Starting /\ recMounted /\ recMounted' = FALSE
          /\ calls' = Append(calls, e)
      BY <1>10, <2>2 DEF RecDispose
    <3>2. Starting \subseteq Sounds
      BY <1>t DEF Starting, Calls
    <3>3. \A i \in DOMAIN calls : calls[i].op = "start" => calls[i].nr \in early'
      BY <3>1 DEF Starting
    <3>4. e \in Calls /\ e.op = "drop"
      BY DEF Calls
    <3>5. /\ calls' \in Seq(Calls) /\ DOMAIN calls' = 1..(Len(calls) + 1)
          /\ DOMAIN calls = 1..Len(calls) /\ Len(calls) \in Nat
          /\ \A i \in DOMAIN calls : calls'[i] = calls[i]
          /\ calls'[Len(calls) + 1] = e
      BY <3>1, <3>4, <1>t, CallMade
    <3>6. \A i \in DOMAIN calls' : i \in DOMAIN calls \/ (i = Len(calls) + 1 /\ calls'[i] = e)
      BY <3>5
    <3> HIDE DEF e
    <3>7. RecTypeOK'
      BY <1>t, <3>1, <3>2, <3>5 DEF RecTypeOK
    <3>8. Sending' = Sending /\ Exempt \subseteq Exempt' /\ early \subseteq early'
      BY <3>1 DEF Sending, Exempt
    <3>9. path = recorder /\ path \notin Sending
      BY <2>2, <3>1 DEF RecInv, FileIsRecording
    <3>10. Pending("drop")'
      BY <3>4, <3>5 DEF Pending
    <3>11. StartsAreNew' /\ QueueInOrder'
      BY <3>1, <3>3, <3>4, <3>5, <3>6, <3>8 DEF RecInv, StartsAreNew, QueueInOrder
    <3>12. FileIsRecording' /\ UploadsDiffer'
      BY <3>1, <3>8, <3>9 DEF RecInv, FileIsRecording, UploadsDiffer
    <3>13. MicrophoneOwned'
      BY <3>10 DEF MicrophoneOwned
    <3>14. StoppedIsSent'
      BY <3>1, <3>8 DEF RecInv, StoppedIsSent, NoneLost, NoneTwice, Copies, Exempt
    <3>15. QED
      BY <3>7, <3>11, <3>12, <3>13, <3>14 DEF RecInv
  <2>3. QED
    BY <2>1, <2>2
<1>11. CASE UNCHANGED recVars
  BY <1>11 DEF recVars, RecInv, RecTypeOK, StartsAreNew, QueueInOrder, FileIsRecording,
     UploadsDiffer, MicrophoneOwned, StoppedIsSent, NoneLost, NoneTwice, Sending,
     Pending, Exempt, Copies
<1>12. QED
  BY <1>1, <1>2, <1>3, <1>4, <1>5, <1>6, <1>7, <1>8, <1>9, <1>10, <1>11 DEF RecNext

LEMMA RecCorrect == RecSpec => []RecInv
BY RecInitially, RecStep, PTL DEF RecSpec

(***************************************************************************)
(* The microphone of ChatWidget is never on unseen, for any number of      *)
(* conversations, recordings and calls the plugin has not answered.        *)
(***************************************************************************)
THEOREM MicrophoneIsOwned == RecSpec => []MicrophoneOwned
<1>1. RecInv => MicrophoneOwned
  BY DEF RecInv
<1>2. QED
  BY <1>1, RecCorrect, PTL

(***************************************************************************)
(* What stopRecorder ended is sent, and sent once, the two exceptions of   *)
(* StoppedIsSent aside.                                                    *)
(***************************************************************************)
THEOREM RecordingIsSent == RecSpec => []StoppedIsSent
<1>1. RecInv => StoppedIsSent
  BY DEF RecInv
<1>2. QED
  BY <1>1, RecCorrect, PTL

-----------------------------------------------------------------------------
(***************************************************************************)
(* CategoryScreen.  The youngest request is for the page scrolled to; it   *)
(* is under way, has failed, or is the youngest answered, and then the     *)
(* list is its page unless an older answer came after it.                  *)
(***************************************************************************)
RequestsInOrder ==
  /\ catPage <= asked /\ newest <= asked
  /\ \A r, s \in catLoads : r.nr = s.nr => r = s
  /\ \A r \in catLoads : /\ r.nr <= asked /\ r.nr # newest
                         /\ r.nr = asked => r.page = catPage

YoungestKnown ==
  catMounted =>
    /\ newest = asked \/ \E r \in catLoads \union catFailed : r.nr = asked
    /\ newest = asked /\ ~catCrossed => cats = catPage

CatInv == CatTypeOK /\ RequestsInOrder /\ YoungestKnown

LEMMA CatInitially == CatInit => CatInv
<1> SUFFICES ASSUME CatInit PROVE CatInv
  OBVIOUS
<1>1. 1 \in 1..MaxAsked /\ 0 \in 0..MaxAsked
  BY CategoryScreenAssumption
<1>2. [nr |-> 1, page |-> 1, by |-> "initState"] \in Requests
  BY <1>1 DEF Requests, Makers
<1>3. CatTypeOK
  BY <1>1, <1>2, Zenon DEF CatInit, CatTypeOK
<1>4. RequestsInOrder /\ YoungestKnown
  BY DEF CatInit, RequestsInOrder, YoungestKnown
<1>5. QED
  BY <1>3, <1>4 DEF CatInv

\* A new request for the page scrolled to.
LEMMA CatAsks ==
  ASSUME CatInv, NEW p, NEW m \in Makers, asked < MaxAsked,
         p \in {catPage, catPage + 1}, catPage' = p,
         asked' = asked + 1, catLoads' = catLoads \union {Ask(p, m)},
         UNCHANGED <<catMounted, cats, newest, catFailed, catCrossed>>,
         catView' \in 0..MaxAsked, buildDue' \in BOOLEAN
  PROVE  CatInv'
<1> DEFINE r == Ask(p, m)
<1>1. /\ asked \in 1..MaxAsked /\ asked + 1 \in 1..MaxAsked /\ newest <= asked
      /\ p \in 1..MaxAsked /\ p <= asked + 1
  BY CategoryScreenAssumption DEF CatInv, CatTypeOK, RequestsInOrder
<1>2. r.nr = asked + 1 /\ r.page = p /\ r \in Requests
  BY <1>1 DEF Ask, Requests
<1>3. \A s \in catLoads : s.nr <= asked /\ s \in Requests
  BY DEF CatInv, CatTypeOK, RequestsInOrder
<1> HIDE DEF r
<1>4. catLoads' = catLoads \union {r}
  BY DEF r
<1>5. CatTypeOK'
  BY <1>1, <1>2, <1>4 DEF CatInv, CatTypeOK
<1>6. RequestsInOrder'
  BY <1>1, <1>2, <1>3, <1>4 DEF CatInv, CatTypeOK, RequestsInOrder, Requests
<1>7. YoungestKnown'
  BY <1>1, <1>2, <1>4 DEF CatInv, CatTypeOK, YoungestKnown
<1>8. QED
  BY <1>5, <1>6, <1>7 DEF CatInv

LEMMA CatStep == CatInv /\ [CatNext]_catVars => CatInv'
<1> SUFFICES ASSUME CatInv, [CatNext]_catVars PROVE CatInv'
  OBVIOUS
<1> USE CategoryScreenAssumption
<1>1. CASE Build
  <2>1. CASE cats # 0 /\ UNCHANGED <<asked, catLoads>>
    BY <1>1, <2>1 DEF Build, CatInv, CatTypeOK, RequestsInOrder, YoungestKnown
  <2>2. CASE asked < MaxAsked /\ asked' = asked + 1
             /\ catLoads' = catLoads \union {Ask(catPage, "build")}
    <3>1. UNCHANGED <<catMounted, catPage, cats, newest, catFailed, catCrossed>>
          /\ catView' \in 0..MaxAsked /\ buildDue' \in BOOLEAN
      BY <1>1 DEF Build, CatInv, CatTypeOK
    <3>2. QED
      BY <2>2, <3>1, CatAsks DEF Makers
  <2>3. QED
    BY <1>1, <2>1, <2>2 DEF Build
<1>2. CASE LanguageChanges
  BY <1>2 DEF LanguageChanges, CatInv, CatTypeOK, RequestsInOrder, YoungestKnown
<1>3. CASE CatEndReached
  <2>1. /\ asked < MaxAsked /\ catPage' = catPage + 1 /\ asked' = asked + 1
        /\ catLoads' = catLoads \union {Ask(catPage + 1, "scroll")}
        /\ UNCHANGED <<catMounted, cats, newest, catFailed, catCrossed>>
        /\ catView' \in 0..MaxAsked /\ buildDue' \in BOOLEAN
    BY <1>3 DEF CatEndReached, CatInv, CatTypeOK
  <2>2. QED
    BY <2>1, CatAsks DEF Makers
<1>4. CASE CatDispose
  BY <1>4 DEF CatDispose, CatInv, CatTypeOK, RequestsInOrder, YoungestKnown
<1>5. ASSUME NEW r \in catLoads, CatAnswer(r) PROVE CatInv'
  <2>1. /\ catLoads' = catLoads \ {r} /\ r \in Requests
        /\ UNCHANGED <<catMounted, catPage, catView, asked, catFailed>>
    BY <1>5 DEF CatAnswer, CatInv, CatTypeOK
  <2>2. r.nr \in 1..MaxAsked /\ r.page \in 0..MaxAsked /\ r.page \in 1..MaxAsked
    BY <2>1 DEF Requests
  <2>3. CASE catMounted
    <3>0. (r.nr < newest) \in BOOLEAN /\ (buildDue \/ r.by = "build") \in BOOLEAN
      OBVIOUS
    <3>1. /\ cats' = r.page /\ newest' = IF r.nr > newest THEN r.nr ELSE newest
          /\ catCrossed' \in BOOLEAN /\ buildDue' \in BOOLEAN
          /\ (catCrossed' <=> r.nr < newest)
      <4>1. /\ catCrossed' = (r.nr < newest) /\ buildDue' = (buildDue \/ r.by = "build")
            /\ cats' = r.page /\ newest' = IF r.nr > newest THEN r.nr ELSE newest
        BY <1>5, <2>3, Zenon DEF CatAnswer
      <4>2. QED
        BY <3>0, <4>1
    <3>2. newest' \in 0..MaxAsked
      BY <2>2, <3>1 DEF CatInv, CatTypeOK
    <3>3. CatTypeOK'
      BY <2>1, <2>2, <3>1, <3>2 DEF CatInv, CatTypeOK
    <3>4. \A s \in catLoads' : s.nr # r.nr
      BY <2>1 DEF CatInv, RequestsInOrder
    <3>5. RequestsInOrder'
      BY <2>1, <2>2, <3>1, <3>4 DEF CatInv, CatTypeOK, RequestsInOrder
    <3>6. YoungestKnown'
      BY <2>1, <2>2, <2>3, <3>1 DEF CatInv, CatTypeOK, RequestsInOrder, YoungestKnown
    <3>7. QED
      BY <3>3, <3>5, <3>6 DEF CatInv
  <2>4. CASE ~catMounted
    <3>1. UNCHANGED <<cats, buildDue, newest, catCrossed>>
      BY <1>5, <2>4 DEF CatAnswer
    <3>2. QED
      BY <2>1, <2>4, <3>1 DEF CatInv, CatTypeOK, RequestsInOrder, YoungestKnown
  <2>5. QED
    BY <2>3, <2>4
<1>6. ASSUME NEW r \in catLoads, CatFail(r) PROVE CatInv'
  BY <1>6 DEF CatFail, CatInv, CatTypeOK, RequestsInOrder, YoungestKnown
<1>7. CASE UNCHANGED catVars
  BY <1>7 DEF catVars, CatInv, CatTypeOK, RequestsInOrder, YoungestKnown
<1>8. QED
  BY <1>1, <1>2, <1>3, <1>4, <1>5, <1>6, <1>7 DEF CatNext

(***************************************************************************)
(* With no request under way CategoryScreen holds the page it scrolled to, *)
(* the exceptions of HoldsItsPage aside, for any number of pages.          *)
(***************************************************************************)
THEOREM CategoryPageHeld == CatSpec => []HoldsItsPage
<1>1. CatInv => HoldsItsPage
  BY DEF CatInv, YoungestKnown, HoldsItsPage
<1>2. QED
  BY <1>1, CatInitially, CatStep, PTL DEF CatSpec

-----------------------------------------------------------------------------
(***************************************************************************)
(* EditProfile.  The backend's version is shown, missed, overwritten by an *)
(* older answer, or still on its way in the answer of a post.              *)
(***************************************************************************)
VersionKnown ==
  \/ profile = version \/ version \in missed \/ wentBack
  \/ \E p \in posts : p.ver = version

ProfInv ==
  /\ ProfTypeOK /\ form <= forms
  /\ profile <= version /\ \A p \in posts : p.ver <= version
  /\ VersionKnown

LEMMA ProfInitially == ProfInit => ProfInv
<1> SUFFICES ASSUME ProfInit PROVE ProfInv
  OBVIOUS
<1>1. 0 \in 0..MaxForms /\ 0 \in 0..MaxSaves /\ 0 \in Nat
  BY EditProfileAssumption
<1>2. ProfTypeOK
  BY <1>1, Zenon DEF ProfInit, ProfTypeOK
<1>3. QED
  BY <1>2 DEF ProfInit, ProfInv, VersionKnown

LEMMA ProfStep == ProfInv /\ [ProfNext]_profVars => ProfInv'
<1> SUFFICES ASSUME ProfInv, [ProfNext]_profVars PROVE ProfInv'
  OBVIOUS
<1> USE EditProfileAssumption DEF ProfInv, ProfTypeOK, VersionKnown
<1>t. \A p \in posts : p \in Posts /\ p.ver \in Nat
  BY DEF Posts
<1>1. CASE OpenForm
  <2>1. forms + 1 \in 0..MaxForms /\ forms + 1 <= forms + 1
    BY <1>1 DEF OpenForm
  <2>2. ProfTypeOK' /\ form' <= forms' /\ UNCHANGED <<posts, version, profile, missed, wentBack>>
    BY <1>1, <2>1, Zenon DEF OpenForm
  <2>3. QED
    BY <2>2
<1>2. CASE GetLoginMethod
  BY <1>2 DEF GetLoginMethod
<1>3. CASE ProfFrame
  BY <1>3 DEF ProfFrame
<1>4. CASE SaveEdit
  <2> DEFINE q == [nr |-> posted + 1, form |-> form, token |-> hasToken, ver |-> 0]
  <2>1. q \in Posts /\ q.ver = 0
    BY <1>4 DEF SaveEdit, Posts
  <2>2. posts' = posts \union {q} /\ posted + 1 \in 0..MaxSaves
    BY <1>4 DEF SaveEdit
  <2> HIDE DEF q
  <2>3. QED
    BY <1>4, <2>1, <2>2 DEF SaveEdit
<1>5. CASE CloseForm
  BY <1>5 DEF CloseForm
<1>6. ASSUME NEW p \in posts, Accept(p) PROVE ProfInv'
  <2> DEFINE q == [p EXCEPT !.ver = version + 1]
  <2>1. q \in Posts /\ q.ver = version + 1
    BY <1>t DEF Posts
  <2>2. posts' = (posts \ {p}) \union {q} /\ version' = version + 1
    BY <1>6 DEF Accept
  <2> HIDE DEF q
  <2>3. QED
    BY <1>6, <1>t, <2>1, <2>2 DEF Accept
<1>7. ASSUME NEW p \in posts, SaveSucceeds(p) PROVE ProfInv'
  <2>1. CASE form = p.form
    <3>1. wentBack' \in BOOLEAN
          /\ (wentBack' <=> p.ver # version /\ (wentBack \/ p.ver < profile))
      BY <1>7, <2>1, Zenon DEF SaveSucceeds
    <3>2. /\ posts' = posts \ {p} /\ profile' = p.ver /\ isLoading' = FALSE
          /\ UNCHANGED <<form, forms, hasToken, covered, posted, version, unreadable,
                         missed>>
      BY <1>7, <2>1 DEF SaveSucceeds
    <3>3. ProfTypeOK' /\ form' <= forms' /\ profile' <= version'
      BY <1>t, <3>1, <3>2
    <3>4. VersionKnown'
      <4>1. CASE p.ver = version
        BY <3>2, <4>1
      <4>2. CASE p.ver # version /\ \E q \in posts : q.ver = version
        BY <3>2, <4>2
      <4>3. CASE p.ver # version /\ profile = version
        BY <1>t, <3>1, <3>2, <4>3
      <4>4. CASE p.ver # version /\ (version \in missed \/ wentBack)
        BY <3>1, <3>2, <4>4
      <4>5. QED
        BY <4>1, <4>2, <4>3, <4>4
    <3>5. QED
      BY <3>2, <3>3, <3>4
  <2>2. CASE form # p.form
    <3>1. /\ posts' = posts \ {p} /\ missed' = missed \union {p.ver} /\ p.ver # 0
          /\ UNCHANGED <<form, forms, hasToken, isLoading, covered, posted, version,
                         profile, wentBack, unreadable>>
      BY <1>7, <2>2 DEF SaveSucceeds
    <3>2. QED
      BY <1>t, <3>1
  <2>3. QED
    BY <2>1, <2>2
<1>8. ASSUME NEW p \in posts, SaveFails(p) PROVE ProfInv'
  <2>1. isLoading' \in BOOLEAN
    BY <1>8, Zenon DEF SaveFails
  <2>2. /\ posts' = posts \ {p} /\ missed' = missed \union ({p.ver} \ {0})
        /\ UNCHANGED <<form, forms, hasToken, covered, posted, version, profile,
                       wentBack, unreadable>>
    BY <1>8 DEF SaveFails
  <2>3. ProfTypeOK'
    BY <1>t, <2>1, <2>2
  <2>4. VersionKnown'
    <3>1. CASE p.ver = version /\ version # 0
      BY <2>2, <3>1
    <3>2. CASE version = 0
      BY <2>2, <3>2
    <3>3. CASE p.ver # version
      BY <2>2, <3>3
    <3>4. QED
      BY <3>1, <3>2, <3>3
  <2>5. QED
    BY <2>2, <2>3, <2>4
<1>9. ASSUME NEW p \in posts, SaveUnreadable(p) PROVE ProfInv'
  <2>1. unreadable' \in BOOLEAN
    BY <1>9, Zenon DEF SaveUnreadable
  <2>2. /\ posts' = posts \ {p} /\ missed' = missed \union ({p.ver} \ {0})
        /\ UNCHANGED <<form, forms, hasToken, covered, posted, version, profile,
                       wentBack, isLoading>>
    BY <1>9 DEF SaveUnreadable
  <2>3. ProfTypeOK'
    BY <1>t, <2>1, <2>2
  <2>4. VersionKnown'
    <3>1. CASE p.ver = version /\ version # 0
      BY <2>2, <3>1
    <3>2. CASE version = 0
      BY <2>2, <3>2
    <3>3. CASE p.ver # version
      BY <2>2, <3>3
    <3>4. QED
      BY <3>1, <3>2, <3>3
  <2>5. QED
    BY <2>2, <2>3, <2>4
<1>10. CASE UNCHANGED profVars
  BY <1>10 DEF profVars
<1>11. QED
  BY <1>1, <1>2, <1>3, <1>4, <1>5, <1>6, <1>7, <1>8, <1>9, <1>10 DEF ProfNext, PostEnds

(***************************************************************************)
(* With no post under way the app shows the profile the backend has, the   *)
(* exceptions of ProfileShown aside, for any number of forms and saves.    *)
(***************************************************************************)
THEOREM ProfileIsShown == ProfSpec => []ProfileShown
<1>1. ProfInv => ProfileShown
  BY DEF ProfInv, VersionKnown, ProfileShown
<1>2. QED
  BY <1>1, ProfInitially, ProfStep, PTL DEF ProfSpec

-----------------------------------------------------------------------------
(***************************************************************************)
(* Preferences.  Until texts have been loaded the locale stands still, so  *)
(* every constructor's load is for it.  The last flag is the locale, or    *)
(* its load is under way and the youngest of its kind.                     *)
(***************************************************************************)
FlagLoads == {t \in textLoads : t.flag}

TextsAreLocale ==
  /\ texts = "none" => \A t \in textLoads : t.flag \/ t.language = locale
  /\ texts # "none" => texts = locale \/ firstLate

LastFlagKnown ==
  /\ \A t \in textLoads : t.nr <= loadsAsked
  /\ \A t, u \in FlagLoads : t.nr = u.nr => t = u
  /\ \/ loadCrossed
     \/ FlagLoads = {} /\ locale = wanted
     \/ FlagLoads = {} /\ forgotten /\ (wanted # "km" \/ unsaved)
     \/ \E t \in FlagLoads : t.language = wanted /\ \A u \in FlagLoads : u.nr <= t.nr

SavedIsKhmer ==
  /\ saved \in {"none", "km"}
  /\ saved = "none" /\ wanted = "km" => saving \/ unsaved

PrefInv == PrefTypeOK /\ TextsAreLocale /\ LastFlagKnown /\ SavedIsKhmer

LEMMA PrefInitially == PrefInit => PrefInv
<1> SUFFICES ASSUME PrefInit PROVE PrefInv
  OBVIOUS
<1>1. 0 \in 0..MaxLoads
  BY PreferencesAssumption
<1>2. PrefTypeOK
  BY <1>1, Zenon DEF PrefInit, PrefTypeOK, Languages
<1>3. TextsAreLocale /\ LastFlagKnown /\ SavedIsKhmer
  BY DEF PrefInit, TextsAreLocale, LastFlagKnown, FlagLoads, SavedIsKhmer
<1>4. QED
  BY <1>2, <1>3 DEF PrefInv

LEMMA PrefStep == PrefInv /\ [PrefNext]_prefVars => PrefInv'
<1> SUFFICES ASSUME PrefInv, [PrefNext]_prefVars PROVE PrefInv'
  OBVIOUS
<1> USE PreferencesAssumption
<1>t. /\ PrefTypeOK /\ loadsAsked \in Nat
      /\ \A t \in textLoads : t \in TextLoads /\ t.nr \in Nat /\ t.nr <= loadsAsked
                              /\ t.language \in Languages /\ t.flag \in BOOLEAN
  BY DEF PrefInv, PrefTypeOK, LastFlagKnown, TextLoads
<1>1. CASE WrapperBuild
  <2>1. CASE UNCHANGED <<loadsAsked, textLoads>>
    BY <1>1, <2>1 DEF WrapperBuild, PrefInv, PrefTypeOK, TextsAreLocale, LastFlagKnown,
       FlagLoads, SavedIsKhmer, memory
  <2>2. CASE texts = "none" /\ loadsAsked < MaxLoads /\ loadsAsked' = loadsAsked + 1
             /\ textLoads' = textLoads \union
                  {[nr |-> loadsAsked + 1, language |-> locale, flag |-> FALSE]}
    <3> DEFINE q == [nr |-> loadsAsked + 1, language |-> locale, flag |-> FALSE]
    <3>1. q \in TextLoads /\ q.nr = loadsAsked + 1 /\ q.language = locale /\ q.flag = FALSE
      BY <1>t, <2>2 DEF TextLoads, PrefTypeOK
    <3>2. textLoads' = textLoads \union {q}
      BY <2>2
    <3> HIDE DEF q
    <3>3. wrapperDue' = FALSE
          /\ UNCHANGED <<locale, texts, saving, saved, onMain, wanted, forgotten, unsaved,
                         loadCrossed, firstLate>>
      BY <1>1 DEF WrapperBuild, memory
    <3>4. PrefTypeOK'
      <4>1. loadsAsked' \in 0..MaxLoads
        BY <1>t, <2>2
      <4>2. QED
        BY <1>t, <3>1, <3>2, <3>3, <4>1, Zenon DEF PrefTypeOK
    <3>5. FlagLoads' = FlagLoads
      BY <3>1, <3>2 DEF FlagLoads
    <3>6. TextsAreLocale' /\ SavedIsKhmer'
      BY <2>2, <3>1, <3>2, <3>3 DEF PrefInv, TextsAreLocale, SavedIsKhmer
    <3>7. LastFlagKnown'
      <4>1. \A t \in textLoads' : t.nr <= loadsAsked'
        BY <1>t, <2>2, <3>1, <3>2
      <4>2. QED
        BY <3>3, <3>5, <4>1 DEF PrefInv, LastFlagKnown
    <3>8. QED
      BY <3>4, <3>6, <3>7 DEF PrefInv
  <2>3. QED
    BY <1>1, <2>1, <2>2 DEF WrapperBuild
<1>2. CASE Saved
  <2>1. saving' = FALSE /\ saved' = "km"
        /\ UNCHANGED <<locale, texts, loadsAsked, textLoads, wrapperDue, onMain, wanted,
                       forgotten, unsaved, loadCrossed, firstLate>>
    BY <1>2 DEF Saved, memory
  <2>2. PrefTypeOK'
    BY <1>t, <2>1, Zenon DEF PrefTypeOK, Languages
  <2>3. TextsAreLocale' /\ LastFlagKnown' /\ SavedIsKhmer'
    BY <2>1 DEF PrefInv, TextsAreLocale, LastFlagKnown, FlagLoads, SavedIsKhmer
  <2>4. QED
    BY <2>2, <2>3 DEF PrefInv
<1>3. CASE MainOpens
  <2>1. onMain' = TRUE /\ wrapperDue' \in BOOLEAN
        /\ UNCHANGED <<locale, texts, loadsAsked, textLoads, saving, saved, wanted,
                       forgotten, unsaved, loadCrossed, firstLate>>
    BY <1>3, <1>t DEF MainOpens, PrefTypeOK, memory
  <2>2. QED
    BY <2>1 DEF PrefInv, PrefTypeOK, TextsAreLocale, LastFlagKnown, FlagLoads, SavedIsKhmer
<1>4. CASE UpdateCurrency
  BY <1>4, <1>t DEF UpdateCurrency, PrefInv, PrefTypeOK, TextsAreLocale, LastFlagKnown,
     FlagLoads, SavedIsKhmer, memory
<1>5. CASE Restart
  <2>1. /\ locale' = FirstLocale /\ texts' = "none" /\ loadsAsked' = 0 /\ textLoads' = {}
        /\ wrapperDue' = TRUE /\ saving' = FALSE /\ onMain' = FALSE /\ loadCrossed' = FALSE
        /\ firstLate' = FALSE /\ forgotten' = TRUE /\ UNCHANGED <<saved, wanted>>
        /\ unsaved' \in BOOLEAN /\ (unsaved' <=> unsaved \/ (saving /\ saved = "none"))
    BY <1>5, <1>t, Zenon DEF Restart, PrefTypeOK
  <2>2. PrefTypeOK' /\ TextsAreLocale'
    <3>1. FirstLocale \in Languages
      BY DEF PrefInv, SavedIsKhmer, FirstLocale, Languages
    <3>2. 0 \in 0..MaxLoads
      OBVIOUS
    <3>3. PrefTypeOK'
      BY <1>t, <2>1, <3>1, <3>2, Zenon DEF PrefTypeOK
    <3>4. QED
      BY <2>1, <3>3 DEF TextsAreLocale
  <2>3. SavedIsKhmer'
    BY <2>1 DEF PrefInv, SavedIsKhmer
  <2>4. LastFlagKnown'
    BY <2>1 DEF PrefInv, LastFlagKnown, FlagLoads, SavedIsKhmer, FirstLocale
  <2>5. QED
    BY <2>2, <2>3, <2>4 DEF PrefInv
<1>6. ASSUME NEW l \in Languages, ChooseLanguage(l) PROVE PrefInv'
  <2> DEFINE q == [nr |-> loadsAsked + 1, language |-> l, flag |-> TRUE]
  <2>1. q \in TextLoads /\ q.nr = loadsAsked + 1 /\ q.language = l /\ q.flag = TRUE
    BY <1>6, <1>t DEF ChooseLanguage, TextLoads, PrefTypeOK
  <2>2. /\ textLoads' = textLoads \union {q} /\ saving' = TRUE
        /\ loadsAsked' = loadsAsked + 1 /\ loadsAsked + 1 \in 0..MaxLoads
        /\ wanted' = l /\ forgotten' = FALSE /\ unsaved' = FALSE
        /\ UNCHANGED <<locale, texts, wrapperDue, saved, onMain, firstLate>>
    BY <1>6, <1>t DEF ChooseLanguage, PrefTypeOK
  <2>3. loadCrossed' \in BOOLEAN
    BY <1>6, <1>t, Zenon DEF ChooseLanguage, PrefTypeOK
  <2> HIDE DEF q
  <2>4. PrefTypeOK'
    BY <1>t, <2>1, <2>2, <2>3 DEF PrefTypeOK
  <2>5. TextsAreLocale' /\ SavedIsKhmer'
    BY <2>1, <2>2 DEF PrefInv, TextsAreLocale, SavedIsKhmer
  <2>6. FlagLoads' = FlagLoads \union {q}
    BY <2>1, <2>2 DEF FlagLoads
  <2>7. \A t \in FlagLoads : t.nr \in Nat /\ t.nr <= loadsAsked
    BY <1>t DEF FlagLoads
  <2>8. LastFlagKnown'
    BY <1>t, <2>1, <2>2, <2>6, <2>7 DEF PrefInv, LastFlagKnown
  <2>9. QED
    BY <2>4, <2>5, <2>8 DEF PrefInv
<1>7. ASSUME NEW t \in textLoads, TextsLoaded(t) PROVE PrefInv'
  <2>1. /\ textLoads' = textLoads \ {t} /\ texts' = t.language
        /\ locale' = IF t.flag THEN t.language ELSE locale
        /\ UNCHANGED <<loadsAsked, saving, saved, onMain, wanted, forgotten, unsaved>>
    BY <1>7 DEF TextsLoaded, memory
  <2>2. /\ loadCrossed' \in BOOLEAN
        /\ (loadCrossed' <=> loadCrossed \/ (t.flag /\ \E u \in textLoads :
                                                          u.flag /\ u.nr < t.nr))
        /\ firstLate' \in BOOLEAN /\ (firstLate' <=> ~t.flag /\ texts # "none")
        /\ wrapperDue' \in BOOLEAN
    BY <1>7, <1>t, Zenon DEF TextsLoaded, PrefTypeOK
  <2>3. PrefTypeOK'
    BY <1>t, <2>1, <2>2 DEF PrefTypeOK
  <2>4. TextsAreLocale' /\ SavedIsKhmer'
    BY <1>t, <2>1, <2>2 DEF PrefInv, TextsAreLocale, SavedIsKhmer, Languages
  <2>5. CASE ~t.flag
    <3>1. FlagLoads' = FlagLoads /\ locale' = locale
      BY <2>1, <2>5 DEF FlagLoads
    <3>2. LastFlagKnown'
      BY <2>1, <2>2, <3>1 DEF PrefInv, LastFlagKnown
    <3>3. QED
      BY <2>3, <2>4, <3>2 DEF PrefInv
  <2>6. CASE t.flag
    <3>1. FlagLoads' = FlagLoads \ {t} /\ t \in FlagLoads /\ locale' = t.language
      BY <2>1, <2>6 DEF FlagLoads
    <3>2. loadCrossed \/ \E u \in FlagLoads : u.language = wanted /\ \A v \in FlagLoads : v.nr <= u.nr
      BY <3>1 DEF PrefInv, LastFlagKnown
    <3>3. CASE loadCrossed
      BY <2>1, <2>2, <2>3, <2>4, <3>1, <3>3 DEF PrefInv, LastFlagKnown
    <3>4. CASE ~loadCrossed
      <4>1. PICK u \in FlagLoads : u.language = wanted /\ \A v \in FlagLoads : v.nr <= u.nr
        BY <3>2, <3>4
      <4>2. CASE u # t
        BY <2>1, <2>3, <2>4, <3>1, <4>1, <4>2 DEF PrefInv, LastFlagKnown
      <4>3. CASE u = t /\ FlagLoads' = {}
        BY <2>1, <2>3, <2>4, <3>1, <4>1, <4>3 DEF PrefInv, LastFlagKnown
      <4>4. CASE u = t /\ FlagLoads' # {}
        <5>1. PICK v \in FlagLoads : v # t
          BY <3>1, <4>4
        <5>2. v \in textLoads /\ v.flag /\ v.nr < t.nr
          <6>1. v \in textLoads /\ v.flag /\ v.nr \in Nat /\ t.nr \in Nat
            BY <1>t DEF FlagLoads
          <6>2. v.nr <= t.nr /\ v.nr # t.nr
            BY <3>1, <4>1, <4>4, <5>1 DEF PrefInv, LastFlagKnown
          <6>3. QED
            BY <6>1, <6>2
        <5>3. loadCrossed'
          BY <2>2, <2>6, <5>2
        <5>4. QED
          BY <2>1, <2>3, <2>4, <3>1, <5>3 DEF PrefInv, LastFlagKnown
      <4>5. QED
        BY <4>2, <4>3, <4>4
    <3>5. QED
      BY <3>3, <3>4
  <2>7. QED
    BY <2>5, <2>6
<1>8. CASE UNCHANGED prefVars
  BY <1>8 DEF prefVars, PrefInv, PrefTypeOK, TextsAreLocale, LastFlagKnown, FlagLoads,
     SavedIsKhmer
<1>9. QED
  BY <1>1, <1>2, <1>3, <1>4, <1>5, <1>6, <1>7, <1>8 DEF PrefNext

(***************************************************************************)
(* Texts, names and the last flag agree, the exceptions of OneLanguage     *)
(* aside, for any number of loads and restarts.                            *)
(***************************************************************************)
THEOREM OneLanguageShown == PrefSpec => []OneLanguage
<1>1. ASSUME PrefInv, texts # "none", textLoads = {} PROVE OneLanguage
  <2>1. FlagLoads = {} /\ locale \in Languages
    BY <1>1 DEF FlagLoads, PrefInv, PrefTypeOK
  <2>2. texts = locale \/ firstLate
    BY <1>1 DEF PrefInv, TextsAreLocale
  <2>3. NameLanguage = texts \/ texts = "zh" \/ firstLate
    BY <2>1, <2>2 DEF NameLanguage, Languages
  <2>4. locale = wanted \/ loadCrossed \/ (forgotten /\ (wanted # "km" \/ unsaved))
    BY <1>1, <2>1 DEF PrefInv, LastFlagKnown
  <2>5. QED
    BY <2>2, <2>3, <2>4 DEF OneLanguage
<1>2. PrefInv => OneLanguage
  BY <1>1 DEF OneLanguage
<1>3. QED
  BY <1>2, PrefInitially, PrefStep, PTL DEF PrefSpec

-----------------------------------------------------------------------------
(***************************************************************************)
(* HomeTab.  While categories are asked for there are none, so rows can    *)
(* meet a new list only if its answer overtakes the frame with the         *)
(* spinner; otherwise all a row asks for and shows is of its category.     *)
(***************************************************************************)
OwnRow(r) ==
  r.first \in {r.id, NoList} /\ r.more \subseteq {r.id} /\ r.shown \subseteq {r.id}

RowsMatch ==
  ~outrun =>
    /\ \A i \in DOMAIN rows : OwnRow(rows[i])
    /\ categories = NoList => rows = <<>> \/ frameDue
    /\ categories # NoList =>
         rows = <<>> \/ /\ DOMAIN rows = DOMAIN categories
                        /\ \A i \in DOMAIN rows : rows[i].id = categories[i]

HomeInv ==
  /\ HomeTypeOK
  /\ homeLoad # "none" => categories = NoList
  /\ homeLoad = "first" => rows = <<>> /\ onScreen = "spinner"
  /\ RowsMatch

LEMMA ListsAreSequences ==
  ASSUME NEW l \in Lists
  PROVE  l \in Seq(Category) /\ DOMAIN l = 1..Len(l) /\ Len(l) \in Nat
<1>1. CASE l = <<>>
  BY <1>1
<1>2. CASE l \in {<<c>> : c \in Category}
  <2>1. PICK c \in Category : l = <<c>>
    BY <1>2
  <2>2. <<c>> \in Seq(Category) /\ Len(<<c>>) = 1 /\ DOMAIN <<c>> = 1..1
    OBVIOUS
  <2>3. QED
    BY <2>1, <2>2
<1>3. CASE l \in Category \X Category
  <2>1. l = <<l[1], l[2]>> /\ l[1] \in Category /\ l[2] \in Category
    BY <1>3
  <2>2. PICK c \in Category, d \in Category : l = <<c, d>>
    BY <2>1
  <2>3. <<c, d>> \in Seq(Category) /\ Len(<<c, d>>) = 2 /\ DOMAIN <<c, d>> = 1..2
    OBVIOUS
  <2>4. QED
    BY <2>2, <2>3
<1>4. QED
  BY <1>1, <1>2, <1>3 DEF Lists

LEMMA HomeInitially == HomeInit => HomeInv
<1> SUFFICES ASSUME HomeInit PROVE HomeInv
  OBVIOUS
<1>1. <<>> \in Seq(Rows)
  OBVIOUS
<1>2. HomeTypeOK
  BY <1>1, Zenon DEF HomeInit, HomeTypeOK
<1>3. QED
  BY <1>2 DEF HomeInit, HomeInv, RowsMatch

\* A step that changes one row only, and no row's category.
LEMMA RowChanges ==
  ASSUME HomeInv, NEW i \in DOMAIN rows, NEW r \in Rows, r.id = rows[i].id,
         OwnRow(rows[i]) => OwnRow(r), rows' = [rows EXCEPT ![i] = r],
         UNCHANGED <<homeMounted, categories, homeLoad, frameDue, onScreen, homeFailed,
                     outrun>>
  PROVE  HomeInv'
<1>1. rows \in Seq(Rows) /\ rows # <<>>
  BY DEF HomeInv, HomeTypeOK
<1>2. /\ rows' \in Seq(Rows) /\ DOMAIN rows' = DOMAIN rows /\ rows' # <<>>
      /\ \A j \in DOMAIN rows : rows'[j] = IF j = i THEN r ELSE rows[j]
  BY <1>1
<1>3. HomeTypeOK'
  BY <1>2 DEF HomeInv, HomeTypeOK
<1>4. RowsMatch'
  BY <1>1, <1>2 DEF HomeInv, RowsMatch, OwnRow
<1>5. QED
  BY <1>1, <1>3, <1>4 DEF HomeInv

LEMMA HomeStep == HomeInv /\ [HomeNext]_homeVars => HomeInv'
<1> SUFFICES ASSUME HomeInv, [HomeNext]_homeVars PROVE HomeInv'
  OBVIOUS
<1> USE HomeTabAssumption
<1>t. /\ HomeTypeOK /\ rows \in Seq(Rows)
      /\ \A i \in DOMAIN rows : rows[i] \in Rows
  BY DEF HomeInv, HomeTypeOK
<1>e. <<>> \in Seq(Rows) /\ \A i : i \notin DOMAIN <<>>
  OBVIOUS
<1>1. CASE Refresh
  BY <1>1 DEF Refresh, HomeInv, HomeTypeOK, RowsMatch
<1>2. CASE HomeFail
  BY <1>2 DEF HomeFail, HomeInv, HomeTypeOK, RowsMatch
<1>3. CASE HomeDispose
  BY <1>3, <1>e DEF HomeDispose, HomeInv, HomeTypeOK, RowsMatch
<1>4. ASSUME NEW l \in Lists, HomeAnswer(l) PROVE HomeInv'
  <2>1. homeLoad # "none" /\ homeLoad' = "none"
        /\ UNCHANGED <<homeMounted, onScreen, rows, homeFailed>>
    BY <1>4 DEF HomeAnswer
  <2>2. CASE ~homeMounted
    BY <1>4, <2>1, <2>2 DEF HomeAnswer, HomeInv, HomeTypeOK, RowsMatch
  <2>3. CASE homeMounted
    <3>1. /\ categories' = l /\ frameDue' = TRUE /\ outrun' \in BOOLEAN
          /\ (outrun' <=> outrun \/ (homeLoad = "refresh" /\ frameDue))
      BY <1>4, <1>t, <2>3, Zenon DEF HomeAnswer, HomeTypeOK
    <3>2. HomeTypeOK'
      BY <1>t, <2>1, <3>1 DEF HomeTypeOK
    <3>3. ~outrun' => rows = <<>>
      BY <1>t, <2>1, <3>1 DEF HomeInv, HomeTypeOK, RowsMatch
    <3>4. RowsMatch'
      BY <2>1, <3>1, <3>3 DEF RowsMatch
    <3>5. QED
      BY <2>1, <3>2, <3>4 DEF HomeInv
  <2>4. QED
    BY <2>2, <2>3
<1>5. CASE HomeFrame
  <2>1. frameDue' = FALSE /\ UNCHANGED <<homeMounted, categories, homeLoad, homeFailed>>
    BY <1>5 DEF HomeFrame
  <2>2. CASE categories = NoList
    <3>1. onScreen' = "spinner" /\ rows' = <<>> /\ outrun' = FALSE
      BY <1>5, <2>2 DEF HomeFrame
    <3>2. QED
      BY <1>t, <1>e, <2>1, <2>2, <3>1 DEF HomeInv, HomeTypeOK, RowsMatch
  <2>3. CASE categories # NoList
    <3>1. /\ onScreen' = "list" /\ outrun' = outrun
          /\ rows' = [i \in DOMAIN categories |->
                        IF i \in DOMAIN rows THEN [rows[i] EXCEPT !.id = categories[i]]
                        ELSE NewRow(categories[i])]
      BY <1>5, <2>3 DEF HomeFrame
    <3>2. /\ categories \in Seq(Category) /\ Len(categories) \in Nat
          /\ DOMAIN categories = 1..Len(categories) /\ homeLoad = "none"
      BY <1>t, <2>3, ListsAreSequences DEF HomeInv, HomeTypeOK
    <3>3. ASSUME NEW i \in DOMAIN categories
          PROVE  /\ rows'[i] \in Rows /\ rows'[i].id = categories[i]
                 /\ i \notin DOMAIN rows => OwnRow(rows'[i])
                 /\ i \in DOMAIN rows /\ rows[i].id = categories[i] => rows'[i] = rows[i]
      <4>1. categories[i] \in Category
        BY <3>2
      <4>2. CASE i \in DOMAIN rows
        <5>1. rows'[i] = [rows[i] EXCEPT !.id = categories[i]] /\ rows[i] \in Rows
          BY <1>t, <3>1, <4>2
        <5>2. QED
          BY <4>1, <4>2, <5>1 DEF Rows
      <4>3. CASE i \notin DOMAIN rows
        BY <3>1, <4>1, <4>3 DEF Rows, NewRow, OwnRow
      <4>4. QED
        BY <4>2, <4>3
    <3>4. rows' \in Seq(Rows) /\ DOMAIN rows' = DOMAIN categories
      BY <3>1, <3>2, <3>3
    <3>5. HomeTypeOK'
      BY <1>t, <2>1, <3>1, <3>4 DEF HomeTypeOK
    <3>6. RowsMatch'
      <4> SUFFICES ASSUME ~outrun
                   PROVE  \A i \in DOMAIN rows' : OwnRow(rows'[i])
        BY <2>1, <2>3, <3>1, <3>3, <3>4 DEF RowsMatch
      <4>1. CASE rows = <<>>
        BY <3>3, <3>4, <4>1
      <4>2. CASE rows # <<>>
        BY <2>3, <3>3, <3>4, <4>2 DEF HomeInv, RowsMatch
      <4>3. QED
        BY <4>1, <4>2
    <3>7. QED
      BY <2>1, <3>2, <3>5, <3>6 DEF HomeInv
  <2>4. QED
    BY <2>2, <2>3
<1>6. ASSUME NEW i \in DOMAIN rows, RowLoaded(i) PROVE HomeInv'
  <2> DEFINE r == [rows[i] EXCEPT !.first = NoList, !.shown = {rows[i].first}]
  <2>1. r \in Rows /\ r.id = rows[i].id /\ (OwnRow(rows[i]) => OwnRow(r))
    BY <1>6, <1>t DEF RowLoaded, Rows, OwnRow
  <2>2. rows' = [rows EXCEPT ![i] = r]
        /\ UNCHANGED <<homeMounted, categories, homeLoad, frameDue, onScreen,
                       homeFailed, outrun>>
    BY <1>6, <1>t DEF RowLoaded, Rows
  <2> HIDE DEF r
  <2>3. QED
    BY <2>1, <2>2, RowChanges
<1>7. ASSUME NEW i \in DOMAIN rows, RowEndReached(i) PROVE HomeInv'
  <2> DEFINE r == [rows[i] EXCEPT !.more = @ \union {rows[i].id}]
  <2>1. r \in Rows /\ r.id = rows[i].id /\ (OwnRow(rows[i]) => OwnRow(r))
    BY <1>7, <1>t DEF RowEndReached, Rows, OwnRow
  <2>2. rows' = [rows EXCEPT ![i] = r]
        /\ UNCHANGED <<homeMounted, categories, homeLoad, frameDue, onScreen,
                       homeFailed, outrun>>
    BY <1>7, <1>t DEF RowEndReached, Rows
  <2> HIDE DEF r
  <2>3. QED
    BY <2>1, <2>2, RowChanges
<1>8. ASSUME NEW i \in DOMAIN rows, NEW c \in rows[i].more, RowMore(i, c) PROVE HomeInv'
  <2> DEFINE r == [rows[i] EXCEPT !.more = @ \ {c}, !.shown = @ \union {c}]
  <2>1. r \in Rows /\ r.id = rows[i].id /\ (OwnRow(rows[i]) => OwnRow(r))
    BY <1>8, <1>t DEF RowMore, Rows, OwnRow
  <2>2. rows' = [rows EXCEPT ![i] = r]
        /\ UNCHANGED <<homeMounted, categories, homeLoad, frameDue, onScreen,
                       homeFailed, outrun>>
    BY <1>8, <1>t DEF RowMore, Rows
  <2> HIDE DEF r
  <2>3. QED
    BY <2>1, <2>2, RowChanges
<1>9. ASSUME NEW i \in DOMAIN rows, RowFail(i) PROVE HomeInv'
  <2>0. UNCHANGED <<homeMounted, categories, homeLoad, frameDue, onScreen, homeFailed,
                    outrun>>
    BY <1>9 DEF RowFail
  <2>1. CASE rows' = [rows EXCEPT ![i].first = NoList]
    <3> DEFINE r == [rows[i] EXCEPT !.first = NoList]
    <3>1. r \in Rows /\ r.id = rows[i].id /\ (OwnRow(rows[i]) => OwnRow(r))
      BY <1>t DEF Rows, OwnRow
    <3>2. rows' = [rows EXCEPT ![i] = r]
      BY <1>t, <2>1 DEF Rows
    <3> HIDE DEF r
    <3>3. QED
      BY <2>0, <3>1, <3>2, RowChanges
  <2>2. ASSUME NEW c \in rows[i].more, rows' = [rows EXCEPT ![i].more = @ \ {c}]
        PROVE  HomeInv'
    <3> DEFINE r == [rows[i] EXCEPT !.more = @ \ {c}]
    <3>1. r \in Rows /\ r.id = rows[i].id /\ (OwnRow(rows[i]) => OwnRow(r))
      BY <1>t DEF Rows, OwnRow
    <3>2. rows' = [rows EXCEPT ![i] = r]
      BY <1>t, <2>2 DEF Rows
    <3> HIDE DEF r
    <3>3. QED
      BY <2>0, <3>1, <3>2, RowChanges
  <2>3. QED
    BY <1>9, <2>1, <2>2 DEF RowFail
<1>10. CASE UNCHANGED homeVars
  BY <1>10 DEF homeVars, HomeInv, HomeTypeOK, RowsMatch
<1>11. QED
  BY <1>1, <1>2, <1>3, <1>4, <1>5, <1>6, <1>7, <1>8, <1>9, <1>10 DEF HomeNext

(***************************************************************************)
(* Below a category's name the home page shows no products of another one, *)
(* unless an answer overtook the frame with the spinner, for any           *)
(* categories.                                                             *)
(***************************************************************************)
THEOREM RowsShowTheirCategory == HomeSpec => []RowShowsItsCategory
<1>1. HomeInv => RowShowsItsCategory
  BY DEF HomeInv, RowsMatch, OwnRow, RowShowsItsCategory
<1>2. QED
  BY <1>1, HomeInitially, HomeStep, PTL DEF HomeSpec

-----------------------------------------------------------------------------
(***************************************************************************)
(* PagedList.  The pages of the backend's list are disjoint and cover it;  *)
(* the list on the screen is made of the pages that were answered.         *)
(***************************************************************************)
OnPage(n, p) == FirstOf(p) <= n /\ n <= LastOf(p)

LEMMA PageBounds ==
  ASSUME NEW p \in Nat \ {0}
  PROVE  /\ FirstOf(p) \in Nat \ {0} /\ LastOf(p) \in Nat /\ LastOf(p) <= Total
         /\ LastOf(p) < FirstOf(p) => Total < FirstOf(p)
<1> USE PagedListAssumption
<1>1. (p - 1) * Limit \in Nat /\ p * Limit \in Nat /\ (p - 1) * Limit + Limit = p * Limit
  OBVIOUS
<1>2. QED
  BY <1>1 DEF FirstOf, LastOf

LEMMA PagesApart ==
  ASSUME NEW p \in Nat \ {0}, NEW q \in Nat \ {0}, q < p
  PROVE  LastOf(q) < FirstOf(p)
<1> USE PagedListAssumption
<1> DEFINE d == p - 1 - q
<1>1. d \in Nat /\ p - 1 = q + d
  OBVIOUS
<1> HIDE DEF d
<1>2. (q + d) * Limit = q * Limit + d * Limit /\ d * Limit \in Nat /\ q * Limit \in Nat
  BY <1>1
<1>3. q * Limit <= (p - 1) * Limit
  BY <1>1, <1>2
<1>4. QED
  BY <1>2, <1>3, <1>1 DEF FirstOf, LastOf

LEMMA Division ==
  ASSUME NEW a \in Nat, NEW b \in Nat \ {0}
  PROVE  \E d \in Nat : d * b <= a /\ a < (d + 1) * b
<1> DEFINE d == a \div b
           r == a % b
<1>1. d \in Int
  OBVIOUS
<1>2. r \in 0..(b - 1)
  OBVIOUS
<1>3. a = b * d + r
  OBVIOUS
<1> HIDE DEF d, r
<1>4. d * b = b * d /\ (d + 1) * b = b * d + b /\ b * d \in Int
  BY <1>1
<1>5. d >= 0
  <2> SUFFICES ASSUME d < 0 PROVE FALSE
    BY <1>1
  <2> DEFINE e == 0 - (d + 1)
  <2>1. e \in Nat /\ d + 1 = 0 - e
    BY <1>1
  <2> HIDE DEF e
  <2>2. e * b \in Nat /\ (0 - e) * b = 0 - e * b
    BY <2>1
  <2>3. (d + 1) * b <= 0
    BY <2>1, <2>2
  <2>4. QED
    BY <1>2, <1>3, <1>4, <2>3
<1>6. QED
  BY <1>1, <1>2, <1>3, <1>4, <1>5

\* Every product is on a page, and not after one that begins behind the end.
LEMMA PageFound ==
  ASSUME NEW n \in 1..Total, NEW p \in Nat \ {0}, Total < FirstOf(p)
  PROVE  \E q \in Nat \ {0} : q < p /\ OnPage(n, q)
<1> USE PagedListAssumption
<1>1. PICK d \in Nat : d * Limit <= n - 1 /\ n - 1 < (d + 1) * Limit
  <2>1. n - 1 \in Nat
    OBVIOUS
  <2>2. QED
    BY <2>1, Division
<1>2. OnPage(n, d + 1)
  BY <1>1 DEF OnPage, FirstOf, LastOf
<1>3. d + 1 < p
  <2> SUFFICES ASSUME p <= d + 1 PROVE FALSE
    BY <1>1
  <2>1. p = d + 1 \/ p < d + 1
    BY <1>1
  <2>2. CASE p = d + 1
    <3>1. n \in Nat /\ FirstOf(p) <= n /\ FirstOf(p) \in Nat /\ n <= Total
      BY <1>2, <2>2, PageBounds DEF OnPage
    <3>2. QED
      BY <3>1
  <2>3. CASE p < d + 1
    <3>1. d + 1 \in Nat \ {0} /\ LastOf(p) < FirstOf(d + 1)
      BY <2>3, PagesApart
    <3>2. FirstOf(d + 1) <= n /\ FirstOf(p) \in Nat /\ FirstOf(d + 1) \in Nat /\ LastOf(p) \in Nat
      BY <1>2, <3>1, PageBounds DEF OnPage
    <3>3. LastOf(p) < FirstOf(p) \/ FirstOf(p) <= LastOf(p)
      BY <3>2
    <3>4. LastOf(p) = Total
      <4>1. FirstOf(p) = p * Limit - Limit + 1 /\ p * Limit \in Nat
        BY DEF FirstOf
      <4>2. FirstOf(d + 1) <= Total
        BY <3>2
      <4>3. QED
        BY <3>1, <3>2, <4>1, <4>2 DEF LastOf
    <3>5. QED
      BY <3>1, <3>2, <3>4
  <2>4. QED
    BY <2>1, <2>2, <2>3
<1>4. QED
  BY <1>1, <1>2, <1>3

LEMMA PageRowsProperties ==
  ASSUME NEW p \in Nat \ {0}
  PROVE  /\ PageRows(p) \in Seq(1..Total)
         /\ \A i \in DOMAIN PageRows(p) :
              PageRows(p)[i] = FirstOf(p) + i - 1 /\ OnPage(PageRows(p)[i], p)
         /\ \A n \in 1..Total : OnPage(n, p) =>
              \E i \in DOMAIN PageRows(p) : PageRows(p)[i] = n
         /\ PageRows(p) = <<>> => Total < FirstOf(p)
<1> DEFINE all == [n \in 1..Total |-> n]
           f == FirstOf(p)
           l == LastOf(p)
<1>1. f \in Nat \ {0} /\ l \in Nat /\ l <= Total /\ (l < f => Total < f)
  BY PageBounds
<1>2. Total \in Nat
  BY PagedListAssumption
<1>3. PageRows(p) = SubSeq(all, f, l)
  BY DEF PageRows
<1> HIDE DEF f, l
<1>4. \A i \in f..l : i \in 1..Total /\ all[i] = i
  BY <1>1, <1>2
<1>5. /\ PageRows(p) \in Seq(1..Total)
      /\ Len(PageRows(p)) = IF f <= l THEN l - f + 1 ELSE 0
      /\ \A i \in 1..(l - f + 1) : PageRows(p)[i] = all[f + i - 1]
  BY <1>1, <1>3, <1>4, SubSeqProperties
<1> HIDE DEF all
<1>6. DOMAIN PageRows(p) = 1..Len(PageRows(p))
  BY <1>5
<1>7. ASSUME NEW i \in DOMAIN PageRows(p)
      PROVE  PageRows(p)[i] = f + i - 1 /\ f <= PageRows(p)[i] /\ PageRows(p)[i] <= l
  <2>1. f <= l /\ i \in 1..(l - f + 1)
    BY <1>1, <1>5, <1>6
  <2>2. f + i - 1 \in f..l
    BY <1>1, <2>1
  <2>3. PageRows(p)[i] = f + i - 1
    BY <1>4, <1>5, <2>1, <2>2
  <2>4. QED
    BY <1>1, <2>2, <2>3
<1>8. ASSUME NEW n \in 1..Total, f <= n, n <= l
      PROVE  \E i \in DOMAIN PageRows(p) : PageRows(p)[i] = n
  <2>1. n - f + 1 \in DOMAIN PageRows(p)
    BY <1>1, <1>2, <1>5, <1>6, <1>8
  <2>2. PageRows(p)[n - f + 1] = f + (n - f + 1) - 1
    BY <2>1, <1>7
  <2>3. QED
    BY <1>1, <1>2, <2>1, <2>2
<1>9. PageRows(p) = <<>> => Total < f
  BY <1>1, <1>5
<1>10. QED
  BY <1>5, <1>7, <1>8, <1>9 DEF OnPage, f, l

LEMMA Elements ==
  ASSUME NEW S, NEW s \in Seq(S)
  PROVE  \A i \in DOMAIN s : s[i] \in S
OBVIOUS

\* The list after a page was appended.
LEMMA Appended ==
  ASSUME NEW S, NEW s \in Seq(S), NEW t \in Seq(S)
  PROVE  /\ s \o t \in Seq(S)
         /\ \A i \in DOMAIN s : i \in DOMAIN (s \o t) /\ (s \o t)[i] = s[i]
         /\ \A i \in DOMAIN t : i + Len(s) \in DOMAIN (s \o t) /\ (s \o t)[i + Len(s)] = t[i]
         /\ \A i \in DOMAIN (s \o t) :
              \/ i \in DOMAIN s /\ i <= Len(s)
              \/ i - Len(s) \in DOMAIN t /\ i > Len(s) /\ (s \o t)[i] = t[i - Len(s)]
BY ConcatProperties

Got == (1..page) \ (pages \union failedPages)

PagesAsked ==
  /\ pages \union failedPages \subseteq 1..page
  /\ pages \cap failedPages = {}
  /\ ~loaded => page = 1 /\ products = <<>> /\ (visible <=> kind # "product")

MadeOfPages ==
  /\ \A i \in DOMAIN products : \E q \in Got : OnPage(products[i], q)
  /\ \A q \in Got, n \in 1..Total :
       OnPage(n, q) => \E i \in DOMAIN products : products[i] = n

RowsInOrder ==
  /\ \A i, j \in DOMAIN products : i < j => products[i] # products[j]
  /\ ~pagesCrossed =>
       /\ \A q \in Got, p \in pages : q < p
       /\ \A i, j \in DOMAIN products : i < j => products[i] < products[j]

EndSeen == loaded /\ ~visible => \E p \in 1..page : Total < FirstOf(p)

ListInv ==
  /\ ListTypeOK /\ PagesAsked
  /\ listMounted => MadeOfPages /\ RowsInOrder /\ EndSeen

LEMMA ListInitially == ListInit => ListInv
<1> SUFFICES ASSUME ListInit PROVE ListInv
  OBVIOUS
<1>1. 1 \in Pages /\ <<>> \in Seq(1..Total) /\ \A i : i \notin DOMAIN <<>>
  BY PagedListAssumption DEF Pages
<1>2. ListTypeOK
  BY <1>1, Zenon DEF ListInit, ListTypeOK
<1>3. PagesAsked /\ Got = {}
  <2>1. visible <=> kind # "product"
    BY Zenon DEF ListInit
  <2>2. QED
    BY <2>1 DEF ListInit, PagesAsked, Got
<1>4. MadeOfPages /\ RowsInOrder /\ EndSeen
  BY <1>1, <1>3 DEF ListInit, MadeOfPages, RowsInOrder, EndSeen
<1>5. QED
  BY <1>2, <1>3, <1>4 DEF ListInv

LEMMA ListStep == ListInv /\ [ListNext]_listVars => ListInv'
<1> SUFFICES ASSUME ListInv, [ListNext]_listVars PROVE ListInv'
  OBVIOUS
<1> USE PagedListAssumption
<1>t. /\ ListTypeOK /\ page \in Nat \ {0} /\ page \in 1..MaxPage
      /\ \A p \in pages : p \in Nat \ {0} /\ p <= page
      /\ Got \subseteq Nat \ {0} /\ \A q \in Got : q <= page
  BY DEF ListInv, ListTypeOK, PagesAsked, Pages, Got
<1>1. CASE EndReached
  <2>1. /\ listMounted /\ products # <<>> /\ page < MaxPage
        /\ page' = page + 1 /\ pages' = pages \union {page + 1}
        /\ UNCHANGED <<kind, listMounted, products, loaded, visible, failedPages,
                       pagesCrossed>>
    BY <1>1 DEF EndReached
  <2>2. ListTypeOK'
    BY <1>t, <2>1 DEF ListTypeOK, Pages
  <2>3. loaded
    BY <2>1 DEF ListInv, PagesAsked
  <2>4. PagesAsked'
    BY <1>t, <2>1, <2>3 DEF ListInv, PagesAsked
  <2>5. Got' = Got
    BY <1>t, <2>1 DEF ListInv, PagesAsked, Got
  <2>6. MadeOfPages'
    BY <2>1, <2>5 DEF ListInv, MadeOfPages, OnPage, FirstOf, LastOf
  <2>7. RowsInOrder'
    BY <1>t, <2>1, <2>5 DEF ListInv, RowsInOrder
  <2>8. EndSeen'
    <3>1. 1..page \subseteq 1..page'
      BY <1>t, <2>1
    <3>2. EndSeen
      BY <2>1 DEF ListInv
    <3>3. QED
      BY <2>1, <3>1, <3>2 DEF EndSeen, FirstOf
  <2>9. QED
    BY <2>1, <2>2, <2>4, <2>6, <2>7, <2>8 DEF ListInv
<1>2. CASE ListDispose
  BY <1>2 DEF ListDispose, ListInv, ListTypeOK, PagesAsked
<1>3. ASSUME NEW p \in pages, ListAnswer(p) PROVE ListInv'
  <2>1. pages' = pages \ {p} /\ UNCHANGED <<kind, listMounted, page, failedPages>>
    BY <1>3 DEF ListAnswer
  <2>2. CASE ~listMounted
    <3>1. UNCHANGED <<products, loaded, visible, pagesCrossed>>
      BY <1>3, <2>2 DEF ListAnswer
    <3>2. QED
      BY <2>1, <2>2, <3>1 DEF ListInv, ListTypeOK, PagesAsked
  <2>3. CASE listMounted
    <3> DEFINE r == PageRows(p)
    <3>1. /\ products' = products \o r /\ loaded' = TRUE /\ visible' = VisibleAfter(p)
          /\ pagesCrossed' = (pagesCrossed \/ \E q \in pages : q < p)
      BY <1>3, <2>3 DEF ListAnswer
    <3>2. pagesCrossed' \in BOOLEAN
          /\ (~pagesCrossed' => ~pagesCrossed /\ \A q \in pages : ~(q < p))
      BY <3>1, <1>t, Zenon DEF ListTypeOK
    <3>3. /\ r \in Seq(1..Total) /\ p \in Nat \ {0} /\ (r = <<>> => Total < FirstOf(p))
          /\ \A i \in DOMAIN r : r[i] = FirstOf(p) + i - 1 /\ OnPage(r[i], p)
          /\ \A n \in 1..Total : OnPage(n, p) => \E i \in DOMAIN r : r[i] = n
      BY <1>t, PageRowsProperties
    <3>v. /\ visible' \in BOOLEAN
          /\ p = 1 => (visible' <=> visible \/ kind = "product")
          /\ p # 1 /\ ~visible' => ~visible \/ r = <<>>
      BY <3>1, <1>t, Zenon DEF VisibleAfter, ListTypeOK
    <3> HIDE DEF r
    <3>4. products \in Seq(1..Total)
      BY <1>t DEF ListTypeOK
    <3>5. /\ products' \in Seq(1..Total)
          /\ \A i \in DOMAIN products : i \in DOMAIN products' /\ products'[i] = products[i]
          /\ \A i \in DOMAIN r : i + Len(products) \in DOMAIN products'
                                 /\ products'[i + Len(products)] = r[i]
          /\ \A i \in DOMAIN products' :
               \/ i \in DOMAIN products /\ i <= Len(products)
               \/ /\ i - Len(products) \in DOMAIN r /\ i > Len(products)
                  /\ products'[i] = r[i - Len(products)]
      <4> DEFINE T == 1..Total
      <4>1. r \in Seq(T) /\ products \in Seq(T)
        BY <3>3, <3>4
      <4> HIDE DEF T
      <4>2. /\ products \o r \in Seq(T)
            /\ \A i \in DOMAIN products :
                 i \in DOMAIN (products \o r) /\ (products \o r)[i] = products[i]
            /\ \A i \in DOMAIN r : /\ i + Len(products) \in DOMAIN (products \o r)
                                   /\ (products \o r)[i + Len(products)] = r[i]
            /\ \A i \in DOMAIN (products \o r) :
                 \/ i \in DOMAIN products /\ i <= Len(products)
                 \/ /\ i - Len(products) \in DOMAIN r /\ i > Len(products)
                    /\ (products \o r)[i] = r[i - Len(products)]
        BY <4>1, Appended
      <4>3. QED
        BY <3>1, <4>2, Zenon DEF T
    <3>6. Got' = Got \union {p}
      BY <1>t, <2>1 DEF ListInv, PagesAsked, Got
    <3>7. ListTypeOK'
      BY <1>t, <2>1, <3>1, <3>2, <3>5, <3>v DEF ListTypeOK
    <3>8. PagesAsked'
      BY <2>1, <3>1 DEF ListInv, PagesAsked
    <3>9. MadeOfPages'
      <4>1. ASSUME NEW i \in DOMAIN products' PROVE \E q \in Got' : OnPage(products'[i], q)
        <5>1. CASE i \in DOMAIN products
          BY <2>3, <3>5, <3>6, <5>1 DEF ListInv, MadeOfPages
        <5>2. CASE i - Len(products) \in DOMAIN r /\ products'[i] = r[i - Len(products)]
          BY <3>3, <3>6, <5>2
        <5>3. QED
          BY <3>5, <5>1, <5>2
      <4>2. ASSUME NEW q \in Got', NEW n \in 1..Total, OnPage(n, q)
            PROVE  \E i \in DOMAIN products' : products'[i] = n
        <5>1. CASE q \in Got
          <6>1. PICK i \in DOMAIN products : products[i] = n
            BY <2>3, <4>2, <5>1 DEF ListInv, MadeOfPages
          <6>2. QED
            BY <3>5, <6>1
        <5>2. CASE q = p
          <6>1. PICK i \in DOMAIN r : r[i] = n
            BY <3>3, <4>2, <5>2
          <6>2. QED
            BY <3>5, <6>1
        <5>3. QED
          BY <3>6, <5>1, <5>2
      <4>3. QED
        BY <4>1, <4>2 DEF MadeOfPages, OnPage, FirstOf, LastOf
    <3>10. p \notin Got
      BY DEF Got
    <3>11. ASSUME NEW i \in DOMAIN products, NEW k \in DOMAIN r
           PROVE  /\ products[i] # r[k]
                  /\ ~pagesCrossed => products[i] < r[k]
      <4>1. PICK q \in Got : OnPage(products[i], q)
        BY <2>3 DEF ListInv, MadeOfPages
      <4>2. /\ products[i] \in 1..Total /\ r[k] \in 1..Total /\ OnPage(r[k], p)
            /\ q \in Nat \ {0} /\ q # p /\ p \in Nat \ {0}
        BY <1>t, <3>3, <3>4, <3>10
      <4>3. /\ FirstOf(q) \in Nat /\ LastOf(q) \in Nat /\ FirstOf(p) \in Nat /\ LastOf(p) \in Nat
        BY <4>2, PageBounds
      <4>4. q < p => products[i] < r[k]
        <5> SUFFICES ASSUME q < p PROVE products[i] < r[k]
          OBVIOUS
        <5>1. LastOf(q) < FirstOf(p)
          BY <4>2, PagesApart
        <5>2. QED
          BY <4>1, <4>2, <4>3, <5>1 DEF OnPage
      <4>5. p < q => r[k] < products[i]
        <5> SUFFICES ASSUME p < q PROVE r[k] < products[i]
          OBVIOUS
        <5>1. LastOf(p) < FirstOf(q)
          BY <4>2, PagesApart
        <5>2. QED
          BY <4>1, <4>2, <4>3, <5>1 DEF OnPage
      <4>6. ~pagesCrossed => q < p
        BY <2>3, <4>1 DEF ListInv, RowsInOrder
      <4>7. QED
        BY <4>2, <4>4, <4>5, <4>6
    <3>12. RowsInOrder'
      <4>1. ASSUME NEW i \in DOMAIN products', NEW j \in DOMAIN products', i < j
            PROVE  products'[i] # products'[j] /\ (~pagesCrossed => products'[i] < products'[j])
        <5>0. Len(products) \in Nat /\ \A k \in DOMAIN r : k \in Nat
          BY <3>3, <3>4
        <5>d. DOMAIN products = 1..Len(products) /\ i \in Nat \ {0} /\ j \in Nat \ {0}
          BY <3>4, <3>5
        <5>1. CASE i \in DOMAIN products /\ j \in DOMAIN products
          BY <2>3, <3>5, <4>1, <5>1 DEF ListInv, RowsInOrder
        <5>2. CASE i \in DOMAIN products /\ j \notin DOMAIN products
          BY <3>5, <3>11, <5>2
        <5>3. CASE i \notin DOMAIN products
          <6>1. i > Len(products) /\ j > Len(products) /\ j \notin DOMAIN products
            BY <4>1, <5>0, <5>d, <5>3
          <6>2. /\ i - Len(products) \in DOMAIN r /\ j - Len(products) \in DOMAIN r
                /\ products'[i] = r[i - Len(products)] /\ products'[j] = r[j - Len(products)]
            BY <3>5, <5>3, <6>1
          <6>3. FirstOf(p) \in Nat
            BY <3>3, PageBounds
          <6>4. /\ r[i - Len(products)] = FirstOf(p) + (i - Len(products)) - 1
                /\ r[j - Len(products)] = FirstOf(p) + (j - Len(products)) - 1
            BY <3>3, <6>2
          <6>5. QED
            BY <4>1, <5>0, <5>d, <6>2, <6>3, <6>4
        <5>4. QED
          BY <5>1, <5>2, <5>3
      <4>2. ASSUME ~pagesCrossed', NEW q \in Got', NEW u \in pages' PROVE q < u
        <5>1. u \in pages /\ u # p /\ ~(u < p) /\ ~pagesCrossed
          BY <2>1, <3>2, <4>2
        <5>2. CASE q \in Got
          BY <2>3, <5>1, <5>2 DEF ListInv, RowsInOrder
        <5>3. CASE q = p
          BY <1>t, <5>1, <5>3
        <5>4. QED
          BY <3>6, <5>2, <5>3
      <4>3. QED
        BY <3>2, <4>1, <4>2 DEF RowsInOrder
    <3>13. EndSeen'
      <4> SUFFICES ASSUME ~visible' PROVE \E q \in 1..page : Total < FirstOf(q)
        BY <2>1 DEF EndSeen, FirstOf
      <4>0. p \in 1..page
        BY <1>t
      <4>1. CASE p = 1 /\ ~loaded
        BY <3>v, <4>1 DEF ListInv, PagesAsked
      <4>2. CASE loaded /\ ~visible
        BY <2>3, <4>2 DEF ListInv, EndSeen
      <4>3. CASE p # 1 /\ ~loaded
        BY <4>0, <4>3 DEF ListInv, PagesAsked
      <4>4. CASE p = 1 /\ loaded
        BY <2>3, <3>v, <4>4 DEF ListInv, EndSeen
      <4>5. CASE p # 1 /\ r = <<>>
        BY <3>3, <4>0, <4>5
      <4>6. QED
        BY <3>v, <4>1, <4>2, <4>3, <4>4, <4>5
    <3>14. QED
      BY <3>7, <3>8, <3>9, <3>12, <3>13 DEF ListInv
  <2>4. QED
    BY <2>2, <2>3
<1>4. ASSUME NEW p \in pages, ListFail(p) PROVE ListInv'
  <2>1. pages' = pages \ {p} /\ failedPages' = failedPages \union {p}
        /\ UNCHANGED <<kind, listMounted, page, products, loaded, visible, pagesCrossed>>
    BY <1>4 DEF ListFail
  <2>2. Got' = Got
    BY <2>1 DEF Got
  <2>3. ListTypeOK' /\ PagesAsked'
    BY <1>t, <2>1 DEF ListInv, ListTypeOK, PagesAsked
  <2>4. MadeOfPages = MadeOfPages' /\ EndSeen = EndSeen'
    BY <2>1, <2>2 DEF MadeOfPages, EndSeen, OnPage, FirstOf, LastOf
  <2>5. RowsInOrder => RowsInOrder'
    BY <2>1, <2>2 DEF RowsInOrder
  <2>6. QED
    BY <2>1, <2>3, <2>4, <2>5 DEF ListInv
<1>5. CASE UNCHANGED listVars
  BY <1>5 DEF listVars, ListInv, ListTypeOK, PagesAsked, MadeOfPages, RowsInOrder, EndSeen,
     Got, OnPage, FirstOf, LastOf
<1>6. QED
  BY <1>1, <1>2, <1>3, <1>4, <1>5 DEF ListNext

LEMMA ListCorrect == ListSpec => []ListInv
BY ListInitially, ListStep, PTL DEF ListSpec

(***************************************************************************)
(* A paged list at rest shows the products of its pages once and in order, *)
(* the exceptions of PagesOnce aside, for any page size and any list.      *)
(***************************************************************************)
THEOREM ListShowsPagesOnce == ListSpec => []PagesOnce
<1>1. ASSUME ListInv, listMounted, pages = {} PROVE PagesOnce
  <2>1. Got = (1..page) \ failedPages /\ products \in Seq(1..Total)
    BY <1>1 DEF Got, ListInv, ListTypeOK
  <2>2. {products[i] : i \in DOMAIN products} = Products((1..page) \ failedPages)
    <3>1. \A i \in DOMAIN products : products[i] \in 1..Total
      BY <2>1, Elements, Zenon
    <3>2. QED
      BY <1>1, <2>1, <3>1 DEF ListInv, MadeOfPages, OnPage, Products
  <2>3. ASSUME NEW i \in DOMAIN products, NEW j \in DOMAIN products, i < j
        PROVE  IF pagesCrossed THEN products[i] # products[j] ELSE products[i] < products[j]
    BY <1>1, <2>3 DEF ListInv, RowsInOrder
  <2>4. QED
    BY <2>2, <2>3 DEF PagesOnce
<1>2. ListInv => PagesOnce
  BY <1>1 DEF PagesOnce
<1>3. QED
  BY <1>2, ListCorrect, PTL

(***************************************************************************)
(* A paged list whose arrow has gone has asked for everything there is.    *)
(***************************************************************************)
THEOREM ArrowIsRight == ListSpec => []ArrowTells
<1>1. ASSUME ListInv, listMounted, loaded, ~visible PROVE ArrowTells
  <2> DEFINE shown == {products[i] : i \in DOMAIN products}
             others == Products(pages \union failedPages)
  <2>1. shown \subseteq 1..Total
    <3>1. products \in Seq(1..Total)
      BY <1>1 DEF ListInv, ListTypeOK
    <3>2. \A i \in DOMAIN products : products[i] \in 1..Total
      BY <3>1, Elements, Zenon
    <3>3. QED
      BY <3>2
  <2>2. others \subseteq 1..Total
    BY DEF Products
  <2>3. ASSUME NEW n \in 1..Total PROVE n \in shown \union others
    <3>1. PICK p \in 1..page : Total < FirstOf(p)
      BY <1>1 DEF ListInv, EndSeen
    <3>2. page \in Nat /\ p \in Nat \ {0}
      BY <1>1, <3>1 DEF ListInv, ListTypeOK, Pages
    <3>3. PICK q \in Nat \ {0} : q < p /\ OnPage(n, q)
      BY <3>1, <3>2, PageFound
    <3>4. q \in 1..page
      BY <3>1, <3>2, <3>3
    <3>5. CASE q \in Got
      BY <1>1, <3>3, <3>5 DEF ListInv, MadeOfPages
    <3>6. CASE q \in pages \union failedPages
      BY <3>3, <3>6 DEF Products, OnPage
    <3>7. QED
      BY <3>4, <3>5, <3>6 DEF Got
  <2>4. 1..Total = shown \union others
    BY <2>1, <2>2, <2>3
  <2>5. QED
    BY <2>4 DEF ArrowTells
<1>2. ListInv => ArrowTells
  BY <1>1 DEF ArrowTells
<1>3. QED
  BY <1>2, ListCorrect, PTL

-----------------------------------------------------------------------------
(***************************************************************************)
(* A behaviour of Screens is one of each screen: the screen it is about    *)
(* takes its steps, the others stand still.                                *)
(***************************************************************************)
THEOREM EachScreen ==
  Spec => /\ ListSpec /\ HomeSpec /\ CatSpec /\ CodeSpec /\ RecSpec /\ ProfSpec
          /\ PrefSpec
<1>1. Init => /\ ListInit /\ HomeInit /\ CatInit /\ CodeInit /\ RecInit /\ ProfInit
              /\ PrefInit
  BY DEF Init
<1>2. ASSUME [Next]_vars
      PROVE  /\ [ListNext]_listVars /\ [HomeNext]_homeVars /\ [CatNext]_catVars
             /\ [CodeNext]_codeVars /\ [RecNext]_recVars /\ [ProfNext]_profVars
             /\ [PrefNext]_prefVars
  BY <1>2, Zenon DEF Next, vars
<1>3. QED
  BY <1>1, <1>2, PTL DEF Spec, ListSpec, HomeSpec, CatSpec, CodeSpec, RecSpec, ProfSpec,
     PrefSpec

(***************************************************************************)
(* The variables of all screens keep their types, for all constants.       *)
(***************************************************************************)
THEOREM TypeCorrect == Spec => []TypeOK
<1>1. Init => screen \in ScreenNames
  BY DEF Init
<1>2. screen \in ScreenNames /\ [Next]_vars => (screen \in ScreenNames)'
  BY DEF Next, vars
<1>3. ListInv /\ HomeInv /\ CatInv /\ CodeInv
        => ListTypeOK /\ HomeTypeOK /\ CatTypeOK /\ CodeTypeOK
  BY DEF ListInv, HomeInv, CatInv, CodeInv
<1>4. RecInv /\ ProfInv /\ PrefInv => RecTypeOK /\ ProfTypeOK /\ PrefTypeOK
  BY DEF RecInv, ProfInv, PrefInv
<1>5. /\ screen \in ScreenNames /\ ListTypeOK /\ HomeTypeOK /\ CatTypeOK /\ CodeTypeOK
      /\ RecTypeOK /\ ProfTypeOK /\ PrefTypeOK
      => TypeOK
  BY DEF TypeOK
<1>6. Spec => [](screen \in ScreenNames)
  BY <1>1, <1>2, PTL DEF Spec
<1>7. ListSpec /\ HomeSpec /\ CatSpec => []ListInv /\ []HomeInv /\ []CatInv
  BY ListCorrect, HomeInitially, HomeStep, CatInitially, CatStep, PTL DEF HomeSpec, CatSpec
<1>8. CodeSpec /\ RecSpec /\ ProfSpec /\ PrefSpec
        => []CodeInv /\ []RecInv /\ []ProfInv /\ []PrefInv
  BY CodeCorrect, RecCorrect, ProfInitially, ProfStep, PrefInitially, PrefStep, PTL
     DEF ProfSpec, PrefSpec
<1>9. QED
  BY <1>3, <1>4, <1>5, <1>6, <1>7, <1>8, EachScreen, PTL
=============================================================================
