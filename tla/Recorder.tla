------------------------------ MODULE Recorder ------------------------------
(***************************************************************************)
(* Recording a voice message in ChatWidget.  The microphone button calls   *)
(* startRecorder; the cancel and the send button both call stopRecorder,   *)
(* which uploads the file and sends it to the conversation that was open   *)
(* when it was called.                                                     *)
(*                                                                         *)
(* The plugin flutter_sound is external: it answers calls in the order     *)
(* they are made, each may fail, starting fails while a recording runs,    *)
(* and stopping fails at once while its isRecording is false.  Buttons     *)
(* change with the next frame and can be tapped again before it.           *)
(***************************************************************************)
EXTENDS Integers, Sequences

CONSTANTS
  RecChats,       \* the conversations the window may show
  MaxRecordings,  \* bound: taps on the microphone
  MaxCalls        \* bound: calls the plugin has not answered

ASSUME RecorderAssumption == MaxRecordings \in Nat /\ MaxCalls \in Nat

VARIABLES
  recMounted,   \* the ChatWidget is there
  isRecording,  \* _ChatWidgetState.isRecording: cancel and send, no microphone
  buttons,      \* ... as the last frame has built them
  openChat,     \* _ChatWidgetState._chatKey
  recorder,     \* the recording that runs, 0 if flutterSound.isRecording is false
  path,         \* _ChatWidgetState._path, as the recording it is of, 0 if null
  starts,       \* recordings asked for so far
  calls,        \* the calls of the plugin it has not answered
  uploads,      \* recordings being uploaded, and the conversation they are for
  sent,         \* the recordings sent, in order
  stopped,      \* history: recordings ended by a button
  lostSounds,   \* history: recordings whose upload failed
  early,        \* history: ... stopped or left before they had started
  refused,      \* history: ... the plugin failed to stop
  stoppedTwice  \* history: ... stopped while a stop was under way

traces == <<stopped, lostSounds, early, refused, stoppedTwice>>
recVars == <<recMounted, isRecording, buttons, openChat, recorder, path, starts,
             calls, uploads, sent, stopped, lostSounds, early, refused,
             stoppedTwice>>

Sounds == 1..MaxRecordings

\* A call: start a recording, stop it and send it to a chat, or just stop it.
Calls == [op : {"start"}, nr : Sounds] \union [op : {"stop"}, chat : RecChats]
           \union [op : {"drop"}]

Pending(op) == \E i \in DOMAIN calls : calls[i].op = op

Starting == {calls[i].nr : i \in {j \in DOMAIN calls : calls[j].op = "start"}}

Twice == IF Pending("stop") THEN {recorder} \ {0} ELSE {}

-----------------------------------------------------------------------------
RecInit ==
  /\ recMounted = TRUE
  /\ isRecording = FALSE
  /\ buttons = FALSE
  /\ openChat \in RecChats
  /\ recorder = 0
  /\ path = 0
  /\ starts = 0
  /\ calls = <<>>
  /\ uploads = {}
  /\ sent = <<>>
  /\ stopped = {}
  /\ lostSounds = {}
  /\ early = {}
  /\ refused = {}
  /\ stoppedTwice = {}

RecFrame ==
  /\ recMounted
  /\ buttons' = isRecording
  /\ UNCHANGED <<recMounted, isRecording, openChat, recorder, path, starts,
                 calls, uploads, sent, traces>>

\* The microphone button, and startRecorder up to the plugin's answer.
StartRecorder ==
  /\ recMounted /\ ~buttons
  /\ starts < MaxRecordings /\ Len(calls) < MaxCalls
  /\ isRecording' = TRUE
  /\ starts' = starts + 1
  /\ calls' = Append(calls, [op |-> "start", nr |-> starts + 1])
  /\ UNCHANGED <<recMounted, buttons, openChat, recorder, path, uploads, sent,
                 traces>>

StopRecorderLate ==  \* mutant: the plugin is not asked whether it records
  /\ recMounted /\ buttons /\ Len(calls) < MaxCalls
  /\ isRecording' = FALSE
  /\ calls' = Append(calls, [op |-> "stop", chat |-> openChat])
  /\ stoppedTwice' = stoppedTwice \union Twice
  /\ UNCHANGED <<recMounted, buttons, openChat, recorder, path, starts, uploads,
                 sent, stopped, lostSounds, early, refused>>

\* The cancel or the send button, and stopRecorder up to the plugin's answer.
StopRecorder ==
  /\ recMounted /\ buttons /\ Len(calls) < MaxCalls
  /\ isRecording' = FALSE
  /\ calls' = IF recorder = 0 THEN calls
              ELSE Append(calls, [op |-> "stop", chat |-> openChat])
  /\ early' = early \union Starting
  /\ stoppedTwice' = stoppedTwice \union Twice
  /\ UNCHANGED <<recMounted, buttons, openChat, recorder, path, starts, uploads,
                 sent, stopped, lostSounds, refused>>

(***************************************************************************)
(* The plugin has started: _path is set, unless the widget is gone.  A     *)
(* start that fails leaves the buttons of a recording on the screen.       *)
(***************************************************************************)
Started ==
  /\ calls # <<>> /\ Head(calls).op = "start"
  /\ calls' = Tail(calls)
  /\ \/ /\ recorder = 0
        /\ recorder' = Head(calls).nr
        /\ path' = IF recMounted THEN Head(calls).nr ELSE path
     \/ UNCHANGED <<recorder, path>>
  /\ UNCHANGED <<recMounted, isRecording, buttons, openChat, starts, uploads,
                 sent, traces>>

(***************************************************************************)
(* The plugin has stopped: what _path names by now is uploaded, be it the  *)
(* recording that ran or not.  The plugin may accept a second stop.        *)
(***************************************************************************)
Stopped ==
  /\ calls # <<>> /\ Head(calls).op = "stop"
  /\ calls' = Tail(calls)
  /\ \/ /\ recorder' = 0
        /\ uploads' = IF path = 0 THEN uploads
                      ELSE uploads \union {[nr |-> path, chat |-> Head(calls).chat]}
        /\ stopped' = stopped \union ({recorder} \ {0})
        /\ UNCHANGED refused
     \/ /\ refused' = refused \union ({recorder} \ {0})
        /\ UNCHANGED <<recorder, uploads, stopped>>
  /\ UNCHANGED <<recMounted, isRecording, buttons, openChat, path, starts, sent,
                 lostSounds, early, stoppedTwice>>

\* The stop of dispose, whose answer nobody waits for.
Dropped ==
  /\ calls # <<>> /\ Head(calls).op = "drop"
  /\ calls' = Tail(calls)
  /\ \/ recorder' = 0 /\ UNCHANGED refused
     \/ refused' = refused \union ({recorder} \ {0}) /\ UNCHANGED recorder
  /\ UNCHANGED <<recMounted, isRecording, buttons, openChat, path, starts,
                 uploads, sent, stopped, lostSounds, early, stoppedTwice>>

\* uploadFileService has succeeded: the message and its summaries are written,
\* with or without the widget.
Uploaded(u) ==
  /\ u \in uploads
  /\ uploads' = uploads \ {u}
  /\ sent' = Append(sent, u.nr)
  /\ UNCHANGED <<recMounted, isRecording, buttons, openChat, recorder, path,
                 starts, calls, traces>>

UploadFails(u) ==
  /\ u \in uploads
  /\ uploads' = uploads \ {u}
  /\ lostSounds' = lostSounds \union {u.nr}
  /\ UNCHANGED <<recMounted, isRecording, buttons, openChat, recorder, path,
                 starts, calls, sent, stopped, early, refused, stoppedTwice>>

\* Another conversation is opened in the same window.
OpenChat(c) ==
  /\ recMounted /\ openChat # c
  /\ openChat' = c
  /\ UNCHANGED <<recMounted, isRecording, buttons, recorder, path, starts,
                 calls, uploads, sent, traces>>

RecDisposeRunning ==  \* mutant: dispose does not stop the recorder
  /\ recMounted
  /\ recMounted' = FALSE
  /\ early' = early \union Starting
  /\ UNCHANGED <<isRecording, buttons, openChat, recorder, path, starts, calls,
                 uploads, sent, stopped, lostSounds, refused, stoppedTwice>>

RecDispose ==
  /\ recMounted
  /\ recMounted' = FALSE
  /\ calls' = IF recorder = 0 THEN calls ELSE Append(calls, [op |-> "drop"])
  /\ early' = early \union Starting
  /\ UNCHANGED <<isRecording, buttons, openChat, recorder, path, starts,
                 uploads, sent, stopped, lostSounds, refused, stoppedTwice>>

RecNext ==
  \/ RecFrame \/ StartRecorder \/ StopRecorder \/ Started \/ Stopped \/ Dropped
  \/ \E u \in uploads : Uploaded(u) \/ UploadFails(u)
  \/ \E c \in RecChats : OpenChat(c)
  \/ RecDispose

RecSpec == RecInit /\ [][RecNext]_recVars

-----------------------------------------------------------------------------
RecTypeOK ==
  /\ recMounted \in BOOLEAN
  /\ isRecording \in BOOLEAN
  /\ buttons \in BOOLEAN
  /\ openChat \in RecChats
  /\ recorder \in 0..MaxRecordings
  /\ path \in 0..MaxRecordings
  /\ starts \in 0..MaxRecordings
  /\ calls \in Seq(Calls)
  /\ uploads \subseteq [nr : Sounds, chat : RecChats]
  /\ sent \in Seq(Sounds)
  /\ stopped \subseteq Sounds
  /\ lostSounds \subseteq Sounds
  /\ early \subseteq Sounds
  /\ refused \subseteq Sounds
  /\ stoppedTwice \subseteq Sounds

(***************************************************************************)
(* The microphone is never on unseen: a recording runs only while its      *)
(* buttons are there or its stop is under way - unless it was stopped, or  *)
(* the window left, before the plugin had answered the start, or the       *)
(* plugin failed to stop it.                                               *)
(***************************************************************************)
MicrophoneOwned ==
  recorder # 0 =>
    (recMounted /\ isRecording) \/ Pending("stop") \/ Pending("drop")
      \/ recorder \in early \union refused

Copies(n) == {i \in DOMAIN sent : sent[i] = n}

(***************************************************************************)
(* Every recording that was ended by a button, cancel as well as send, is  *)
(* uploading, sent or its upload failed, unless a button or the end of the *)
(* window came before it had started.  It is sent once, unless that was so *)
(* or it was stopped again while a stop was under way.                     *)
(***************************************************************************)
NoneLost ==
  stopped \ early \subseteq {u.nr : u \in uploads} \union lostSounds
                              \union {sent[i] : i \in DOMAIN sent}

NoneTwice ==
  /\ \A i, j \in DOMAIN sent :
       sent[i] = sent[j] => i = j \/ sent[i] \in stoppedTwice \union early
  /\ \A u \in uploads : Copies(u.nr) = {} \/ u.nr \in stoppedTwice \union early

StoppedIsSent == NoneLost /\ NoneTwice
=============================================================================
