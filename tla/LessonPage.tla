----------------------------- MODULE LessonPage -----------------------------
(***************************************************************************)
(* The page of an open lesson (LessonDetail): which of its views is on     *)
(* screen, the practice media of the sentences in that view (speech,       *)
(* recorder, recognition, the player of the learner's recording, the       *)
(* lesson's video), and the sentences that Learn mode has unlocked.  What  *)
(* counts as practice is the subject of LessonVisit.                       *)
(*                                                                         *)
(* A press of a control runs to its end, with the effects React runs after *)
(* it.  What the browser does is asynchronous: the answer to a microphone  *)
(* request, the end of an utterance, the result of a recognition, a play   *)
(* event.                                                                  *)
(***************************************************************************)
EXTENDS Dictation

CONSTANTS
  Text,     \* the sentences, each a sequence of words
  Answers,  \* what may be typed or heard: sequences of words
  HasVideo  \* the lesson has a video

ASSUME LessonAssumption ==
  /\ Text \in Seq(Seq(Words)) /\ Text # <<>>
  /\ Answers \subseteq Seq(Words) /\ Answers # {}
  /\ HasVideo \in BOOLEAN

Sentences == DOMAIN Text
None  == 0
Video == 0      \* in queue: the play event of the video
NoSpeech == <<>>

VARIABLES
  view,  \* what is on screen
  media, \* speech, recorders, recognition, recording players, video
  queue, \* play events of players that have not been handled
  passed \* the sentences passed or skipped in Learn mode

vars == <<view, media, queue, passed>>

(***************************************************************************)
(* The view: the lesson is open; its mode; the sentence shown one at a     *)
(* time (None: all of them); the Learn preference and the pronunciation    *)
(* check.  Each combination mounts components of its own: a                *)
(* SentenceShadowing per sentence shown, or one ShadowGate.                *)
(***************************************************************************)
LearnOn(v)   == v.learn /\ v.check
Shadowing(v) ==
  {s \in Sentences : v.open /\ v.mode = "shadow" /\
     (v.guided = None \/ (v.guided = s /\ ~LearnOn(v)))}
Gate(v) == {s \in Sentences : v.open /\ v.mode = "shadow" /\ v.guided = s /\ LearnOn(v)}
Quizzes(v) == {s \in Sentences : v.open /\ v.mode # "shadow"}
Speakers(v) == Shadowing(v) \cup Gate(v)

Listening(s) == media.check[s] = "listening"
\* mutant of Locked: the last sentence locks too
LockedAlways == view.guided \notin passed
Locked == view.guided \notin passed /\ view.guided # Len(Text)

(***************************************************************************)
(* The media.  A recorder waits for the microphone ("requesting", or       *)
(* "cancelled" once stopped meanwhile), records, and has stopped until its *)
(* stop event makes the clip ("stopping"); orphans are the requests of     *)
(* recorders that were unmounted, -s in activeStop the stop of one.  A     *)
(* recorder that has a clip or failed, and a check that failed, may start  *)
(* again: they are "idle".                                                 *)
(***************************************************************************)
QuietMedia ==
  [speech |-> NoSpeech, looping |-> None, rec |-> [s \in Sentences |-> "idle"], orphans |-> {},
   activeStop |-> None, active |-> None, check |-> [s \in Sentences |-> "idle"],
   clips |-> {}, audios |-> {}, player |-> "none", playing |-> FALSE]

\* speak: supersedes the current utterance, whose events stay silent.
Speak(m, s, kind) == [m EXCEPT !.speech = <<s, kind>>]
StopSpeaking(m)   == [m EXCEPT !.speech = NoSpeech]

\* abortActiveRecognition: the promise rejects with an AbortError at once, so
\* the component that listened is idle again.
AbortRecognition(m) ==
  [m EXCEPT !.check = [s \in Sentences |-> IF s = m.active THEN "idle" ELSE @[s]], !.active = None]

\* mutant of Stopped: a request is not cancelled
StoppedRecording(state) == IF state = "recording" THEN "stopping" ELSE state
\* stop of startRecording: cancels a request, or stops the recorder.
Stopped(state) ==
  CASE state = "requesting" -> "cancelled"
    [] state = "recording"  -> "stopping"
    [] OTHER                -> state
StopActiveRecording(m) ==
  IF m.activeStop \in Sentences THEN [m EXCEPT !.rec[m.activeStop] = Stopped(@)] ELSE m

\* mutant of Release: whoever's stop it is
ReleaseAny(m, stop) == [m EXCEPT !.activeStop = None]
\* release: only if the active stop is still this recorder's.
Release(m, stop) == [m EXCEPT !.activeStop = IF @ = stop THEN None ELSE @]

\* pauseClip: does nothing before the player is ready, and nothing plays then.
PauseClip(m) == [m EXCEPT !.playing = FALSE]

\* stopMedia with its options, after onStop has cleared the loop.
StopMedia(m, keepVideo, keepAudio) ==
  LET quiet == StopActiveRecording(AbortRecognition(StopSpeaking(
                 [m EXCEPT !.looping = None, !.audios = @ \cap keepAudio])))
  IN IF keepVideo THEN quiet ELSE PauseClip(quiet)

\* mutant of Unmount: the recognition goes on
UnmountListening(m, gone) ==
  [m EXCEPT !.rec = [s \in Sentences |-> IF s \in gone THEN "idle" ELSE @[s]],
            !.activeStop = IF @ \in gone THEN None ELSE @, !.clips = @ \ gone, !.audios = @ \ gone]
(***************************************************************************)
(* The cleanups of the components of the sentences in gone: the recorder   *)
(* stops and lets go of the microphone, a request in flight is orphaned,   *)
(* the recognition is aborted, the player pauses and the clip is revoked,  *)
(* and a loop falls silent though it stays pressed.  The stop event of an  *)
(* unmounted recorder only releases its stop, so the release is here.      *)
(***************************************************************************)
Unmount(m, gone) ==
  LET asking == {s \in gone : m.rec[s] \in {"requesting", "cancelled"}} IN
  [m EXCEPT
     !.rec = [s \in Sentences |-> IF s \in gone THEN "idle" ELSE @[s]],
     !.orphans = @ \cup asking,
     !.activeStop = IF @ \in asking THEN -@ ELSE IF @ \in gone THEN None ELSE @,
     !.check = [s \in Sentences |-> IF s \in gone THEN "idle" ELSE @[s]],
     !.active = IF @ \in gone THEN None ELSE @,
     !.clips = @ \ gone, !.audios = @ \ gone,
     !.speech = IF @ \in gone \X {"loop"} THEN NoSpeech ELSE @]

\* A mounted SentenceShadowing whose loop is pressed starts to speak.
Mount(m, shown) == IF m.looping \in shown THEN Speak(m, m.looping, "loop") ELSE m

\* The view changes to v, from media m.
Show(v, m) ==
  /\ view' = v
  /\ media' = Mount(Unmount(m, Speakers(view)), Shadowing(v))
  /\ queue' = queue \ Speakers(view)

Init ==
  /\ view \in [open : {TRUE}, mode : {"shadow"}, guided : {None}, learn : BOOLEAN, check : BOOLEAN]
  /\ media = QuietMedia
  /\ queue = {}
  /\ passed \in SUBSET Sentences

-----------------------------------------------------------------------------
(* Views. *)

\* Lesson mode: leaves the one-at-a-time view and keeps the video.
ChooseMode(mode) ==
  /\ view.open /\ mode # view.mode
  /\ Show([view EXCEPT !.mode = mode, !.guided = None], StopMedia(media, TRUE, {}))
  /\ UNCHANGED passed

OneAtATime ==
  /\ view.open /\ view.mode = "shadow"
  /\ Show([view EXCEPT !.guided = IF @ = None THEN 1 ELSE None], StopMedia(media, TRUE, {}))
  /\ UNCHANGED passed

\* Free or Learn, offered while the check is on: nothing is stopped but by the
\* cleanups of what leaves the screen.
SetLearn ==
  /\ view.open /\ view.guided # None /\ view.check
  /\ Show([view EXCEPT !.learn = ~@], media)
  /\ UNCHANGED passed

(***************************************************************************)
(* Pronunciation check, in the Display menu (enabled through the           *)
(* disclosure).  Where it switches Learn mode, the view changes; where it  *)
(* does not, turning it off only resets the checks.                        *)
(***************************************************************************)
SetCheck ==
  LET v == [view EXCEPT !.check = ~@] IN
  /\ view.open /\ view.mode = "shadow"
  /\ IF Shadowing(v) # Shadowing(view) THEN Show(v, media)
     ELSE /\ view' = v
          /\ media' = IF view.check
                      THEN [AbortRecognition(media) EXCEPT !.check = [s \in Sentences |-> "idle"]]
                      ELSE media
          /\ UNCHANGED queue
  /\ UNCHANGED passed

\* go and onOpen: the media stop, and the other sentence's card is mounted.
StepTo(i) == Show([view EXCEPT !.guided = i], StopMedia(media, FALSE, {}))

\* Previous and Next under a card shown alone.
Step(i) ==
  /\ view.open /\ view.guided # None /\ ~LearnOn(view)
  /\ i \in {view.guided - 1, view.guided + 1}
  /\ StepTo(i)
  /\ UNCHANGED passed

\* Those of the gate: Next waits until the sentence has passed.
GatePrevious ==
  /\ Gate(view) # {} /\ view.guided > 1
  /\ StepTo(view.guided - 1)
  /\ UNCHANGED passed

GateNext ==
  /\ Gate(view) # {} /\ ~Locked /\ view.guided < Len(Text)
  /\ StepTo(view.guided + 1)
  /\ UNCHANGED passed

\* A line of the Learn transcript: every sentence before it has passed, or it
\* comes before the current one.
OpenLine(i) ==
  /\ Gate(view) # {} /\ i # view.guided
  /\ i < view.guided \/ 1..i - 1 \subseteq passed
  /\ StepTo(i)
  /\ UNCHANGED passed

\* Skip passes the locked sentence and goes on; LearnProgress counts the skips.
Skip ==
  /\ Gate(view) # {} /\ Locked
  /\ StepTo(view.guided + 1)
  /\ passed' = passed \cup {view.guided}

\* Back to lessons: everything is unmounted, the player is destroyed.
Leave ==
  /\ view.open
  /\ LET v == [view EXCEPT !.open = FALSE, !.mode = "shadow", !.guided = None]
         m == Unmount(media, Speakers(view))
     IN /\ view' = v
        /\ media' = [StopSpeaking(m) EXCEPT !.looping = None, !.player = "none", !.playing = FALSE]
        /\ queue' = {}
  /\ UNCHANGED passed

\* The lesson is opened again.
Reopen ==
  /\ ~view.open
  /\ view' = [view EXCEPT !.open = TRUE]
  /\ UNCHANGED <<media, queue, passed>>

-----------------------------------------------------------------------------
(* Speech. *)

Listen(s) ==
  /\ s \in Shadowing(view) /\ ~Listening(s)
  /\ media' = Speak(StopMedia(media, FALSE, {}), s, "once")
  /\ UNCHANGED <<view, queue, passed>>

\* Listen and Listen slowly of the gate.
GateListen(s) ==
  /\ s \in Gate(view) /\ ~Listening(s)
  /\ media' = Speak(StopMedia(media, FALSE, {}), s, "once")
  /\ UNCHANGED <<view, queue, passed>>

\* Play of a quiz, and Hear word of a word panel or of a checked answer.
Hear(s) ==
  /\ s \in Speakers(view) \cup Quizzes(view)
  /\ media' = Speak(StopMedia(media, FALSE, {}), s, "once")
  /\ UNCHANGED <<view, queue, passed>>

Loop(s) ==
  /\ s \in Shadowing(view) /\ ~Listening(s)
  /\ LET quiet == StopMedia(media, FALSE, {}) IN
     media' = IF media.looping = s THEN quiet
              ELSE Speak([quiet EXCEPT !.looping = s], s, "loop")
  /\ UNCHANGED <<view, queue, passed>>

\* Compare speaks the sentence and then plays the learner's recording.
Compare(s) ==
  /\ s \in Shadowing(view) /\ s \in media.clips /\ ~Listening(s)
  /\ media' = Speak(StopMedia(media, FALSE, {}), s, "compare")
  /\ UNCHANGED <<view, queue, passed>>

\* The current utterance ends or fails: a loop repeats (a failing one is let
\* go), Compare plays the recording unless its player is gone or blocked.
SpeechEnds ==
  /\ media.speech # NoSpeech
  /\ LET s == media.speech[1]  kind == media.speech[2]
         silent == StopSpeaking(media)
     IN \/ kind = "once" /\ media' = silent /\ UNCHANGED queue
        \/ kind = "loop" /\ media' \in {Speak(media, s, "loop"), [silent EXCEPT !.looping = None]}
                         /\ UNCHANGED queue
        \/ kind = "compare" /\ s \in media.clips
             /\ media' = [silent EXCEPT !.audios = @ \cup {s}] /\ queue' = queue \cup {s}
        \/ kind = "compare" /\ media' = silent /\ UNCHANGED queue
  /\ UNCHANGED <<view, passed>>

-----------------------------------------------------------------------------
(* The recorder and the player of the recording. *)

\* Record; bound: not again while an orphaned request of the sentence waits.
Record(s) ==
  /\ s \in Shadowing(view) /\ s \notin media.orphans
  /\ media.rec[s] = "idle"
  /\ media' = [StopMedia(media, FALSE, {}) EXCEPT !.rec[s] = "requesting", !.activeStop = s]
  /\ UNCHANGED <<view, queue, passed>>

\* Stop, the same button while it records.
StopRecording(s) ==
  /\ s \in Shadowing(view) /\ media.rec[s] = "recording"
  /\ media' = [media EXCEPT !.rec[s] = "stopping"]
  /\ UNCHANGED <<view, queue, passed>>

\* getUserMedia gives the stream: it is stopped at once if the request was
\* cancelled meanwhile.
Granted(s) ==
  \/ /\ media.rec[s] = "requesting"
     /\ media' = [media EXCEPT !.rec[s] = "recording"]
     /\ UNCHANGED <<view, queue, passed>>
  \/ /\ media.rec[s] = "cancelled"
     /\ media' = [Release(media, s) EXCEPT !.rec[s] = "idle"]
     /\ UNCHANGED <<view, queue, passed>>

Denied(s) ==
  /\ media.rec[s] \in {"requesting", "cancelled"}
  /\ media' = [Release(media, s) EXCEPT !.rec[s] = "idle"]
  /\ UNCHANGED <<view, queue, passed>>

\* The answer to a request whose recorder is gone: the stream is stopped.
OrphanAnswered(s) ==
  /\ s \in media.orphans
  /\ media' = [Release(media, -s) EXCEPT !.orphans = @ \ {s}]
  /\ UNCHANGED <<view, queue, passed>>

\* onstop: the clip replaces the last one, whose player pauses; it may also
\* fail to be made.
RecorderStops(s) ==
  /\ media.rec[s] = "stopping"
  /\ LET m == [Release(media, s) EXCEPT !.rec[s] = "idle"] IN
     media' \in {m, [m EXCEPT !.clips = @ \cup {s}, !.audios = @ \ {s}]}
  /\ UNCHANGED <<view, queue, passed>>

\* The learner presses play on a recording, whose event is still to come.
PlayAudio(s) ==
  /\ s \in media.clips \ media.audios
  /\ media' = [media EXCEPT !.audios = @ \cup {s}]
  /\ queue' = queue \cup {s}
  /\ UNCHANGED <<view, passed>>

OnPlay(s) ==
  /\ s \in queue \ {Video}
  /\ media' = StopMedia(media, FALSE, {s})
  /\ queue' = queue \ {s}
  /\ UNCHANGED <<view, passed>>

AudioEnds(s) ==
  /\ s \in media.audios
  /\ media' = [media EXCEPT !.audios = @ \ {s}]
  /\ UNCHANGED <<view, queue, passed>>

-----------------------------------------------------------------------------
(* Recognition. *)

CheckPronunciation(s) ==
  /\ s \in Shadowing(view) /\ view.check /\ ~(view.learn /\ view.guided # None)
  /\ ~Listening(s)
  /\ media' = [StopMedia(media, FALSE, {}) EXCEPT !.check[s] = "listening", !.active = s]
  /\ UNCHANGED <<view, queue, passed>>

\* The gate's Say the sentence, which a result takes the place of.
SayIt(s) ==
  /\ s \in Gate(view) /\ media.check[s] = "idle"
  /\ media' = [StopMedia(media, FALSE, {}) EXCEPT !.check[s] = "listening", !.active = s]
  /\ UNCHANGED <<view, queue, passed>>

\* The recognition hears something; the gate passes the sentence on its score.
Heard(given) ==
  /\ media.active # None
  /\ LET s == media.active IN
     /\ media' = [media EXCEPT !.active = None, !.check[s] = "heard"]
     /\ passed' = IF s \in Gate(view) /\ given # <<>> /\ Passed(given, Text[s])
                  THEN passed \cup {s} ELSE passed
  /\ UNCHANGED <<view, queue>>

\* It fails, or ends without a word: a message, and the check may be repeated.
NotHeard ==
  /\ media.active # None
  /\ media' = [media EXCEPT !.active = None, !.check[media.active] = "idle"]
  /\ UNCHANGED <<view, queue, passed>>

TryAgain(s) ==
  /\ s \in Speakers(view) /\ media.check[s] = "heard"
  /\ media' = [media EXCEPT !.check[s] = "idle"]
  /\ UNCHANGED <<view, queue, passed>>

\* Type it instead: every word right passes the sentence.
TypeInstead(given) ==
  /\ Gate(view) # {} /\ view.guided \notin passed /\ AllCorrect(given, Text[view.guided])
  /\ passed' = passed \cup {view.guided}
  /\ UNCHANGED <<view, media, queue>>

-----------------------------------------------------------------------------
(* The video. *)

\* onReady, also after the player was given up as too late.
PlayerReady ==
  /\ HasVideo /\ view.open /\ media.player = "none"
  /\ media' = [media EXCEPT !.player = "ready"]
  /\ UNCHANGED <<view, queue, passed>>

\* onError: Play clip is off, the player's own controls are not.
PlayerFails ==
  /\ media.player = "ready"
  /\ media' = [media EXCEPT !.player = "failed"]
  /\ UNCHANGED <<view, queue, passed>>

\* Play clip: plays from the cue on; ClipEnds is the poll for the cue's end.
PlayClip(s) ==
  /\ s \in Shadowing(view) \cup Quizzes(view) /\ media.player = "ready"
  /\ media' = [StopMedia(media, TRUE, {}) EXCEPT !.playing = TRUE]
  /\ queue' = queue \cup {Video}
  /\ UNCHANGED <<view, passed>>

\* The learner starts the video with its own controls, or pauses it there.
PressPlayer ==
  /\ media.player # "none"
  /\ media' = [media EXCEPT !.playing = ~@]
  /\ queue' = IF media.playing THEN queue ELSE queue \cup {Video}
  /\ UNCHANGED <<view, passed>>

\* The PLAYING state arrives from the frame: what else was on is stopped.
OnStateChange ==
  /\ Video \in queue
  /\ media' = StopMedia(media, TRUE, {})
  /\ queue' = queue \ {Video}
  /\ UNCHANGED <<view, passed>>

\* A video paused before it played never says so.
PlayDropped ==
  /\ Video \in queue /\ ~media.playing
  /\ queue' = queue \ {Video}
  /\ UNCHANGED <<view, media, passed>>

\* The poll finds the clip's end, or the video ends by itself.
ClipEnds ==
  /\ media.playing /\ Video \notin queue
  /\ media' = [media EXCEPT !.playing = FALSE]
  /\ UNCHANGED <<view, queue, passed>>

-----------------------------------------------------------------------------

Press ==
  \/ \E mode \in {"shadow", "dictation", "blank"} : ChooseMode(mode)
  \/ OneAtATime \/ SetLearn \/ SetCheck \/ GatePrevious \/ GateNext \/ Skip \/ Leave \/ Reopen \/ PressPlayer
  \/ \E s \in Sentences :
       \/ Step(s) \/ OpenLine(s)
       \/ Listen(s) \/ GateListen(s) \/ Hear(s) \/ Loop(s) \/ Compare(s)
       \/ Record(s) \/ StopRecording(s) \/ PlayAudio(s)
       \/ CheckPronunciation(s) \/ SayIt(s) \/ TryAgain(s) \/ PlayClip(s)
  \/ \E given \in Answers : TypeInstead(given)

Browser ==
  \/ SpeechEnds \/ NotHeard \/ \E given \in Answers : Heard(given)
  \/ PlayerReady \/ PlayerFails \/ OnStateChange \/ PlayDropped \/ ClipEnds
  \/ \E s \in Sentences :
       Granted(s) \/ Denied(s) \/ OrphanAnswered(s) \/ RecorderStops(s) \/ OnPlay(s) \/ AudioEnds(s)

Next == Press \/ Browser

Spec == Init /\ [][Next]_vars

-----------------------------------------------------------------------------

TypeOK ==
  /\ view \in [open : BOOLEAN, mode : {"shadow", "dictation", "blank"}, guided : Sentences \cup {None},
              learn : BOOLEAN, check : BOOLEAN]
  /\ media \in [speech : {NoSpeech} \cup (Sentences \X {"once", "loop", "compare"}),
               looping : Sentences \cup {None},
               rec : [Sentences -> {"idle", "requesting", "cancelled", "recording", "stopping"}],
               orphans : SUBSET Sentences, activeStop : {None} \cup Sentences \cup {-s : s \in Sentences},
               active : Sentences \cup {None}, check : [Sentences -> {"idle", "listening", "heard"}],
               clips : SUBSET Sentences, audios : SUBSET Sentences,
               player : {"none", "ready", "failed"}, playing : BOOLEAN]
  /\ queue \subseteq Sentences \cup {Video}
  /\ passed \subseteq Sentences

(***************************************************************************)
(* Whatever is on belongs to a control on screen that shows it and can     *)
(* stop it: a recording or a request to its recorder, whose stop is the    *)
(* active one (so that stopMedia reaches it); a recognition to the         *)
(* component that shows Listening; the learner's recording to its player;  *)
(* a loop to its pressed button, and a pressed one on screen is speaking.  *)
(* Once the page is left nothing is on.                                    *)
(***************************************************************************)
MediaBelongToView ==
  /\ \A s \in Sentences :
       /\ media.rec[s] # "idle" => s \in Shadowing(view)
       /\ media.rec[s] \in {"requesting", "recording"} => media.activeStop = s
       /\ Listening(s) <=> media.active = s
       /\ s \in media.audios => s \in media.clips
       /\ s \in media.clips => s \in Shadowing(view)
       /\ media.looping = s /\ s \in Shadowing(view) <=> media.speech = <<s, "loop">>
  /\ media.active # None => media.active \in Speakers(view)
  /\ ~view.open => media.speech = NoSpeech /\ ~media.playing

On ==
  {"recorder"} \X {s \in Sentences : media.rec[s] \in {"requesting", "recording"}}
    \cup {"audio"} \X media.audios
    \cup {"recognition"} \X ({media.active} \ {None})
    \cup (IF media.speech = NoSpeech THEN {} ELSE {<<"speech", media.speech[1]>>})
    \cup (IF media.playing THEN {<<"video", Video>>} ELSE {})
Pending ==
  {"audio"} \X (queue \ {Video}) \cup {"video"} \X (queue \cap {Video})

Promise == INSTANCE PracticeMedia WITH on <- On, pending <- Pending

\* "One practice medium at a time: starting reference speech, the video, a
\* recording or a pronunciation check first stops the others, in every
\* sentence" (usePracticeMedia): the page implements PracticeMedia.
OneMediumAtATime == Promise!Spec
=============================================================================
