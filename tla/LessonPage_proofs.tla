------------------------- MODULE LessonPage_proofs -------------------------
(***************************************************************************)
(* The media of the lesson page, for every lesson text: the module's type  *)
(* invariant, that whatever is on belongs to a control on screen, and that *)
(* the page implements PracticeMedia.  PInv is the inductive invariant.    *)
(* It strengthens MediaBelongToView by LoopAlone: a speaker loops only     *)
(* with every other medium stopped, or its play event still to come, which *)
(* is why the speech that a loop starts by itself, with no stopMedia, does *)
(* not overlap another.  Each lemma below on an action shows Goal: the     *)
(* invariant again, and a step of PracticeMedia or none.                   *)
(***************************************************************************)
EXTENDS LessonPage, TLAPS

States == {"idle", "requesting", "cancelled", "recording", "stopping"}
Checks == {"idle", "listening", "heard"}
Kinds  == {"once", "loop", "compare"}
Stops  == {None} \cup Sentences \cup {-s : s \in Sentences}
View   == [open : BOOLEAN, mode : {"shadow", "dictation", "blank"}, guided : Sentences \cup {None},
           learn : BOOLEAN, check : BOOLEAN]
Media  == [speech : {NoSpeech} \cup (Sentences \X Kinds), looping : Sentences \cup {None},
           rec : [Sentences -> States], orphans : SUBSET Sentences, activeStop : Stops,
           active : Sentences \cup {None}, check : [Sentences -> Checks],
           clips : SUBSET Sentences, audios : SUBSET Sentences,
           player : {"none", "ready", "failed"}, playing : BOOLEAN]

\* The sentences whose recorder has the microphone or has asked for it.
Busy(m) == {s \in Sentences : m.rec[s] \in {"requesting", "recording"}}

\* The media m belong to the view v.
Sound(v, m) ==
  /\ \A s \in Sentences :
       /\ m.rec[s] # "idle" => s \in Shadowing(v)
       /\ m.rec[s] \in {"requesting", "recording"} => m.activeStop = s
       /\ m.check[s] = "listening" <=> m.active = s
       /\ m.looping = s /\ s \in Shadowing(v) <=> m.speech = <<s, "loop">>
  /\ m.audios \subseteq m.clips /\ m.clips \subseteq Shadowing(v)
  /\ m.active # None => m.active \in Speakers(v)
  /\ m.player # "none" => v.open
  /\ m.playing => m.player # "none"
  /\ ~v.open => m.speech = NoSpeech /\ m.looping = None

\* A pressed loop is alone, but for media whose play event is still to come.
LoopAlone(m, q) ==
  m.looping # None =>
    /\ Busy(m) = {} /\ m.active = None
    /\ m.audios \subseteq q /\ (m.playing => Video \in q)
    /\ m.speech \in {NoSpeech, <<m.looping, "loop">>}

Queue == SUBSET (Sentences \cup {Video})

PInv ==
  /\ view \in View /\ media \in Media /\ queue \in Queue /\ passed \in SUBSET Sentences
  /\ Sound(view, media) /\ LoopAlone(media, queue)

\* On and Pending, of given media and events.
OnOf(m) ==
  {"recorder"} \X Busy(m)
    \cup {"audio"} \X m.audios
    \cup {"recognition"} \X ({m.active} \ {None})
    \cup (IF m.speech = NoSpeech THEN {} ELSE {<<"speech", m.speech[1]>>})
    \cup (IF m.playing THEN {<<"video", Video>>} ELSE {})
PendingOf(q) == {"audio"} \X (q \ {Video}) \cup {"video"} \X (q \cap {Video})

\* Nothing is on in n that is not on in m.
Fewer(m, n) ==
  /\ Busy(n) \subseteq Busy(m) /\ n.audios \subseteq m.audios /\ n.active \in {None, m.active}
  /\ n.speech # NoSpeech => m.speech # NoSpeech /\ n.speech[1] = m.speech[1]
  /\ n.playing => m.playing

\* The sentences are numbered from 1, so None is not one of them.
LEMMA SentencesNat == Sentences \subseteq Nat \ {0} /\ 1 \in Sentences /\ Sentences = 1..Len(Text) /\ Len(Text) \in Nat
BY LessonAssumption DEF Sentences

\* What speak writes.
LEMMA SpeakFields ==
  ASSUME NEW m \in Media, NEW s \in Sentences, NEW kind \in Kinds
  PROVE  /\ Speak(m, s, kind) \in Media
         /\ Speak(m, s, kind).speech = <<s, kind>>
         /\ Speak(m, s, kind) = [m EXCEPT !.speech = <<s, kind>>]
BY DEF Speak, Media

\* What abortRecognition writes.
LEMMA AbortFields ==
  ASSUME NEW m \in Media
  PROVE  LET q == AbortRecognition(m) IN
         /\ q \in Media /\ q.active = None
         /\ \A s \in Sentences : q.check[s] = IF s = m.active THEN "idle" ELSE m.check[s]
         /\ q.speech = m.speech /\ q.looping = m.looping /\ q.rec = m.rec /\ q.orphans = m.orphans /\ q.activeStop = m.activeStop /\ q.clips = m.clips /\ q.audios = m.audios /\ q.player = m.player /\ q.playing = m.playing
<1> DEFINE check == [s \in Sentences |-> IF s = m.active THEN "idle" ELSE m.check[s]]
<1>1. check \in [Sentences -> Checks] /\ \A s \in Sentences : check[s] = IF s = m.active THEN "idle" ELSE m.check[s]
  BY DEF Media, Checks
<1>2. AbortRecognition(m) = [m EXCEPT !.check = check, !.active = None] 
  BY DEF AbortRecognition, Media
<1> HIDE DEF check
<1>3. QED
  BY <1>1, <1>2 DEF Media

\* What stopActiveRecording writes.
LEMMA StopRecordingFields ==
  ASSUME NEW m \in Media
  PROVE  LET q == StopActiveRecording(m) IN
         /\ q \in Media
         /\ \A s \in Sentences : q.rec[s] = IF s = m.activeStop THEN Stopped(m.rec[s]) ELSE m.rec[s]
         /\ q.speech = m.speech /\ q.looping = m.looping /\ q.orphans = m.orphans /\ q.activeStop = m.activeStop /\ q.active = m.active /\ q.check = m.check /\ q.clips = m.clips /\ q.audios = m.audios /\ q.player = m.player /\ q.playing = m.playing
<1>1. \A state \in States : Stopped(state) \in States
  BY DEF States, Stopped
<1>2. CASE m.activeStop \in Sentences
  BY <1>1, <1>2 DEF StopActiveRecording, Media
<1>3. CASE m.activeStop \notin Sentences
  BY <1>3 DEF StopActiveRecording, Media
<1>4. QED
  BY <1>2, <1>3

\* q is m with the media stopped.
Quieted(m, keepVideo, keepAudio, q) ==
  /\ q \in Media
  /\ q.speech = NoSpeech /\ q.looping = None /\ q.active = None
  /\ q.audios = m.audios \cap keepAudio
  /\ q.playing = IF keepVideo THEN m.playing ELSE FALSE
  /\ \A s \in Sentences : q.check[s] = IF s = m.active THEN "idle" ELSE m.check[s]
  /\ \A s \in Sentences : q.rec[s] = IF s = m.activeStop THEN Stopped(m.rec[s]) ELSE m.rec[s]
  /\ q.orphans = m.orphans /\ q.activeStop = m.activeStop /\ q.clips = m.clips /\ q.player = m.player

\* stopMedia quiets everything but what it is told to keep.
LEMMA StopFields ==
  ASSUME NEW m \in Media, NEW keepVideo \in BOOLEAN, NEW keepAudio \in SUBSET Sentences
  PROVE  Quieted(m, keepVideo, keepAudio, StopMedia(m, keepVideo, keepAudio))
<1> DEFINE a == [m EXCEPT !.looping = None, !.audios = @ \cap keepAudio]
           b == StopSpeaking(a)
           c == AbortRecognition(b)
           d == StopActiveRecording(c)
<1>1. /\ b \in Media /\ b.speech = NoSpeech /\ b.looping = None /\ b.audios = m.audios \cap keepAudio
      /\ b.rec = m.rec /\ b.orphans = m.orphans /\ b.activeStop = m.activeStop /\ b.active = m.active
      /\ b.check = m.check /\ b.clips = m.clips /\ b.player = m.player /\ b.playing = m.playing
  BY DEF StopSpeaking, Media
<1> HIDE DEF b
<1>2. /\ c \in Media /\ c.active = None
      /\ \A s \in Sentences : c.check[s] = IF s = b.active THEN "idle" ELSE b.check[s]
      /\ c.speech = b.speech /\ c.looping = b.looping /\ c.rec = b.rec /\ c.orphans = b.orphans
      /\ c.activeStop = b.activeStop /\ c.clips = b.clips /\ c.audios = b.audios /\ c.player = b.player
      /\ c.playing = b.playing
  BY <1>1, AbortFields
<1> HIDE DEF c
<1>3. /\ d \in Media
      /\ \A s \in Sentences : d.rec[s] = IF s = c.activeStop THEN Stopped(c.rec[s]) ELSE c.rec[s]
      /\ d.speech = c.speech /\ d.looping = c.looping /\ d.orphans = c.orphans /\ d.active = c.active
      /\ d.check = c.check /\ d.activeStop = c.activeStop /\ d.clips = c.clips /\ d.audios = c.audios
      /\ d.player = c.player /\ d.playing = c.playing
  BY <1>2, StopRecordingFields
<1> HIDE DEF d
<1>4. StopMedia(m, keepVideo, keepAudio) = IF keepVideo THEN d ELSE PauseClip(d)
  BY DEF StopMedia, d, c, b
<1>5. CASE keepVideo
  BY <1>1, <1>2, <1>3, <1>4, <1>5 DEF Quieted
<1>6. CASE ~keepVideo
  <2>1. StopMedia(m, keepVideo, keepAudio) = [d EXCEPT !.playing = FALSE]
    BY <1>4, <1>6 DEF PauseClip
  <2> DEFINE e == [d EXCEPT !.playing = FALSE]
  <2>2. /\ e \in Media /\ e.playing = FALSE
        /\ e.speech = d.speech /\ e.looping = d.looping /\ e.rec = d.rec /\ e.orphans = d.orphans
        /\ e.activeStop = d.activeStop /\ e.active = d.active /\ e.check = d.check /\ e.clips = d.clips
        /\ e.audios = d.audios /\ e.player = d.player
    BY <1>3 DEF Media
  <2> HIDE DEF e
  <2>3. QED
    BY <1>1, <1>2, <1>3, <1>6, <2>1, <2>2 DEF e, Quieted
<1>7. QED
  BY <1>5, <1>6

\* What unmounting some components writes.
LEMMA UnmountFields ==
  ASSUME NEW m \in Media, NEW gone \in SUBSET Sentences
  PROVE  LET q == Unmount(m, gone) IN
         /\ q \in Media
         /\ \A s \in Sentences : q.rec[s] = IF s \in gone THEN "idle" ELSE m.rec[s]
         /\ \A s \in Sentences : q.check[s] = IF s \in gone THEN "idle" ELSE m.check[s]
         /\ q.active = IF m.active \in gone THEN None ELSE m.active
         /\ q.clips = m.clips \ gone /\ q.audios = m.audios \ gone
         /\ q.speech = IF m.speech \in gone \X {"loop"} THEN NoSpeech ELSE m.speech
         /\ q.looping = m.looping /\ q.player = m.player /\ q.playing = m.playing
<1> DEFINE asking == {s \in gone : m.rec[s] \in {"requesting", "cancelled"}}
           rec    == [s \in Sentences |-> IF s \in gone THEN "idle" ELSE m.rec[s]]
           check  == [s \in Sentences |-> IF s \in gone THEN "idle" ELSE m.check[s]]
           stop   == IF m.activeStop \in asking THEN -m.activeStop ELSE IF m.activeStop \in gone THEN None ELSE m.activeStop
           orphans == m.orphans \cup asking
           active == IF m.active \in gone THEN None ELSE m.active
           speech == IF m.speech \in gone \X {"loop"} THEN NoSpeech ELSE m.speech
<1>1. rec \in [Sentences -> States] /\ \A s \in Sentences : rec[s] = IF s \in gone THEN "idle" ELSE m.rec[s]
  BY DEF Media, States
<1>2. check \in [Sentences -> Checks] /\ \A s \in Sentences : check[s] = IF s \in gone THEN "idle" ELSE m.check[s]
  BY DEF Media, Checks
<1>3. stop \in Stops
  BY DEF Media, Stops
<1>4. orphans \in SUBSET Sentences /\ active \in Sentences \cup {None}
  BY DEF Media
<1>5. speech \in {NoSpeech} \cup (Sentences \X Kinds)
  BY DEF Media
<1>6. Unmount(m, gone) = [m EXCEPT !.rec = rec, !.orphans = orphans, !.activeStop = stop, !.check = check,
                            !.active = active, !.clips = m.clips \ gone, !.audios = m.audios \ gone, !.speech = speech]
  BY DEF Unmount, Media
<1> HIDE DEF rec, check, stop, orphans, active, speech
<1> DEFINE u == [m EXCEPT !.rec = rec, !.orphans = orphans, !.activeStop = stop, !.check = check,
                            !.active = active, !.clips = m.clips \ gone, !.audios = m.audios \ gone, !.speech = speech]
<1>7. u \in Media
  BY <1>1, <1>2, <1>3, <1>4, <1>5 DEF Media
<1>8. u.rec = rec /\ u.check = check /\ u.active = active /\ u.clips = m.clips \ gone /\ u.audios = m.audios \ gone
      /\ u.speech = speech /\ u.looping = m.looping /\ u.player = m.player /\ u.playing = m.playing
  BY DEF Media
<1> HIDE DEF u
<1>9. Unmount(m, gone) = u
  BY <1>6 DEF u
<1>10. QED
  BY <1>1, <1>2, <1>7, <1>8, <1>9 DEF active, speech

\* On and Pending are those of the state.
LEMMA OnIs == On = OnOf(media) /\ On' = OnOf(media') /\ Pending = PendingOf(queue) /\ Pending' = PendingOf(queue')
BY DEF On, OnOf, Pending, PendingOf, Busy

\* Fewer media are fewer in On.
LEMMA FewerOn ==
  ASSUME NEW m \in Media, NEW n \in Media, Fewer(m, n)
  PROVE  OnOf(n) \subseteq OnOf(m)
BY DEF Fewer, OnOf

\* The play events that are left are kept with their media.
LEMMA KeptIf ==
  ASSUME NEW m \in Media, NEW q \in Queue, NEW r \in Queue,
         q \cap m.audios \subseteq r, Video \in q /\ m.playing => Video \in r
  PROVE  PendingOf(q) \cap OnOf(m) \subseteq PendingOf(r)
BY SentencesNat DEF OnOf, PendingOf, Queue, Media, Video

\* A player that starts adds its own play event.
LEMMA PendingGrows ==
  ASSUME NEW q \in Queue, NEW r \in Queue
  PROVE  /\ q \subseteq r => PendingOf(q) \subseteq PendingOf(r)
         /\ \A s \in Sentences : r = q \cup {s} => /\ PendingOf(r) \subseteq PendingOf(q) \cup {<<"audio", s>>}
                                                   /\ <<"audio", s>> \in PendingOf(r)
         /\ r = q \cup {Video} => /\ PendingOf(r) \subseteq PendingOf(q) \cup {<<"video", Video>>}
                                  /\ <<"video", Video>> \in PendingOf(r)
<1>1. q \subseteq r => PendingOf(q) \subseteq PendingOf(r)
  BY DEF PendingOf
<1>2. ASSUME NEW s \in Sentences, r = q \cup {s}
      PROVE  PendingOf(r) \subseteq PendingOf(q) \cup {<<"audio", s>>} /\ <<"audio", s>> \in PendingOf(r)
  <2>1. r \ {Video} = (q \ {Video}) \cup {s} /\ r \cap {Video} = q \cap {Video}
    BY <1>2, SentencesNat DEF Video
  <2>2. QED
    BY <2>1 DEF PendingOf
<1>3. ASSUME r = q \cup {Video}
      PROVE  PendingOf(r) \subseteq PendingOf(q) \cup {<<"video", Video>>} /\ <<"video", Video>> \in PendingOf(r)
  BY <1>3 DEF PendingOf
<1>4. QED
  BY <1>1, <1>2, <1>3

\* With fewer media on and their events kept, the step is a Stop.
LEMMA StopsOnly ==
  ASSUME media \in Media, media' \in Media, queue \in Queue, queue' \in Queue,
         Fewer(media, media'), queue' \subseteq queue, queue \cap media'.audios \subseteq queue',
         Video \in queue /\ media'.playing => Video \in queue'
  PROVE  Promise!Next
<1>1. On' \subseteq On
  BY OnIs, FewerOn
<1>2. Pending \cap On' \subseteq Pending'
  BY OnIs, KeptIf
<1>3. Pending' \subseteq Pending
  BY OnIs, PendingGrows
<1>4. QED
  BY <1>1, <1>2, <1>3 DEF Promise!Next, Promise!Stop, Promise!Kept

\* Stopping the media keeps them with their view.
LEMMA StopSound ==
  ASSUME NEW v \in View, NEW m \in Media, Sound(v, m), NEW keepVideo \in BOOLEAN, NEW keepAudio \in SUBSET Sentences
  PROVE  LET q == StopMedia(m, keepVideo, keepAudio) IN
         /\ q \in Media /\ Sound(v, q) /\ Fewer(m, q)
         /\ OnOf(q) = {"audio"} \X (m.audios \cap keepAudio)
                        \cup (IF keepVideo /\ m.playing THEN {<<"video", Video>>} ELSE {})
         /\ \A s \in Sentences : q.check[s] # "listening"
         /\ \A s \in Sentences : m.rec[s] = "idle" => q.rec[s] = "idle"
         /\ Busy(q) = {}
<1> DEFINE q == StopMedia(m, keepVideo, keepAudio)
<1> HIDE DEF q
<1>1. Quieted(m, keepVideo, keepAudio, q)
  BY StopFields DEF q
<1>2. \A s \in Sentences : q.rec[s] \notin {"requesting", "recording"}
  BY <1>1 DEF Quieted, Sound, Stopped
<1>3. Busy(q) = {}
  BY <1>2 DEF Busy
<1>4. \A s \in Sentences : m.rec[s] = "idle" => q.rec[s] = "idle"
  BY <1>1 DEF Quieted, Stopped
<1>5. \A s \in Sentences : q.check[s] # "listening"
  BY <1>1 DEF Quieted, Sound
<1>6. Fewer(m, q)
  BY <1>1, <1>3 DEF Quieted, Fewer
<1>7. OnOf(q) = {"audio"} \X (m.audios \cap keepAudio)
                        \cup (IF keepVideo /\ m.playing THEN {<<"video", Video>>} ELSE {})
  BY <1>1, <1>3 DEF Quieted, OnOf
<1>8. Sound(v, q)
  BY <1>1, <1>2, <1>4, <1>5, SentencesNat DEF Quieted, Sound, None, NoSpeech
<1>9. QED
  BY <1>1, <1>3, <1>4, <1>5, <1>6, <1>7, <1>8 DEF q, Quieted

\* The sentences on screen are those of the text, and the page is open.
LEMMA Speaking ==
  ASSUME NEW v \in View
  PROVE  /\ Shadowing(v) \subseteq Sentences /\ Speakers(v) \subseteq Sentences
         /\ Shadowing(v) \subseteq Speakers(v) /\ None \notin Speakers(v)
         /\ Gate(v) \subseteq Speakers(v)
         /\ Speakers(v) \cup Quizzes(v) # {} => v.open
         /\ ~v.open => Speakers(v) = {}
BY SentencesNat DEF Shadowing, Speakers, Gate, Quizzes, None, View

\* n is m with the media of another view in place of those of v.
Moved(v, w, m, n) ==
  /\ n \in Media
  /\ \A s \in Sentences : n.rec[s] = IF s \in Speakers(v) THEN "idle" ELSE m.rec[s]
  /\ \A s \in Sentences : n.check[s] = IF s \in Speakers(v) THEN "idle" ELSE m.check[s]
  /\ n.active = IF m.active \in Speakers(v) THEN None ELSE m.active
  /\ n.clips = m.clips \ Speakers(v) /\ n.audios = m.audios \ Speakers(v)
  /\ n.looping = m.looping /\ n.player = m.player /\ n.playing = m.playing
  /\ n.speech = IF m.looping \in Shadowing(w) THEN <<m.looping, "loop">>
                ELSE IF m.speech \in Speakers(v) \X {"loop"} THEN NoSpeech ELSE m.speech

\* What a change of view writes.
LEMMA MovedFields ==
  ASSUME NEW v \in View, NEW w \in View, NEW m \in Media
  PROVE  Moved(v, w, m, Mount(Unmount(m, Speakers(v)), Shadowing(w)))
<1> DEFINE u == Unmount(m, Speakers(v))
<1>0. Shadowing(w) \subseteq Sentences /\ Speakers(v) \in SUBSET Sentences
  BY Speaking
<1>1. /\ u \in Media
      /\ \A s \in Sentences : u.rec[s] = IF s \in Speakers(v) THEN "idle" ELSE m.rec[s]
      /\ \A s \in Sentences : u.check[s] = IF s \in Speakers(v) THEN "idle" ELSE m.check[s]
      /\ u.active = IF m.active \in Speakers(v) THEN None ELSE m.active
      /\ u.clips = m.clips \ Speakers(v) /\ u.audios = m.audios \ Speakers(v)
      /\ u.speech = IF m.speech \in Speakers(v) \X {"loop"} THEN NoSpeech ELSE m.speech
      /\ u.looping = m.looping /\ u.player = m.player /\ u.playing = m.playing
  BY <1>0, UnmountFields
<1> HIDE DEF u
<1>2. CASE m.looping \in Shadowing(w)
  <2> DEFINE n == [u EXCEPT !.speech = <<m.looping, "loop">>]
  <2>1. Mount(u, Shadowing(w)) = n
    BY <1>1, <1>2 DEF Mount, Speak
  <2>2. /\ n \in Media /\ n.speech = <<m.looping, "loop">>
        /\ n.rec = u.rec /\ n.check = u.check /\ n.active = u.active /\ n.clips = u.clips /\ n.audios = u.audios
        /\ n.looping = u.looping /\ n.player = u.player /\ n.playing = u.playing
    BY <1>0, <1>1, <1>2 DEF Media, Kinds
  <2> HIDE DEF n
  <2>3. QED
    BY <1>1, <1>2, <2>1, <2>2 DEF Moved, u
<1>3. CASE m.looping \notin Shadowing(w)
  <2>1. Mount(u, Shadowing(w)) = u
    BY <1>1, <1>3 DEF Mount
  <2>2. QED
    BY <1>1, <1>3, <2>1 DEF Moved, u
<1>4. QED
  BY <1>2, <1>3

\* A change of view leaves only what the new view shows.
LEMMA MovedSound ==
  ASSUME NEW v \in View, NEW w \in View, NEW m \in Media, NEW n, v.open, w.open, Sound(v, m), Moved(v, w, m, n)
  PROVE  /\ Sound(w, n) /\ Busy(n) = {} /\ n.audios = {} /\ n.active = None
<1>1. \A s \in Sentences : n.rec[s] = "idle"
  BY Speaking DEF Moved, Sound
<1>2. Busy(n) = {}
  BY <1>1 DEF Busy
<1>3. n.audios = {} /\ n.clips = {} /\ n.active = None
  BY Speaking DEF Moved, Sound
<1>4. \A s \in Sentences : n.check[s] # "listening"
  BY Speaking, SentencesNat DEF Moved, Sound, None
<1>5. \A s \in Sentences : n.looping = s /\ s \in Shadowing(w) <=> n.speech = <<s, "loop">>
  <2>1. CASE m.looping \in Shadowing(w)
    BY <2>1, Speaking DEF Moved
  <2>2. CASE m.looping \notin Shadowing(w)
    <3>1. n.speech = IF m.speech \in Speakers(v) \X {"loop"} THEN NoSpeech ELSE m.speech
      BY <2>2 DEF Moved
    <3>2. \A s \in Sentences : NoSpeech # <<s, "loop">>
      BY DEF NoSpeech
    <3>3. \A s \in Sentences : m.speech = <<s, "loop">> => m.speech \in Speakers(v) \X {"loop"}
      BY Speaking DEF Sound
    <3>4. \A s \in Sentences : n.speech # <<s, "loop">>
      BY <3>1, <3>2, <3>3
    <3>5. n.looping = m.looping
      BY DEF Moved
    <3>6. QED
      BY <2>2, <3>4, <3>5
  <2>3. QED
    BY <2>1, <2>2
<1>6. QED
  BY <1>1, <1>2, <1>3, <1>4, <1>5, SentencesNat DEF Sound, Moved, None

\* What every action is shown to do.
Goal == PInv' /\ [Promise!Next]_(Promise!vars)

\* Taking the events of some sentences leaves that of the video.
LEMMA QueueLeft ==
  queue \in Queue =>
    \A gone \in SUBSET Sentences : queue \ gone \in Queue /\ (Video \in queue => Video \in queue \ gone)
BY SentencesNat DEF Queue, Video

\* A change of view keeps the invariant, whatever it has stopped before (m).
LEMMA ShowKeepsPInv ==
  ASSUME PInv, NEW w \in View, view.open, w.open, passed' \in SUBSET Sentences,
         NEW m \in Media, Sound(view, m), LoopAlone(m, queue), Fewer(media, m), Show(w, m)
  PROVE  Goal
<1>0. view \in View /\ media \in Media /\ queue \in Queue
  BY DEF PInv
<1>1. view' = w /\ Moved(view, w, m, media')
  BY MovedFields, <1>0 DEF Show
<1>2. Sound(w, media') /\ Busy(media') = {} /\ media'.audios = {} /\ media'.active = None /\ media' \in Media
  BY MovedSound, <1>0, <1>1 DEF Moved
<1>3. queue' \in Queue /\ queue' \subseteq queue /\ (Video \in queue => Video \in queue')
  BY QueueLeft, Speaking, <1>0 DEF Show
<1>4. CASE m.looping \in Shadowing(w)
  <2>0. m.looping # None
    BY <1>4, Speaking
  <2>1. media'.speech = <<m.looping, "loop">> /\ media'.looping = m.looping /\ (media'.playing => Video \in queue /\ m.playing)
    BY <1>1, <1>4, <2>0 DEF Moved, LoopAlone
  <2> DEFINE x == <<"speech", m.looping>>
             video == IF media'.playing THEN {<<"video", Video>>} ELSE {}
  <2>2. OnOf(media') = {x} \cup video
    <3>1. media'.speech # NoSpeech /\ media'.speech[1] = m.looping
      BY <2>1 DEF NoSpeech
    <3>2. QED
      BY <1>2, <3>1 DEF OnOf
  <2>3. video \subseteq OnOf(media) \cap PendingOf(queue)
    BY <2>1 DEF OnOf, PendingOf, Fewer
  <2>4. PendingOf(queue) \cap OnOf(media') \subseteq PendingOf(queue') /\ PendingOf(queue') \subseteq PendingOf(queue)
    BY <1>0, <1>2, <1>3, KeptIf, PendingGrows
  <2>5. Promise!Start(x)
    BY <2>2, <2>3, <2>4, OnIs DEF Promise!Start, Promise!Kept
  <2>6. Promise!Next
    BY <2>2, <2>5, OnIs DEF Promise!Next
  <2>7. LoopAlone(media', queue')
    BY <1>2, <1>3, <2>1 DEF LoopAlone
  <2>8. QED
    BY <1>1, <1>2, <1>3, <2>6, <2>7 DEF Goal, PInv
<1>5. CASE m.looping \notin Shadowing(w)
  <2>1. media'.speech \in {NoSpeech, m.speech} /\ media'.playing = m.playing /\ media'.looping = m.looping
    BY <1>1, <1>5 DEF Moved
  <2>2. Fewer(media, media')
    BY <1>2, <2>1 DEF Fewer
  <2>3. Promise!Next
    BY <1>0, <1>2, <1>3, <2>2, StopsOnly
  <2>4. LoopAlone(media', queue')
    BY <1>2, <1>3, <2>1 DEF LoopAlone
  <2>5. QED
    BY <1>1, <1>2, <1>3, <2>3, <2>4 DEF Goal, PInv
<1>6. QED
  BY <1>4, <1>5

\* So does one that stops the media by stopMedia.
LEMMA StopShow ==
  ASSUME PInv, NEW w \in View, view.open, w.open, passed' \in SUBSET Sentences,
         NEW keepVideo \in BOOLEAN, Show(w, StopMedia(media, keepVideo, {}))
  PROVE  Goal
<1> DEFINE q == StopMedia(media, keepVideo, {})
<1>1. q \in Media /\ Sound(view, q) /\ Fewer(media, q)
  BY StopSound DEF PInv
<1>2. LoopAlone(q, queue)
  <2>1. Quieted(media, keepVideo, {}, q)
    BY StopFields DEF PInv
  <2>2. QED
    BY <2>1 DEF Quieted, LoopAlone
<1> HIDE DEF q
<1>3. QED
  BY <1>1, <1>2, ShowKeepsPInv DEF q

\* A step that changes no medium turns none on.
LEMMA FewerSelf == ASSUME NEW m \in Media PROVE Fewer(m, m)
BY DEF Fewer, Media

\* The actions that change the sentence or the way of practising.
LEMMA ChangeView ==
  PInv /\ ((\E mode \in {"shadow", "dictation", "blank"} : ChooseMode(mode)) \/ OneAtATime \/ GatePrevious
            \/ GateNext \/ Skip \/ \E s \in Sentences : Step(s) \/ OpenLine(s)) => Goal
<1> SUFFICES ASSUME PInv, (\E mode \in {"shadow", "dictation", "blank"} : ChooseMode(mode)) \/ OneAtATime \/ GatePrevious
            \/ GateNext \/ Skip \/ \E s \in Sentences : Step(s) \/ OpenLine(s)
            PROVE Goal
  OBVIOUS
<1>0. view \in View /\ passed \in SUBSET Sentences
  BY DEF PInv
<1>1. ASSUME NEW mode \in {"shadow", "dictation", "blank"}, ChooseMode(mode) PROVE Goal
  <2>1. [view EXCEPT !.mode = mode, !.guided = None] \in View /\ [view EXCEPT !.mode = mode, !.guided = None].open
    BY <1>0, <1>1 DEF View, ChooseMode
  <2>2. QED
    BY <1>0, <1>1, <2>1, StopShow DEF ChooseMode
<1>2. CASE OneAtATime
  <2>1. [view EXCEPT !.guided = IF @ = None THEN 1 ELSE None] \in View
        /\ [view EXCEPT !.guided = IF @ = None THEN 1 ELSE None].open
    BY <1>0, <1>2, SentencesNat DEF View, OneAtATime
  <2>2. QED
    BY <1>0, <1>2, <2>1, StopShow DEF OneAtATime
<1>3. ASSUME NEW i \in Sentences, view.open, StepTo(i), passed' \in SUBSET Sentences PROVE Goal
  <2>1. [view EXCEPT !.guided = i] \in View /\ [view EXCEPT !.guided = i].open
    BY <1>0, <1>3 DEF View
  <2>2. QED
    BY <1>3, <2>1, StopShow DEF StepTo
<1>4. Gate(view) # {} => view.open /\ view.guided \in Sentences
  BY DEF Gate
<1>5. CASE GatePrevious
  <2>1. view.guided - 1 \in Sentences
    BY <1>4, <1>5, SentencesNat DEF GatePrevious
  <2>2. QED
    BY <1>0, <1>3, <1>4, <1>5, <2>1 DEF GatePrevious
<1>6. CASE GateNext
  <2>1. view.guided + 1 \in Sentences
    BY <1>4, <1>6, SentencesNat DEF GateNext
  <2>2. QED
    BY <1>0, <1>3, <1>4, <1>6, <2>1 DEF GateNext
<1>7. CASE Skip
  <2>1. view.guided + 1 \in Sentences
    BY <1>4, <1>7, SentencesNat DEF Skip, Locked
  <2>2. passed' \in SUBSET Sentences
    BY <1>0, <1>4, <1>7 DEF Skip
  <2>3. QED
    BY <1>3, <1>4, <1>7, <2>1, <2>2 DEF Skip
<1>8. ASSUME NEW s \in Sentences, Step(s) \/ OpenLine(s) PROVE Goal
  <2>1. view.open /\ StepTo(s) /\ passed' = passed
    BY <1>4, <1>8 DEF Step, OpenLine
  <2>2. QED
    BY <1>0, <1>3, <2>1
<1>9. QED
  BY <1>1, <1>2, <1>5, <1>6, <1>7, <1>8

\* Learn mode and the check are switched on or off.
LEMMA SwitchLearn == PInv /\ (SetLearn \/ SetCheck) => Goal
<1> SUFFICES ASSUME PInv, SetLearn \/ SetCheck PROVE Goal
  OBVIOUS
<1>0. view \in View /\ passed \in SUBSET Sentences /\ media \in Media /\ Sound(view, media) /\ LoopAlone(media, queue)
      /\ Fewer(media, media) /\ queue \in Queue
  BY FewerSelf DEF PInv
<1>1. CASE SetLearn
  <2>1. [view EXCEPT !.learn = ~@] \in View /\ [view EXCEPT !.learn = ~@].open
    BY <1>0, <1>1 DEF View, SetLearn
  <2>2. QED
    BY <1>0, <1>1, <2>1, ShowKeepsPInv DEF SetLearn
<1>2. CASE SetCheck
  <2> DEFINE v == [view EXCEPT !.check = ~@]
  <2>1. v \in View /\ view.open /\ v.open
    BY <1>0, <1>2 DEF View, SetCheck
  <2>2. CASE Shadowing(v) # Shadowing(view)
    <3>1. Show(v, media) /\ passed' = passed
      BY <1>2, <2>2 DEF SetCheck
    <3> HIDE DEF v
    <3>2. QED
      BY <1>0, <2>1, <3>1, ShowKeepsPInv
  <2>3. CASE Shadowing(v) = Shadowing(view)
    <3>1. Speakers(v) = Speakers(view)
      <4>1. v.guided = view.guided /\ v.learn = view.learn /\ v.mode = view.mode /\ v.open = view.open /\ v.check = ~view.check
        BY <1>0 DEF View
      <4> HIDE DEF v
      <4>2. CASE view.guided = None \/ ~view.learn
        BY <2>3, <4>1, <4>2, SentencesNat DEF Speakers, Gate, LearnOn, None
      <4>3. CASE view.guided # None /\ view.learn
        <5>1. view.guided \in Sentences /\ view.mode = "shadow"
          BY <1>0, <1>2, <4>3 DEF View, SetCheck
        <5>2. view.guided \in Shadowing(v) <=> view.guided \notin Shadowing(view)
          BY <2>1, <4>1, <4>3, <5>1 DEF Shadowing, LearnOn
        <5>3. QED
          BY <2>3, <5>2
      <4>4. QED
        BY <4>2, <4>3
    <3>2. view' = v /\ queue' = queue /\ passed' = passed
          /\ media' = IF view.check THEN [AbortRecognition(media) EXCEPT !.check = [s \in Sentences |-> "idle"]]
                      ELSE media
      BY <1>2, <2>3 DEF SetCheck
    <3>3. /\ media' \in Media /\ media'.active \in {None, media.active}
          /\ media'.speech = media.speech /\ media'.looping = media.looping /\ media'.rec = media.rec
          /\ media'.activeStop = media.activeStop /\ media'.clips = media.clips /\ media'.audios = media.audios
          /\ media'.player = media.player /\ media'.playing = media.playing
          /\ \A s \in Sentences : media'.check[s] = "listening" <=> media'.active = s
      <4>1. CASE view.check
        <5> DEFINE a == AbortRecognition(media)
                   none == [s \in Sentences |-> "idle"]
        <5>1. /\ a \in Media /\ a.active = None
              /\ a.speech = media.speech /\ a.looping = media.looping /\ a.rec = media.rec
              /\ a.activeStop = media.activeStop /\ a.clips = media.clips /\ a.audios = media.audios
              /\ a.player = media.player /\ a.playing = media.playing
          BY <1>0, AbortFields
        <5>2. none \in [Sentences -> Checks] /\ \A s \in Sentences : none[s] = "idle"
          BY DEF Checks
        <5>3. media' = [a EXCEPT !.check = none]
          BY <3>2, <4>1
        <5> HIDE DEF a, none
        <5>4. QED
          BY <5>1, <5>2, <5>3, SentencesNat DEF Media, None
      <4>2. CASE ~view.check
        BY <1>0, <3>2, <4>2 DEF Sound
      <4>3. QED
        BY <4>1, <4>2
    <3> HIDE DEF v
    <3>4. Sound(v, media')
      BY <1>0, <2>1, <2>3, <3>1, <3>3 DEF Sound
    <3>5. Busy(media') = Busy(media)
      BY <3>3 DEF Busy
    <3>6. Fewer(media, media')
      BY <3>3, <3>5 DEF Fewer
    <3>7. Promise!Next
      BY <1>0, <3>2, <3>3, <3>6, StopsOnly
    <3>8. LoopAlone(media', queue')
      BY <1>0, <3>2, <3>3, <3>5 DEF LoopAlone
    <3>9. QED
      BY <1>0, <2>1, <3>2, <3>3, <3>4, <3>7, <3>8 DEF Goal, PInv
  <2>4. QED
    BY <2>2, <2>3
<1>3. QED
  BY <1>1, <1>2

\* The page is left and opened again.
LEMMA LeaveAndReopen == PInv /\ (Leave \/ Reopen) => Goal
<1> SUFFICES ASSUME PInv, Leave \/ Reopen PROVE Goal
  OBVIOUS
<1>0. view \in View /\ passed \in SUBSET Sentences /\ media \in Media /\ Sound(view, media) /\ LoopAlone(media, queue)
      /\ queue \in Queue
  BY DEF PInv
<1>1. CASE Leave
  <2> DEFINE v == [view EXCEPT !.open = FALSE, !.mode = "shadow", !.guided = None]
             m == Unmount(media, Speakers(view))
             n == [StopSpeaking(m) EXCEPT !.looping = None, !.player = "none", !.playing = FALSE]
  <2>1. v \in View /\ ~v.open
    BY <1>0 DEF View
  <2>2. /\ m \in Media
        /\ \A s \in Sentences : m.rec[s] = IF s \in Speakers(view) THEN "idle" ELSE media.rec[s]
        /\ \A s \in Sentences : m.check[s] = IF s \in Speakers(view) THEN "idle" ELSE media.check[s]
        /\ m.active = IF media.active \in Speakers(view) THEN None ELSE media.active
        /\ m.clips = media.clips \ Speakers(view) /\ m.audios = media.audios \ Speakers(view)
    BY <1>0, UnmountFields, Speaking
  <2>3. view' = v /\ media' = n /\ queue' = {} /\ passed' = passed
    BY <1>1 DEF Leave
  <2> HIDE DEF m
  <2>4. /\ n \in Media /\ n.speech = NoSpeech /\ n.looping = None /\ n.player = "none" /\ n.playing = FALSE
        /\ n.rec = m.rec /\ n.check = m.check /\ n.active = m.active /\ n.clips = m.clips /\ n.audios = m.audios
    BY <2>2 DEF StopSpeaking, Media
  <2> HIDE DEF n
  <2>5. \A s \in Sentences : n.rec[s] = "idle"
    BY <1>0, <2>2, <2>4, Speaking DEF Sound
  <2>6. n.active = None /\ n.clips = {} /\ n.audios = {}
    BY <1>0, <2>2, <2>4, Speaking DEF Sound
  <2>7. \A s \in Sentences : n.check[s] # "listening"
    BY <1>0, <2>2, <2>4, Speaking, SentencesNat DEF Sound, None
  <2>8. \A s \in Sentences : NoSpeech # <<s, "loop">> /\ None # s
    BY SentencesNat DEF NoSpeech, None
  <2> HIDE DEF v
  <2>9. Sound(v, n)
    BY <2>1, <2>4, <2>5, <2>6, <2>7, <2>8 DEF Sound
  <2>10. Busy(n) = {}
    BY <2>5 DEF Busy
  <2>11. Fewer(media, n)
    BY <2>4, <2>6, <2>10 DEF Fewer
  <2>12. queue' \in Queue /\ queue' \subseteq queue
    BY <2>3 DEF Queue
  <2>13. Promise!Next
    BY <1>0, <2>3, <2>4, <2>6, <2>11, <2>12, StopsOnly
  <2>14. LoopAlone(media', queue')
    BY <2>3, <2>4 DEF LoopAlone
  <2>15. QED
    BY <1>0, <2>1, <2>3, <2>4, <2>9, <2>12, <2>13, <2>14 DEF Goal, PInv
<1>2. CASE Reopen
  <2> DEFINE v == [view EXCEPT !.open = TRUE]
  <2>1. v \in View /\ view' = v /\ v.open /\ ~view.open /\ UNCHANGED <<media, queue, passed>>
    BY <1>0, <1>2 DEF View, Reopen
  <2>2. \A s \in Sentences : media.rec[s] = "idle" /\ media.check[s] # "listening" /\ media.speech # <<s, "loop">>
    BY <1>0, <2>1, Speaking, SentencesNat DEF Sound, NoSpeech, None
  <2>3. media.active = None /\ media.clips = {}
    BY <1>0, <2>1, Speaking DEF Sound
  <2> HIDE DEF v
  <2>4. Sound(v, media)
    BY <1>0, <2>1, <2>2, <2>3, SentencesNat DEF Sound, None
  <2>5. Promise!Next
    BY <1>0, <2>1, FewerSelf, StopsOnly
  <2>6. QED
    BY <1>0, <2>1, <2>4, <2>5 DEF Goal, PInv
<1>3. QED
  BY <1>1, <1>2

\* A medium that starts with the others stopped is a Start.
LEMMA StartsAlone ==
  ASSUME NEW x, OnOf(media') = {x}, PendingOf(queue) \subseteq PendingOf(queue'),
         PendingOf(queue') \subseteq PendingOf(queue) \cup {x}
  PROVE  Promise!Next
BY OnIs DEF Promise!Next, Promise!Start, Promise!Kept

\* What is left of PInv when only the media have changed.
LEMMA MediaKeepPInv ==
  ASSUME PInv, media' \in Media, view' = view, passed' = passed, queue' \in Queue,
         Sound(view, media'), LoopAlone(media', queue'), Promise!Next
  PROVE  Goal
BY DEF Goal, PInv

\* A step that turns nothing on keeps the invariant.
LEMMA NoStarts ==
  ASSUME PInv, media' \in Media, UNCHANGED <<view, passed, queue>>, Sound(view, media'), LoopAlone(media', queue),
         Fewer(media, media')
  PROVE  Goal
<1>1. Promise!Next
  BY StopsOnly DEF PInv
<1>2. QED
  BY <1>1, MediaKeepPInv DEF PInv

\* With the media stopped, nothing is on.
LEMMA QuietIs ==
  ASSUME PInv, NEW keepVideo \in BOOLEAN, NEW keepAudio \in SUBSET Sentences
  PROVE  LET q == StopMedia(media, keepVideo, keepAudio) IN
         /\ q \in Media /\ Sound(view, q) /\ Quieted(media, keepVideo, keepAudio, q) /\ Busy(q) = {}
         /\ \A s \in Sentences : q.check[s] # "listening"
         /\ OnOf(q) = {"audio"} \X (media.audios \cap keepAudio)
                        \cup (IF keepVideo /\ media.playing THEN {<<"video", Video>>} ELSE {})
<1>1. media \in Media /\ Sound(view, media) /\ view \in View
  BY DEF PInv
<1>2. Quieted(media, keepVideo, keepAudio, StopMedia(media, keepVideo, keepAudio))
  BY <1>1, StopFields
<1>3. QED
  BY <1>1, <1>2, StopSound

\* A medium takes the place of the others: speech, or a recognition.
Speaks(s, kind) ==
  /\ media' = Speak(StopMedia(media, FALSE, {}), s, kind)
  /\ UNCHANGED <<view, queue, passed>>
Listens(s) ==
  /\ media' = [StopMedia(media, FALSE, {}) EXCEPT !.check[s] = "listening", !.active = s]
  /\ UNCHANGED <<view, queue, passed>>

\* A button that speaks stops the media first.
LEMMA SpeakAlone ==
  ASSUME PInv, NEW s \in Sentences, view.open, NEW kind \in {"once", "compare"}, Speaks(s, kind)
  PROVE  Goal
<1>0. kind # "loop" /\ <<s, kind>> \in Sentences \X Kinds
  BY DEF Kinds
<1> DEFINE q == StopMedia(media, FALSE, {})
<1>1. q \in Media /\ Sound(view, q) /\ Quieted(media, FALSE, {}, q) /\ Busy(q) = {}
  BY QuietIs
<1> HIDE DEF q
<1>2. media' = [q EXCEPT !.speech = <<s, kind>>] /\ UNCHANGED <<view, queue, passed>>
  BY DEF q, Speak, Speaks
<1>3. /\ media' \in Media /\ media'.speech = <<s, kind>> /\ media'.looping = None /\ media'.rec = q.rec
      /\ media'.activeStop = q.activeStop /\ media'.active = None /\ media'.check = q.check /\ media'.clips = q.clips
      /\ media'.audios = {} /\ media'.player = q.player /\ media'.playing = FALSE
  BY <1>0, <1>1, <1>2 DEF Quieted, Media
<1>4. \A r \in Sentences : media'.speech # <<r, "loop">> /\ None # r
  BY <1>0, <1>3, SentencesNat DEF None
<1>5. Sound(view, media')
  BY <1>1, <1>2, <1>3, <1>4 DEF Sound, Quieted
<1>6. media'.speech # NoSpeech /\ media'.speech[1] = s
  BY <1>3 DEF NoSpeech
<1>7. Busy(media') = {}
  BY <1>1, <1>3 DEF Busy
<1>8. OnOf(media') = {<<"speech", s>>}
  BY <1>3, <1>6, <1>7 DEF OnOf
<1>9. Promise!Next
  BY <1>2, <1>8, StartsAlone
<1>10. LoopAlone(media', queue')
  BY <1>3 DEF LoopAlone
<1>11. QED
  BY <1>2, <1>3, <1>5, <1>9, <1>10, MediaKeepPInv DEF PInv

\* The loop button is pressed: the speech stops, or starts alone.
LEMMA LoopStep == ASSUME PInv, NEW s \in Sentences, Loop(s) PROVE Goal
<1> DEFINE q == StopMedia(media, FALSE, {})
<1>1. q \in Media /\ Sound(view, q) /\ Quieted(media, FALSE, {}, q) /\ Busy(q) = {} /\ Fewer(media, q)
  BY QuietIs, StopSound DEF PInv
<1>2. s \in Shadowing(view) /\ UNCHANGED <<view, queue, passed>>
      /\ media' = IF media.looping = s THEN q ELSE Speak([q EXCEPT !.looping = s], s, "loop")
  BY DEF Loop
<1> HIDE DEF q
<1>3. CASE media.looping = s
  <2>1. LoopAlone(media', queue)
    BY <1>1, <1>2, <1>3 DEF LoopAlone, Quieted
  <2>2. QED
    BY <1>1, <1>2, <1>3, <2>1, NoStarts
<1>4. CASE media.looping # s
  <2>1. media' = [[q EXCEPT !.looping = s] EXCEPT !.speech = <<s, "loop">>]
    BY <1>2, <1>4 DEF Speak
  <2>2. /\ media' \in Media /\ media'.speech = <<s, "loop">> /\ media'.looping = s /\ media'.rec = q.rec
        /\ media'.activeStop = q.activeStop /\ media'.active = None /\ media'.check = q.check /\ media'.clips = q.clips
        /\ media'.audios = {} /\ media'.player = q.player /\ media'.playing = FALSE
    BY <1>1, <2>1 DEF Quieted, Media, Kinds
  <2>3. \A r \in Sentences : media'.speech = <<r, "loop">> <=> r = s
    BY <2>2
  <2>4. view.open /\ s # None
    BY <1>2, Speaking, SentencesNat DEF None, PInv
  <2>5. Sound(view, media')
    BY <1>1, <1>2, <2>2, <2>3, <2>4 DEF Sound, Quieted
  <2>6. media'.speech # NoSpeech /\ media'.speech[1] = s
    BY <2>2 DEF NoSpeech
  <2>7. Busy(media') = {}
    BY <1>1, <2>2 DEF Busy
  <2>8. OnOf(media') = {<<"speech", s>>}
    BY <2>2, <2>6, <2>7 DEF OnOf
  <2>9. Promise!Next
    BY <1>2, <2>8, StartsAlone
  <2>10. LoopAlone(media', queue')
    BY <2>2, <2>7 DEF LoopAlone
  <2>11. QED
    BY <1>2, <2>2, <2>5, <2>9, <2>10, MediaKeepPInv DEF PInv
<1>5. QED
  BY <1>3, <1>4

\* A recording stops the other media before it asks for the microphone.
LEMMA RecordStep == ASSUME PInv, NEW s \in Sentences, Record(s) PROVE Goal
<1> DEFINE q == StopMedia(media, FALSE, {})
<1>1. q \in Media /\ Sound(view, q) /\ Quieted(media, FALSE, {}, q) /\ Busy(q) = {}
  BY QuietIs
<1>2. s \in Shadowing(view) /\ UNCHANGED <<view, queue, passed>>
      /\ media' = [q EXCEPT !.rec[s] = "requesting", !.activeStop = s]
  BY DEF Record
<1> HIDE DEF q
<1>3. /\ media' \in Media /\ media'.speech = NoSpeech /\ media'.looping = None /\ media'.rec = [q.rec EXCEPT ![s] = "requesting"]
      /\ media'.activeStop = s /\ media'.active = None /\ media'.check = q.check /\ media'.clips = q.clips
      /\ media'.audios = {} /\ media'.player = q.player /\ media'.playing = FALSE
  BY <1>1, <1>2 DEF Quieted, Media, States, Stops
<1>4. \A r \in Sentences : media'.rec[r] = IF r = s THEN "requesting" ELSE q.rec[r]
  BY <1>1, <1>3 DEF Media
<1>5. \A r \in Sentences : q.rec[r] \notin {"requesting", "recording"}
  BY <1>1 DEF Busy
<1>6. Sound(view, media')
  <2>1. \A r \in Sentences : /\ media'.rec[r] # "idle" => r \in Shadowing(view)
                             /\ media'.rec[r] \in {"requesting", "recording"} => media'.activeStop = r
    BY <1>1, <1>2, <1>3, <1>4, <1>5 DEF Sound
  <2>2. QED
    BY <1>1, <1>3, <2>1, SentencesNat DEF Sound, Quieted, None
<1>7. Busy(media') = {s}
  BY <1>4, <1>5 DEF Busy
<1>8. OnOf(media') = {<<"recorder", s>>}
  BY <1>3, <1>7 DEF OnOf
<1>9. Promise!Next
  BY <1>2, <1>8, StartsAlone
<1>10. LoopAlone(media', queue')
  BY <1>3 DEF LoopAlone
<1>11. QED
  BY <1>2, <1>3, <1>6, <1>9, <1>10, MediaKeepPInv DEF PInv

\* So does a recognition.
LEMMA ListenStep ==
  ASSUME PInv, NEW s \in Speakers(view), Listens(s)
  PROVE  Goal
<1> DEFINE q == StopMedia(media, FALSE, {})
<1>0. s \in Sentences
  BY Speaking DEF PInv
<1>1. q \in Media /\ Sound(view, q) /\ Quieted(media, FALSE, {}, q) /\ Busy(q) = {}
      /\ \A r \in Sentences : q.check[r] # "listening"
  BY QuietIs
<1>2. media' = [q EXCEPT !.check[s] = "listening", !.active = s] /\ UNCHANGED <<view, queue, passed>>
  BY DEF Listens
<1> HIDE DEF q
<1>3. /\ media' \in Media /\ media'.speech = NoSpeech /\ media'.looping = None /\ media'.check = [q.check EXCEPT ![s] = "listening"]
      /\ media'.activeStop = q.activeStop /\ media'.active = s /\ media'.rec = q.rec /\ media'.clips = q.clips
      /\ media'.audios = {} /\ media'.player = q.player /\ media'.playing = FALSE
  BY <1>0, <1>1, <1>2 DEF Quieted, Media, Checks
<1>4. \A r \in Sentences : media'.check[r] = "listening" <=> r = s
  BY <1>0, <1>1, <1>3 DEF Media
<1>5. s # None /\ \A r \in Sentences : NoSpeech # <<r, "loop">> /\ r # None
  BY <1>0, SentencesNat DEF None, NoSpeech
<1>6. Sound(view, media')
  BY <1>0, <1>1, <1>3, <1>4, <1>5 DEF Sound, Quieted
<1>7. Busy(media') = {}
  BY <1>1, <1>3 DEF Busy
<1>8. OnOf(media') = {<<"recognition", s>>}
  BY <1>3, <1>5, <1>7 DEF OnOf
<1>9. Promise!Next
  BY <1>2, <1>8, StartsAlone
<1>10. LoopAlone(media', queue')
  BY <1>3 DEF LoopAlone
<1>11. QED
  BY <1>2, <1>3, <1>6, <1>9, <1>10, MediaKeepPInv DEF PInv

\* So does a clip of the video.
LEMMA PlayClipStep == ASSUME PInv, NEW s \in Sentences, PlayClip(s) PROVE Goal
<1> DEFINE q == StopMedia(media, TRUE, {})
<1>1. q \in Media /\ Sound(view, q) /\ Quieted(media, TRUE, {}, q) /\ Busy(q) = {}
  BY QuietIs
<1>2. media.player = "ready" /\ UNCHANGED <<view, passed>> /\ queue' = queue \cup {Video}
      /\ media' = [q EXCEPT !.playing = TRUE]
  BY DEF PlayClip
<1> HIDE DEF q
<1>3. /\ media' \in Media /\ media'.speech = NoSpeech /\ media'.looping = None /\ media'.check = q.check
      /\ media'.activeStop = q.activeStop /\ media'.active = None /\ media'.rec = q.rec /\ media'.clips = q.clips
      /\ media'.audios = {} /\ media'.player = "ready" /\ media'.playing = TRUE
  BY <1>1, <1>2 DEF Quieted, Media
<1>4. Sound(view, media')
  BY <1>1, <1>2, <1>3 DEF Sound, Quieted
<1>5. Busy(media') = {}
  BY <1>1, <1>3 DEF Busy
<1>6. OnOf(media') = {<<"video", Video>>}
  BY <1>3, <1>5 DEF OnOf
<1>7. queue' \in Queue
  BY <1>2 DEF Queue, PInv
<1>8. Promise!Next
  BY <1>2, <1>6, <1>7, StartsAlone, PendingGrows DEF PInv
<1>9. LoopAlone(media', queue')
  BY <1>3 DEF LoopAlone
<1>10. QED
  BY <1>2, <1>3, <1>4, <1>7, <1>8, <1>9, MediaKeepPInv

\* A play event stops everything but its own medium.
LEMMA HandleStep == ASSUME PInv, OnStateChange \/ \E s \in Sentences : OnPlay(s) PROVE Goal
<1>1. ASSUME NEW s \in Sentences, OnPlay(s) PROVE Goal
  <2> DEFINE q == StopMedia(media, FALSE, {s})
             x == <<"audio", s>>
  <2>1. q \in Media /\ Sound(view, q) /\ Quieted(media, FALSE, {s}, q)
    BY QuietIs
  <2>2. OnOf(q) = {"audio"} \X (media.audios \cap {s})
                    \cup (IF FALSE /\ media.playing THEN {<<"video", Video>>} ELSE {})
    BY QuietIs
  <2>3. media' = q /\ s \in queue /\ s # Video /\ queue' = queue \ {s} /\ UNCHANGED <<view, passed>>
    BY <1>1 DEF OnPlay
  <2> HIDE DEF q
  <2>4. OnOf(q) = OnOf(media) \cap {x}
    BY <2>2 DEF OnOf
  <2>5. queue' \in Queue
    BY <2>3 DEF Queue, PInv
  <2>6. x \in PendingOf(queue) /\ PendingOf(queue') = PendingOf(queue) \ {x}
    BY <2>3, SentencesNat DEF PendingOf, Video
  <2>7. Promise!Next
    BY <2>3, <2>4, <2>6, OnIs DEF Promise!Next, Promise!Handle
  <2>8. LoopAlone(media', queue')
    BY <2>1, <2>3 DEF LoopAlone, Quieted
  <2>9. QED
    BY <2>1, <2>3, <2>5, <2>7, <2>8, MediaKeepPInv
<1>2. CASE OnStateChange
  <2> DEFINE q == StopMedia(media, TRUE, {})
             x == <<"video", Video>>
  <2>1. q \in Media /\ Sound(view, q) /\ Quieted(media, TRUE, {}, q)
    BY QuietIs
  <2>2. OnOf(q) = {"audio"} \X (media.audios \cap {}) \cup (IF media.playing THEN {x} ELSE {})
    BY QuietIs
  <2>3. media' = q /\ Video \in queue /\ queue' = queue \ {Video} /\ UNCHANGED <<view, passed>>
    BY <1>2 DEF OnStateChange
  <2> HIDE DEF q
  <2>4. OnOf(q) = OnOf(media) \cap {x}
    BY <2>2 DEF OnOf
  <2>5. queue' \in Queue
    BY <2>3 DEF Queue, PInv
  <2>6. x \in PendingOf(queue) /\ PendingOf(queue') = PendingOf(queue) \ {x}
    BY <2>3, SentencesNat DEF PendingOf, Video
  <2>7. Promise!Next
    BY <2>3, <2>4, <2>6, OnIs DEF Promise!Next, Promise!Handle
  <2>8. LoopAlone(media', queue')
    BY <2>1, <2>3 DEF LoopAlone, Quieted
  <2>9. QED
    BY <2>1, <2>3, <2>5, <2>7, <2>8, MediaKeepPInv
<1>3. QED
  BY <1>1, <1>2

\* Reference speech ends: a loop speaks again, a comparison goes on to the recording.
LEMMA SpeechStep == ASSUME PInv, SpeechEnds PROVE Goal
<1> DEFINE s == media.speech[1]
           kind == media.speech[2]
           silent == StopSpeaking(media)
<1>0. media \in Media /\ Sound(view, media) /\ LoopAlone(media, queue) /\ queue \in Queue
  BY DEF PInv
<1>1. media.speech # NoSpeech /\ s \in Sentences /\ kind \in Kinds /\ media.speech = <<s, kind>> /\ UNCHANGED <<view, passed>>
  BY <1>0 DEF SpeechEnds, Media
<1>2. /\ silent \in Media /\ silent.speech = NoSpeech /\ silent.looping = media.looping /\ silent.rec = media.rec
      /\ silent.activeStop = media.activeStop /\ silent.active = media.active /\ silent.check = media.check
      /\ silent.clips = media.clips /\ silent.audios = media.audios /\ silent.player = media.player
      /\ silent.playing = media.playing
  BY <1>0 DEF StopSpeaking, Media
<1>3. \A r \in Sentences : NoSpeech # <<r, "loop">> /\ r # None
  BY SentencesNat DEF NoSpeech, None
<1>4. Busy(silent) = Busy(media)
  BY <1>2 DEF Busy
<1>5. view.open
  BY <1>0, <1>1 DEF Sound
<1>6. CASE kind = "loop"
  <2>1. media.looping = s /\ s \in Shadowing(view)
    BY <1>0, <1>1, <1>6 DEF Sound
  <2>2. queue' = queue /\ media' \in {Speak(media, s, "loop"), [silent EXCEPT !.looping = None]}
    BY <1>6 DEF SpeechEnds
  <2>3. CASE media' = Speak(media, s, "loop")
    <3>1. media' = media
      BY <1>0, <1>1, <1>6, <2>3 DEF Speak, Media
    <3>2. QED
      BY <1>0, <1>1, <2>2, <3>1, NoStarts, FewerSelf
  <2>4. CASE media' = [silent EXCEPT !.looping = None]
    <3> HIDE DEF silent
    <3>1. /\ media' \in Media /\ media'.speech = NoSpeech /\ media'.looping = None /\ media'.rec = silent.rec
          /\ media'.activeStop = silent.activeStop /\ media'.active = silent.active /\ media'.check = silent.check
          /\ media'.clips = silent.clips /\ media'.audios = silent.audios /\ media'.player = silent.player
          /\ media'.playing = silent.playing
      BY <1>2, <2>4 DEF Media
    <3>2. Sound(view, media')
      BY <1>0, <1>2, <1>3, <3>1 DEF Sound
    <3>3. Busy(media') = Busy(media)
      BY <1>4, <3>1 DEF Busy
    <3>4. Fewer(media, media')
      BY <1>2, <3>1, <3>3 DEF Fewer
    <3>5. LoopAlone(media', queue)
      BY <3>1 DEF LoopAlone
    <3>6. QED
      BY <1>1, <2>2, <3>1, <3>2, <3>4, <3>5, NoStarts
  <2>5. QED
    BY <2>2, <2>3, <2>4
<1>7. CASE kind # "loop"
  <2> HIDE DEF silent
  <2>1. media.looping = None
    BY <1>0, <1>1, <1>7 DEF LoopAlone
  <2>2. Sound(view, silent)
    BY <1>0, <1>2, <1>3, <2>1 DEF Sound
  <2>3. Fewer(media, silent)
    BY <1>2, <1>4 DEF Fewer
  <2>4. CASE media' = silent /\ queue' = queue
    <3>1. LoopAlone(media', queue)
      BY <1>2, <2>1, <2>4 DEF LoopAlone
    <3>2. QED
      BY <1>1, <1>2, <2>2, <2>3, <2>4, <3>1, NoStarts
  <2>5. CASE s \in media.clips /\ media' = [silent EXCEPT !.audios = @ \cup {s}] /\ queue' = queue \cup {s}
    <3>1. /\ media' \in Media /\ media'.speech = NoSpeech /\ media'.looping = None /\ media'.rec = silent.rec
          /\ media'.activeStop = silent.activeStop /\ media'.active = silent.active /\ media'.check = silent.check
          /\ media'.clips = silent.clips /\ media'.audios = silent.audios \cup {s} /\ media'.player = silent.player
          /\ media'.playing = silent.playing
      BY <1>1, <1>2, <2>1, <2>5 DEF Media
    <3>2. Sound(view, media')
      BY <1>2, <2>2, <2>5, <3>1 DEF Sound
    <3>3. Busy(media') = Busy(media)
      BY <1>4, <3>1 DEF Busy
    <3> DEFINE x == <<"audio", s>>
    <3>4. x \in OnOf(media') /\ OnOf(media') \ {x} \subseteq OnOf(media)
      BY <1>2, <3>1, <3>3 DEF OnOf
    <3>5. queue' \in Queue
      BY <1>0, <1>1, <2>5 DEF Queue
    <3> HIDE DEF s
    <3>6. x \in PendingOf(queue') /\ PendingOf(queue) \subseteq PendingOf(queue') /\ PendingOf(queue') \subseteq PendingOf(queue) \cup {x}
      BY <1>0, <1>1, <2>5, <3>5, PendingGrows
    <3>7. Promise!Next
      BY <3>4, <3>6, OnIs DEF Promise!Next, Promise!SelfStart, Promise!Kept
    <3>8. LoopAlone(media', queue')
      BY <3>1 DEF LoopAlone
    <3>9. QED
      BY <1>1, <3>1, <3>2, <3>5, <3>7, <3>8, MediaKeepPInv
  <2>6. QED
    BY <1>7, <2>4, <2>5 DEF SpeechEnds, silent
<1>8. QED
  BY <1>6, <1>7

\* A step of the recorders alone.
LEMMA RecorderKeeps ==
  ASSUME PInv, media' \in Media, UNCHANGED <<view, passed, queue>>, NEW s \in Sentences,
         media.rec[s] # "idle",
         \A r \in Sentences : r # s => media'.rec[r] = media.rec[r],
         media'.rec[s] \in {"requesting", "recording"} =>
           media.rec[s] \in {"requesting", "recording"} /\ media'.activeStop = media.activeStop,
         media'.activeStop = media.activeStop \/ (media.activeStop = s /\ media'.activeStop = None),
         media'.speech = media.speech, media'.looping = media.looping, media'.active = media.active,
         media'.check = media.check, media'.playing = media.playing, media'.player = media.player,
         media'.clips \in {media.clips, media.clips \cup {s}}, media'.audios \in {media.audios, media.audios \ {s}},
         media'.audios \subseteq media'.clips
  PROVE  Goal
<1>0. media \in Media /\ Sound(view, media) /\ LoopAlone(media, queue)
  BY DEF PInv
<1>1. s \in Shadowing(view)
  BY <1>0 DEF Sound
<1>2. \A r \in Sentences : media'.rec[r] \in {"requesting", "recording"} =>
        media.rec[r] \in {"requesting", "recording"} /\ media'.activeStop = r
  BY <1>0 DEF Sound
<1>3. \A r \in Sentences : media'.rec[r] # "idle" => r \in Shadowing(view)
  BY <1>0, <1>1 DEF Sound
<1>4. media'.clips \subseteq Shadowing(view)
  BY <1>0, <1>1 DEF Sound
<1>5. Sound(view, media')
  BY <1>0, <1>2, <1>3, <1>4 DEF Sound
<1>6. Busy(media') \subseteq Busy(media)
  BY <1>2 DEF Busy
<1>7. Fewer(media, media')
  BY <1>6 DEF Fewer
<1>8. LoopAlone(media', queue)
  BY <1>0, <1>6 DEF LoopAlone
<1>9. QED
  BY <1>5, <1>7, <1>8, NoStarts

\* What a recorder that stops writes.
LEMMA ReleaseFields ==
  ASSUME NEW m \in Media, NEW stop \in Stops
  PROVE  LET q == Release(m, stop) IN
         /\ q \in Media /\ q.activeStop = IF m.activeStop = stop THEN None ELSE m.activeStop
         /\ q.speech = m.speech /\ q.looping = m.looping /\ q.rec = m.rec /\ q.orphans = m.orphans
         /\ q.active = m.active /\ q.check = m.check /\ q.clips = m.clips /\ q.audios = m.audios
         /\ q.player = m.player /\ q.playing = m.playing
BY DEF Release, Media, Stops

\* The microphone is granted or denied, the recording stopped.
LEMMA RecorderStep ==
  ASSUME PInv, NEW s \in Sentences, StopRecording(s) \/ Granted(s) \/ Denied(s) \/ RecorderStops(s)
  PROVE  Goal
<1>0. media \in Media /\ Sound(view, media) /\ s \in Stops /\ media.audios \subseteq media.clips
  BY DEF PInv, Stops, Sound
<1>1. CASE StopRecording(s) \/ (Granted(s) /\ media.rec[s] = "requesting")
  <2>1. PICK state \in {"stopping", "recording"} :
          /\ media' = [media EXCEPT !.rec[s] = state]
          /\ state = "recording" => media.rec[s] = "requesting"
    BY <1>1 DEF StopRecording, Granted
  <2>2. /\ media' \in Media /\ media'.rec = [media.rec EXCEPT ![s] = state] /\ media'.activeStop = media.activeStop
        /\ media'.speech = media.speech /\ media'.looping = media.looping /\ media'.active = media.active
        /\ media'.check = media.check /\ media'.playing = media.playing /\ media'.player = media.player
        /\ media'.clips = media.clips /\ media'.audios = media.audios
    BY <1>0, <2>1 DEF Media, States
  <2>3. \A r \in Sentences : media'.rec[r] = IF r = s THEN state ELSE media.rec[r]
    BY <1>0, <2>2 DEF Media
  <2>4. media.rec[s] \in {"recording", "requesting"} /\ UNCHANGED <<view, queue, passed>>
    BY <1>1 DEF StopRecording, Granted
  <2>5. QED
    BY <1>0, <2>1, <2>2, <2>3, <2>4, RecorderKeeps
<1>2. CASE (Granted(s) /\ media.rec[s] # "requesting") \/ Denied(s) \/ RecorderStops(s)
  <2> DEFINE q == Release(media, s)
             m == [q EXCEPT !.rec[s] = "idle"]
             n == [m EXCEPT !.clips = @ \cup {s}, !.audios = @ \ {s}]
  <2>1. /\ q \in Media /\ q.activeStop = IF media.activeStop = s THEN None ELSE media.activeStop
        /\ q.speech = media.speech /\ q.looping = media.looping /\ q.rec = media.rec /\ q.orphans = media.orphans
        /\ q.active = media.active /\ q.check = media.check /\ q.clips = media.clips /\ q.audios = media.audios
        /\ q.player = media.player /\ q.playing = media.playing
    BY <1>0, ReleaseFields
  <2>2. media' \in {m, n} /\ media.rec[s] # "idle" /\ UNCHANGED <<view, queue, passed>>
    BY <1>2 DEF Granted, Denied, RecorderStops
  <2> HIDE DEF q
  <2>3. /\ m \in Media /\ m.rec = [q.rec EXCEPT ![s] = "idle"] /\ m.activeStop = q.activeStop
        /\ m.speech = q.speech /\ m.looping = q.looping /\ m.active = q.active /\ m.check = q.check
        /\ m.playing = q.playing /\ m.player = q.player /\ m.clips = q.clips /\ m.audios = q.audios
    BY <2>1 DEF Media, States
  <2> HIDE DEF m
  <2>4. /\ n \in Media /\ n.rec = m.rec /\ n.activeStop = m.activeStop
        /\ n.speech = m.speech /\ n.looping = m.looping /\ n.active = m.active /\ n.check = m.check
        /\ n.playing = m.playing /\ n.player = m.player /\ n.clips = m.clips \cup {s} /\ n.audios = m.audios \ {s}
    BY <2>3 DEF Media
  <2> HIDE DEF n
  <2>5. \A r \in Sentences : m.rec[r] = IF r = s THEN "idle" ELSE media.rec[r]
    BY <1>0, <2>1, <2>3 DEF Media
  <2>6. CASE media' = m
    BY <1>0, <2>1, <2>2, <2>3, <2>5, <2>6, RecorderKeeps
  <2>7. CASE media' = n
    <3>1. /\ media'.clips = media.clips \cup {s} /\ media'.audios = media.audios \ {s}
          /\ media'.audios \subseteq media'.clips
      BY <1>0, <2>1, <2>3, <2>4, <2>7
    <3>2. /\ media'.speech = media.speech /\ media'.looping = media.looping /\ media'.active = media.active
          /\ media'.check = media.check /\ media'.playing = media.playing /\ media'.player = media.player
      BY <2>1, <2>3, <2>4, <2>7
    <3>3. /\ \A r \in Sentences : r # s => media'.rec[r] = media.rec[r]
          /\ media'.rec[s] = "idle"
      BY <2>4, <2>5, <2>7
    <3>4. media'.activeStop = media.activeStop \/ (media.activeStop = s /\ media'.activeStop = None)
      BY <2>1, <2>3, <2>4, <2>7
    <3>5. media' \in Media /\ media.rec[s] # "idle" /\ UNCHANGED <<view, passed, queue>>
      BY <2>2, <2>4, <2>7
    <3>6. QED
      BY <3>1, <3>2, <3>3, <3>4, <3>5, RecorderKeeps
  <2>8. QED
    BY <2>2, <2>6, <2>7
<1>3. QED
  BY <1>1, <1>2

\* The answer to a request whose recorder is gone changes nothing on screen.
LEMMA OrphanStep == ASSUME PInv, NEW s \in Sentences, OrphanAnswered(s) PROVE Goal
<1>0. media \in Media /\ Sound(view, media) /\ LoopAlone(media, queue) /\ -s \in Stops
  BY DEF PInv, Stops
<1> DEFINE q == Release(media, -s)
<1>1. /\ q \in Media /\ q.activeStop = IF media.activeStop = -s THEN None ELSE media.activeStop
      /\ q.speech = media.speech /\ q.looping = media.looping /\ q.rec = media.rec /\ q.orphans = media.orphans
      /\ q.active = media.active /\ q.check = media.check /\ q.clips = media.clips /\ q.audios = media.audios
      /\ q.player = media.player /\ q.playing = media.playing
  BY <1>0, ReleaseFields
<1>2. media' = [q EXCEPT !.orphans = @ \ {s}] /\ UNCHANGED <<view, queue, passed>>
  BY DEF OrphanAnswered
<1> HIDE DEF q
<1>3. /\ media' \in Media /\ media'.activeStop = q.activeStop
      /\ media'.speech = q.speech /\ media'.looping = q.looping /\ media'.rec = q.rec
      /\ media'.active = q.active /\ media'.check = q.check /\ media'.clips = q.clips /\ media'.audios = q.audios
      /\ media'.player = q.player /\ media'.playing = q.playing
  BY <1>1, <1>2 DEF Media
<1>4. \A r \in Sentences : r # -s
  BY SentencesNat
<1>5. Sound(view, media')
  BY <1>0, <1>1, <1>3, <1>4 DEF Sound
<1>6. Busy(media') = Busy(media)
  BY <1>1, <1>3 DEF Busy
<1>7. Fewer(media, media') /\ LoopAlone(media', queue)
  BY <1>0, <1>1, <1>3, <1>6 DEF Fewer, LoopAlone
<1>8. QED
  BY <1>2, <1>3, <1>5, <1>7, NoStarts

\* The learner plays a recording with its own player, or it ends.
LEMMA RecordingStep == ASSUME PInv, NEW s \in Sentences, PlayAudio(s) \/ AudioEnds(s) PROVE Goal
<1>0. media \in Media /\ Sound(view, media) /\ LoopAlone(media, queue) /\ queue \in Queue
  BY DEF PInv
<1>1. CASE PlayAudio(s)
  <2> DEFINE x == <<"audio", s>>
  <2>1. s \in media.clips \ media.audios /\ media' = [media EXCEPT !.audios = @ \cup {s}]
        /\ queue' = queue \cup {s} /\ UNCHANGED <<view, passed>>
    BY <1>1 DEF PlayAudio
  <2>2. /\ media' \in Media /\ media'.speech = media.speech /\ media'.looping = media.looping /\ media'.rec = media.rec
        /\ media'.activeStop = media.activeStop /\ media'.active = media.active /\ media'.check = media.check
        /\ media'.clips = media.clips /\ media'.audios = media.audios \cup {s} /\ media'.player = media.player
        /\ media'.playing = media.playing
    BY <1>0, <2>1 DEF Media
  <2>3. Sound(view, media')
    BY <1>0, <2>1, <2>2 DEF Sound
  <2>4. Busy(media') = Busy(media)
    BY <2>2 DEF Busy
  <2>5. x \in OnOf(media') /\ OnOf(media') \ {x} \subseteq OnOf(media)
    BY <2>2, <2>4 DEF OnOf
  <2>6. queue' \in Queue
    BY <1>0, <2>1 DEF Queue
  <2>7. x \in PendingOf(queue') /\ PendingOf(queue) \subseteq PendingOf(queue') /\ PendingOf(queue') \subseteq PendingOf(queue) \cup {x}
    BY <1>0, <2>1, <2>6, PendingGrows
  <2>8. Promise!Next
    BY <2>5, <2>7, OnIs DEF Promise!Next, Promise!SelfStart, Promise!Kept
  <2>9. LoopAlone(media', queue')
    BY <1>0, <2>1, <2>2, <2>4 DEF LoopAlone
  <2>10. QED
    BY <2>1, <2>2, <2>3, <2>6, <2>8, <2>9, MediaKeepPInv
<1>2. CASE AudioEnds(s)
  <2>1. media' = [media EXCEPT !.audios = @ \ {s}] /\ UNCHANGED <<view, queue, passed>>
    BY <1>2 DEF AudioEnds
  <2>2. /\ media' \in Media /\ media'.speech = media.speech /\ media'.looping = media.looping /\ media'.rec = media.rec
        /\ media'.activeStop = media.activeStop /\ media'.active = media.active /\ media'.check = media.check
        /\ media'.clips = media.clips /\ media'.audios = media.audios \ {s} /\ media'.player = media.player
        /\ media'.playing = media.playing
    BY <1>0, <2>1 DEF Media
  <2>3. Sound(view, media')
    BY <1>0, <2>2 DEF Sound
  <2>4. Busy(media') = Busy(media)
    BY <2>2 DEF Busy
  <2>5. Fewer(media, media') /\ LoopAlone(media', queue)
    BY <1>0, <2>2, <2>4 DEF Fewer, LoopAlone
  <2>6. QED
    BY <2>1, <2>2, <2>3, <2>5, NoStarts
<1>3. QED
  BY <1>1, <1>2

\* The recognition of s, if it has one, ends in the given state.
Ends(s, state) == media' = [media EXCEPT !.active = IF @ = s THEN None ELSE @, !.check[s] = state]

\* A recognition ends: its component shows a result, or is idle again.
LEMMA RecognitionEnds ==
  ASSUME PInv, NEW s \in Sentences, NEW state \in {"heard", "idle"}, media.active = s \/ media.check[s] = "heard",
         Ends(s, state), UNCHANGED <<view, queue>>, passed' \in SUBSET Sentences
  PROVE  Goal
<1>0. media \in Media /\ Sound(view, media) /\ LoopAlone(media, queue) /\ queue \in Queue
  BY DEF PInv
<1>1. /\ media' \in Media /\ media'.speech = media.speech /\ media'.looping = media.looping /\ media'.rec = media.rec
      /\ media'.activeStop = media.activeStop /\ media'.active = (IF media.active = s THEN None ELSE media.active)
      /\ media'.check = [media.check EXCEPT ![s] = state]
      /\ media'.clips = media.clips /\ media'.audios = media.audios /\ media'.player = media.player
      /\ media'.playing = media.playing
  BY <1>0 DEF Media, Checks, Ends
<1>2. \A r \in Sentences : media'.check[r] = IF r = s THEN state ELSE media.check[r]
  BY <1>0, <1>1 DEF Media
<1>3. \A r \in Sentences : media'.check[r] = "listening" <=> media'.active = r
  BY <1>0, <1>1, <1>2, SentencesNat DEF Sound, None
<1>4. Sound(view, media')
  BY <1>0, <1>1, <1>3, SentencesNat DEF Sound, None
<1>5. Busy(media') = Busy(media)
  BY <1>1 DEF Busy
<1>6. Fewer(media, media') /\ LoopAlone(media', queue)
  BY <1>0, <1>1, <1>5 DEF Fewer, LoopAlone
<1>7. Promise!Next
  BY <1>0, <1>1, <1>6, StopsOnly
<1>8. QED
  BY <1>1, <1>4, <1>6, <1>7 DEF Goal, PInv

\* A recognition hears something, or nothing, or is tried again.
LEMMA RecognitionStep ==
  ASSUME PInv, (\E given \in Answers : Heard(given)) \/ NotHeard \/ (\E s \in Sentences : TryAgain(s))
  PROVE  Goal
<1>0. media \in Media /\ passed \in SUBSET Sentences /\ Sound(view, media)
  BY DEF PInv
<1>1. ASSUME NEW given \in Answers, Heard(given) PROVE Goal
  <2>1. media.active \in Sentences
    BY <1>0, <1>1 DEF Heard, Media
  <2>2. Ends(media.active, "heard")
    BY <1>1 DEF Heard, Ends
  <2>3. UNCHANGED <<view, queue>> /\ passed' \in SUBSET Sentences
    BY <1>0, <1>1, <2>1 DEF Heard
  <2>4. QED
    BY <2>1, <2>2, <2>3, RecognitionEnds
<1>2. CASE NotHeard
  <2>1. media.active \in Sentences
    BY <1>0, <1>2 DEF NotHeard, Media
  <2>2. Ends(media.active, "idle")
    BY <1>2 DEF NotHeard, Ends
  <2>3. UNCHANGED <<view, queue>> /\ passed' \in SUBSET Sentences
    BY <1>0, <1>2 DEF NotHeard
  <2>4. QED
    BY <2>1, <2>2, <2>3, RecognitionEnds
<1>3. ASSUME NEW s \in Sentences, TryAgain(s) PROVE Goal
  <2>1. media.check[s] = "heard" /\ media.active # s
    BY <1>0, <1>3 DEF TryAgain, Sound
  <2>2. Ends(s, "idle")
    <3>1. [media EXCEPT !.active = IF @ = s THEN None ELSE @, !.check[s] = "idle"] = [media EXCEPT !.check[s] = "idle"]
      BY <1>0, <2>1 DEF Media
    <3>2. QED
      BY <1>3, <3>1 DEF TryAgain, Ends
  <2>3. UNCHANGED <<view, queue>> /\ passed' \in SUBSET Sentences
    BY <1>0, <1>3 DEF TryAgain
  <2>4. QED
    BY <2>1, <2>2, <2>3, RecognitionEnds
<1>4. QED
  BY <1>1, <1>2, <1>3

\* The Shadow Gate takes a typed sentence.
LEMMA TypeStep == ASSUME PInv, NEW given \in Answers, TypeInstead(given) PROVE Goal
<1>1. UNCHANGED <<view, media, queue>> /\ passed' \in SUBSET Sentences
  BY DEF TypeInstead, Gate, PInv
<1>2. Promise!Next
  BY <1>1, FewerSelf, StopsOnly DEF PInv
<1>3. QED
  BY <1>1, <1>2 DEF Goal, PInv

\* The buttons that speak or listen.
LEMMA SpeakStep ==
  ASSUME PInv, NEW s \in Sentences, Listen(s) \/ GateListen(s) \/ Hear(s) \/ Compare(s) \/ CheckPronunciation(s) \/ SayIt(s)
  PROVE  Goal
<1>1. CASE Listen(s) \/ GateListen(s) \/ Hear(s) \/ Compare(s)
  <2>1. Speaks(s, "once") \/ Speaks(s, "compare")
    BY <1>1 DEF Listen, GateListen, Hear, Compare, Speaks
  <2>2. s \in Speakers(view) \cup Quizzes(view)
    BY <1>1, Speaking DEF Listen, GateListen, Hear, Compare, PInv
  <2>3. view.open
    BY <2>2, Speaking DEF PInv
  <2>4. QED
    BY <2>1, <2>3, SpeakAlone
<1>2. CASE CheckPronunciation(s) \/ SayIt(s)
  <2>1. Listens(s)
    BY <1>2 DEF CheckPronunciation, SayIt, Listens
  <2>2. s \in Speakers(view)
    BY <1>2, Speaking DEF CheckPronunciation, SayIt, PInv
  <2>3. QED
    BY <2>1, <2>2, ListenStep
<1>3. QED
  BY <1>1, <1>2

\* A step of the video's player alone.
PlayerIs(player, playing) == media' = [media EXCEPT !.player = player, !.playing = playing]

\* What a step of the player keeps.
LEMMA PlayerKeeps ==
  ASSUME PInv, view.open, NEW player \in {"none", "ready", "failed"}, NEW playing \in BOOLEAN,
         PlayerIs(player, playing), playing => player # "none",
         UNCHANGED <<view, passed>>
  PROVE  /\ media' \in Media /\ Sound(view, media') /\ Busy(media') = Busy(media)
         /\ media'.speech = media.speech /\ media'.looping = media.looping /\ media'.active = media.active
         /\ media'.audios = media.audios /\ media'.playing = playing
<1>0. media \in Media /\ Sound(view, media)
  BY DEF PInv
<1>1. /\ media' \in Media /\ media'.speech = media.speech /\ media'.looping = media.looping /\ media'.rec = media.rec
      /\ media'.activeStop = media.activeStop /\ media'.active = media.active /\ media'.check = media.check
      /\ media'.clips = media.clips /\ media'.audios = media.audios /\ media'.player = player
      /\ media'.playing = playing
  BY <1>0 DEF Media, PlayerIs
<1>2. Sound(view, media')
  BY <1>0, <1>1 DEF Sound
<1>3. QED
  BY <1>1, <1>2 DEF Busy

\* The player stops, or its state changes with what it plays kept.
LEMMA PlayerQuieter ==
  ASSUME PInv, view.open, NEW player \in {"none", "ready", "failed"}, NEW playing \in BOOLEAN,
         PlayerIs(player, playing), playing => media.playing, player # "none", UNCHANGED <<view, passed, queue>>
  PROVE  Goal
<1>0. media \in Media /\ LoopAlone(media, queue) /\ queue \in Queue
  BY DEF PInv
<1>1. /\ media' \in Media /\ Sound(view, media') /\ Busy(media') = Busy(media)
      /\ media'.speech = media.speech /\ media'.looping = media.looping /\ media'.active = media.active
      /\ media'.audios = media.audios /\ media'.playing = playing
  BY PlayerKeeps
<1>2. Fewer(media, media') /\ LoopAlone(media', queue)
  BY <1>0, <1>1 DEF Fewer, LoopAlone
<1>3. QED
  BY <1>1, <1>2, NoStarts

\* The video's player, driven by its own controls or by the browser.
LEMMA PlayerStep ==
  ASSUME PInv, PlayerReady \/ PlayerFails \/ PressPlayer \/ PlayDropped \/ ClipEnds
  PROVE  Goal
<1>0. media \in Media /\ Sound(view, media) /\ LoopAlone(media, queue) /\ queue \in Queue /\ UNCHANGED <<view, passed>>
      /\ media.playing \in BOOLEAN /\ media.player \in {"none", "ready", "failed"}
  BY DEF PInv, PlayerReady, PlayerFails, PressPlayer, PlayDropped, ClipEnds, Media
<1>1. CASE PlayDropped
  <2>1. media' = media /\ queue' = queue \ {Video} /\ ~media.playing
    BY <1>1 DEF PlayDropped
  <2>2. queue' \in Queue /\ queue' \subseteq queue /\ queue \cap media.audios \subseteq queue'
    BY <1>0, <2>1, SentencesNat DEF Queue, Media, Video
  <2>3. Promise!Next
    BY <1>0, <2>1, <2>2, FewerSelf, StopsOnly
  <2>4. LoopAlone(media', queue')
    BY <1>0, <2>1, <2>2 DEF LoopAlone
  <2>5. QED
    BY <1>0, <2>1, <2>2, <2>3, <2>4, MediaKeepPInv
<1>2. CASE PlayerReady
  <2>1. view.open /\ queue' = queue
    BY <1>0, <1>2 DEF PlayerReady, Sound
  <2>2. PlayerIs("ready", media.playing)
    BY <1>0, <1>2 DEF PlayerReady, PlayerIs, Media
  <2>3. QED
    BY <1>0, <2>1, <2>2, PlayerQuieter
<1>3. CASE PlayerFails
  <2>1. view.open /\ queue' = queue
    BY <1>0, <1>3 DEF PlayerFails, Sound
  <2>2. PlayerIs("failed", media.playing)
    BY <1>0, <1>3 DEF PlayerFails, PlayerIs, Media
  <2>3. QED
    BY <1>0, <2>1, <2>2, PlayerQuieter
<1>4. CASE ClipEnds \/ (PressPlayer /\ media.playing)
  <2>1. view.open /\ queue' = queue /\ media.player # "none"
    BY <1>0, <1>4 DEF ClipEnds, PressPlayer, Sound
  <2>2. PlayerIs(media.player, FALSE)
    BY <1>0, <1>4 DEF ClipEnds, PressPlayer, PlayerIs, Media
  <2>3. QED
    BY <1>0, <2>1, <2>2, PlayerQuieter
<1>5. CASE PressPlayer /\ ~media.playing
  <2> DEFINE x == <<"video", Video>>
  <2>1. media.player # "none" /\ media' = [media EXCEPT !.playing = TRUE] /\ queue' = queue \cup {Video}
    BY <1>0, <1>5 DEF PressPlayer, Media
  <2>2. view.open
    BY <1>0, <2>1 DEF Sound
  <2>3. PlayerIs(media.player, TRUE)
    BY <1>0, <2>1 DEF Media, PlayerIs
  <2>4. /\ media' \in Media /\ Sound(view, media') /\ Busy(media') = Busy(media)
        /\ media'.speech = media.speech /\ media'.looping = media.looping /\ media'.active = media.active
        /\ media'.audios = media.audios /\ media'.playing = TRUE
    BY <1>0, <2>1, <2>2, <2>3, PlayerKeeps
  <2>5. x \in OnOf(media') /\ OnOf(media') \ {x} \subseteq OnOf(media)
    BY <2>4 DEF OnOf
  <2>6. queue' \in Queue
    BY <1>0, <2>1 DEF Queue
  <2>7. x \in PendingOf(queue') /\ PendingOf(queue) \subseteq PendingOf(queue') /\ PendingOf(queue') \subseteq PendingOf(queue) \cup {x}
    BY <1>0, <2>1, <2>6, PendingGrows
  <2>8. Promise!Next
    BY <2>5, <2>7, OnIs DEF Promise!Next, Promise!SelfStart, Promise!Kept
  <2>9. LoopAlone(media', queue')
    BY <1>0, <2>1, <2>4 DEF LoopAlone
  <2>10. QED
    BY <1>0, <2>4, <2>6, <2>8, <2>9, MediaKeepPInv
<1>6. QED
  BY <1>1, <1>2, <1>3, <1>4, <1>5

\* The page opens quiet.
LEMMA InitPInv == Init => PInv /\ Promise!Init
<1> SUFFICES ASSUME Init PROVE PInv /\ Promise!Init
  OBVIOUS
<1>1. /\ media.speech = NoSpeech /\ media.looping = None /\ media.active = None /\ media.clips = {} /\ media.audios = {}
      /\ media.player = "none" /\ media.playing = FALSE /\ media \in Media
      /\ \A s \in Sentences : media.rec[s] = "idle" /\ media.check[s] = "idle"
  BY DEF Init, QuietMedia, Media, States, Checks, Stops
<1>2. view \in View /\ view.open /\ queue = {} /\ queue \in Queue /\ passed \in SUBSET Sentences
  BY DEF Init, View, Queue
<1>3. \A s \in Sentences : NoSpeech # <<s, "loop">> /\ None # s
  BY SentencesNat DEF NoSpeech, None
<1>4. Sound(view, media)
  BY <1>1, <1>2, <1>3 DEF Sound
<1>5. LoopAlone(media, queue)
  BY <1>1 DEF LoopAlone
<1>6. Busy(media) = {}
  BY <1>1 DEF Busy
<1>7. OnOf(media) = {} /\ PendingOf(queue) = {}
  BY <1>1, <1>2, <1>6 DEF OnOf, PendingOf
<1>8. On = {} /\ Pending = {}
  BY <1>7, OnIs
<1>9. QED
  BY <1>1, <1>2, <1>4, <1>5, <1>8 DEF PInv, Promise!Init

\* Every step keeps the invariant and is a step of PracticeMedia.
LEMMA StepPInv == PInv /\ [Next]_vars => Goal
<1> SUFFICES ASSUME PInv, [Next]_vars PROVE Goal
  OBVIOUS
<1>1. CASE Press
  BY <1>1, ChangeView, SwitchLearn, LeaveAndReopen, PlayerStep, LoopStep, RecordStep, RecorderStep, RecordingStep,
     RecognitionStep, SpeakStep, PlayClipStep, TypeStep DEF Press
<1>2. CASE Browser
  BY <1>2, SpeechStep, RecognitionStep, PlayerStep, HandleStep, RecorderStep, OrphanStep, RecordingStep DEF Browser
<1>3. CASE UNCHANGED vars
  <2>1. PInv'
    BY <1>3 DEF vars, PInv
  <2>2. On' = On /\ Pending' = Pending
    BY <1>3, OnIs DEF vars
  <2>3. QED
    BY <2>1, <2>2 DEF Goal, Promise!vars
<1>4. QED
  BY <1>1, <1>2, <1>3 DEF Next

\* The invariant holds the properties of the module.
LEMMA PInvImplies == PInv => TypeOK /\ MediaBelongToView
<1> SUFFICES ASSUME PInv PROVE TypeOK /\ MediaBelongToView
  OBVIOUS
<1>1. TypeOK
  BY DEF PInv, TypeOK, Media, View, Queue, States, Checks, Kinds, Stops
<1>2. MediaBelongToView
  BY DEF PInv, Sound, MediaBelongToView, Listening
<1>3. QED
  BY <1>1, <1>2

\* The invariant holds.
LEMMA Inductive == Spec => []PInv
<1>1. PInv /\ [Next]_vars => PInv'
  BY StepPInv DEF Goal
<1>2. QED
  BY <1>1, InitPInv, PTL DEF Spec

\* The state keeps its types, whatever the lesson's text.
THEOREM TypeCorrect == Spec => []TypeOK
BY Inductive, PInvImplies, PTL

\* Whatever is on belongs to a control on screen that shows it and can stop it
\* (stopMedia, the cleanups of the effects), whatever the lesson's text.
THEOREM MediaBelong == Spec => []MediaBelongToView
BY Inductive, PInvImplies, PTL

\* The page implements PracticeMedia: starting a medium stops the others, in every
\* sentence (usePracticeMedia).
THEOREM Implements == Spec => OneMediumAtATime
<1>1. PInv /\ [Next]_vars => [Promise!Next]_(Promise!vars)
  BY StepPInv DEF Goal
<1>2. QED
  BY <1>1, InitPInv, Inductive, PTL DEF Spec, OneMediumAtATime, Promise!Spec

\* No step of PracticeMedia adds a second medium whose play event is handled.
LEMMA StepOneMedium == Promise!OneMedium /\ [Promise!Next]_(Promise!vars) => Promise!OneMedium'
<1> SUFFICES ASSUME Promise!OneMedium, [Promise!Next]_(Promise!vars) PROVE Promise!OneMedium'
  OBVIOUS
<1>1. ASSUME NEW x \in On', Promise!Start(x) PROVE Promise!OneMedium'
  <2>1. On' \ Pending' \subseteq {x}
    BY <1>1 DEF Promise!Start, Promise!Kept
  <2>2. QED
    BY <2>1 DEF Promise!OneMedium
<1>2. CASE Promise!Stop \/ \E x \in On' : Promise!SelfStart(x)
  <2>1. On' \ Pending' \subseteq On \ Pending
    BY <1>2 DEF Promise!Stop, Promise!SelfStart, Promise!Kept
  <2>2. QED
    BY <2>1 DEF Promise!OneMedium
<1>3. ASSUME NEW x \in Pending, Promise!Handle(x) PROVE Promise!OneMedium'
  BY <1>3 DEF Promise!Handle, Promise!OneMedium
<1>4. CASE UNCHANGED Promise!vars
  BY <1>4 DEF Promise!vars, Promise!OneMedium
<1>5. QED
  BY <1>1, <1>2, <1>3, <1>4 DEF Promise!Next

\* Of the page's media whose play events have been handled at most one is on, so
\* two are never on together but for the instant between the two.
THEOREM AtMostOneMedium == Spec => []Promise!OneMedium
<1>1. Promise!Init => Promise!OneMedium
  BY DEF Promise!Init, Promise!OneMedium
<1>2. QED
  BY <1>1, StepOneMedium, Implements, PTL DEF OneMediumAtATime, Promise!Spec
=============================================================================
