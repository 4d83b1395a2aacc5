----------------------------- MODULE WebClient -----------------------------
(***************************************************************************)
(* The browser's page, web/app.js: the open session, the sprint, the        *)
(* recorder and the spoken reply.  A click runs to its first await; what    *)
(* comes after an await runs when the answer arrives, whatever the page     *)
(* shows by then.  The server (external) answers each request, in any order *)
(* between requests, or not at all.                                         *)
(*                                                                          *)
(* Sessions and sprints are named by the request that opened them; 0 is     *)
(* null.  What a session shows is abstracted to whose it is.                *)
(***************************************************************************)
EXTENDS Playback

CONSTANTS
  MaxRequests,   \* bounds of the model: the requests of the page, ...
  MaxFlights,    \* ... those that are awaited at a time,
  MaxSentences,  \* the sentences the server speaks ...
  MaxRecordings  \* ... and the recordings

ASSUME ClientAssumption ==
  /\ MaxRequests \in Nat /\ MaxFlights \in Nat
  /\ MaxSentences \in Nat /\ MaxRecordings \in Nat

VARIABLES
  sessionId,   \* the open session
  panels,      \* the visible ones of library, session, drills and dashboard
  view,        \* whose state is rendered in #view
  buttons,     \* whose buttons are in #controls
  composer,    \* can a message be typed?
  turns,       \* whose turns, exhibits and remarks are in #transcript
  drillId,     \* the sprint that Grade sends
  form,        \* the sprint whose inputs are on the page
  recorder,    \* state of the recorder: "none", "recording" or "inactive"
  microphones, \* the number of streams that are open
  voiceTurn,   \* the pending turn came from the microphone
  flights,     \* the requests that are not answered yet
  issued,      \* the number of requests sent
  recorded,    \* history: the number of transcripts received
  spoken,      \* history: the number of messages sent to be spoken back
  graded,      \* history: the sprints whose result has been shown
  calm         \* history: has the user always waited, and did all sentences play?

shownVars == <<view, buttons, composer, turns>>
pageVars == <<sessionId, panels, shownVars>>
drillVars == <<drillId, form, graded>>
micVars == <<recorder, microphones, voiceTurn, recorded, spoken>>
netVars == <<flights, issued>>
vars == <<audioVars, pageVars, drillVars, micVars, netVars, calm>>

Init ==
  /\ AudioInit
  /\ sessionId = 0 /\ panels = {"library"}
  /\ view = 0 /\ buttons = 0 /\ composer = FALSE /\ turns = {}
  /\ drillId = 0 /\ form = 0 /\ graded = {}
  /\ recorder = "none" /\ microphones = 0 /\ voiceTurn = FALSE
  /\ recorded = 0 /\ spoken = 0
  /\ flights = {} /\ issued = 0
  /\ calm = TRUE

(* What is awaited: a request, the microphone, or the recorder's stop event.*)
(* sid is the session or sprint in the URL, speak what sendMessage took     *)
(* from voiceTurn.                                                          *)
Flight == [n : Nat, kind : {"start", "act", "exhibit", "review", "message",
                            "audio", "sprint", "grade", "dashboard",
                            "microphone", "stop"},
           sid : Nat, speak : BOOLEAN]

-----------------------------------------------------------------------------
(* A click on something the page shows.                                     *)
Click(panel) ==
  /\ panel \in panels
  /\ calm' = (calm /\ flights = {} /\ players = {})

Send(kind, sid, speak) ==
  /\ issued < MaxRequests /\ Cardinality(flights) < MaxFlights
  /\ issued' = issued + 1
  /\ flights' = flights \cup {[n |-> issued + 1, kind |-> kind, sid |-> sid,
                               speak |-> speak]}

(* Mutant: the panel before stays.                                          *)
ShowsBoth(panel, hides) == panels' = panels \cup {panel}

Shows(panel, hides) == panels' = (panels \ {hides}) \cup {panel}

ClickStart ==
  /\ Click("library") /\ Send("start", 0, FALSE)
  /\ UNCHANGED <<audioVars, pageVars, drillVars, micVars>>

(* The buttons of the rendered state: an action, an exhibit, the review.    *)
ClickInView ==
  /\ Click("session") /\ buttons # 0
  /\ \E kind \in {"act", "exhibit", "review"} : Send(kind, sessionId, FALSE)
  /\ UNCHANGED <<audioVars, pageVars, drillVars, micVars>>

(* Mutant: the flag is not taken down.                                      *)
TakeVoiceTurnKept == UNCHANGED voiceTurn

(* sendMessage: the next message after a transcript is spoken back, whatever*)
(* was typed instead of it and in whatever session.                         *)
TakeVoiceTurn == voiceTurn' = FALSE

ClickSend ==
  /\ Click("session") /\ composer /\ Send("message", sessionId, voiceTurn)
  /\ TakeVoiceTurn
  /\ spoken' = IF voiceTurn THEN spoken + 1 ELSE spoken
  /\ turns' = turns \cup {sessionId}
  /\ UNCHANGED <<audioVars, sessionId, panels, view, buttons, composer, drillVars,
                 recorder, microphones, recorded>>

(* quit: neither the requests under way nor the recorder nor the sentence   *)
(* that is playing is stopped.                                              *)
ClickQuit ==
  /\ Click("session")
  /\ sessionId' = 0
  /\ Shows("library", "session")
  /\ StopAudio
  /\ UNCHANGED <<shownVars, drillVars, micVars, netVars>>

(* Mental math or flashcards.                                               *)
ClickSprint ==
  /\ Click("library") /\ Send("sprint", 0, FALSE)
  /\ UNCHANGED <<audioVars, pageVars, drillVars, micVars>>

ClickGrade ==
  /\ Click("drills") /\ drillId # 0
  /\ Send("grade", drillId, FALSE)
  /\ UNCHANGED <<audioVars, pageVars, drillVars, micVars>>

CloseDrills ==
  /\ Click("drills")
  /\ drillId' = 0
  /\ Shows("library", "drills")
  /\ UNCHANGED <<audioVars, sessionId, shownVars, form, graded, micVars, netVars>>

ClickDashboard ==
  /\ Click("library") /\ Send("dashboard", 0, FALSE)
  /\ UNCHANGED <<audioVars, pageVars, drillVars, micVars>>

CloseDashboard ==
  /\ Click("dashboard")
  /\ Shows("library", "dashboard")
  /\ UNCHANGED <<audioVars, sessionId, shownVars, drillVars, micVars, netVars>>

(* toggleRecording: asks for the microphone unless it is recording.         *)
ClickSpeak ==
  /\ Click("session") /\ composer /\ recorder # "recording"
  /\ microphones + recorded < MaxRecordings
  /\ Send("microphone", 0, FALSE)
  /\ UNCHANGED <<audioVars, pageVars, drillVars, micVars>>

ReleaseTracks == microphones' = microphones - 1

(* stopRecording.                                                           *)
ClickStop ==
  /\ Click("session") /\ composer /\ recorder = "recording"
  /\ recorder' = "inactive"
  /\ ReleaseTracks
  /\ Send("stop", 0, FALSE)
  /\ UNCHANGED <<audioVars, pageVars, drillVars, voiceTurn, recorded, spoken>>

-----------------------------------------------------------------------------
(* The answers.                                                             *)
Answered(f) == flights' = flights \ {f} /\ UNCHANGED <<issued, calm>>

Started(f) ==
  /\ f.kind = "start" /\ Answered(f)
  /\ sessionId' = f.n
  /\ Shows("session", "library")
  /\ turns' = {} /\ view' = f.n /\ buttons' = f.n /\ composer' = TRUE
  /\ UNCHANGED <<audioVars, drillVars, micVars>>

(* act: a verdict or a hint joins the transcript, and the state is rendered,*)
(* in whatever session is open; a session that is over has no buttons.      *)
Rendered(f) ==
  /\ f.kind = "act" /\ Answered(f)
  /\ view' = f.sid
  /\ buttons' \in {0, f.sid} /\ composer' \in BOOLEAN
  /\ turns' \in {turns, turns \cup {f.sid}}
  /\ UNCHANGED <<audioVars, sessionId, panels, drillVars, micVars>>

(* act with an answer that has no state (a session the server has lost):    *)
(* render clears the page and throws.                                       *)
RenderThrows(f) ==
  /\ f.kind = "act" /\ Answered(f)
  /\ view' = 0 /\ buttons' = 0 /\ composer' = TRUE
  /\ UNCHANGED <<audioVars, sessionId, panels, turns, drillVars, micVars>>

(* viewExhibit.                                                             *)
ExhibitShown(f) ==
  /\ f.kind = "exhibit" /\ Answered(f)
  /\ turns' = turns \cup {f.sid}
  /\ UNCHANGED <<audioVars, sessionId, panels, view, buttons, composer, drillVars,
                 micVars>>

(* showReview takes the place of everything else.                           *)
ReviewShown(f) ==
  /\ f.kind = "review" /\ Answered(f)
  /\ view' = f.sid /\ buttons' = 0 /\ composer' = FALSE /\ turns' = {f.sid}
  /\ UNCHANGED <<audioVars, sessionId, panels, drillVars, micVars>>

(* showReview of a session that has none, or that the server has lost: the  *)
(* page is cleared, and then the answer has no scores to show.              *)
ReviewThrows(f) ==
  /\ f.kind = "review" /\ Answered(f)
  /\ view' = 0 /\ buttons' = 0 /\ composer' = FALSE /\ turns' = {}
  /\ UNCHANGED <<audioVars, sessionId, panels, drillVars, micVars>>

(* sendMessage goes on reading; the tokens go to the element it captured.   *)
Speaks(f) ==
  /\ f.kind = "message" /\ f.speak /\ arrived < MaxSentences
  /\ Enqueue
  /\ UNCHANGED <<pageVars, drillVars, micVars, netVars, calm>>

Streamed(f) ==
  /\ f.kind = "message" /\ Answered(f)
  /\ UNCHANGED <<audioVars, pageVars, drillVars, micVars>>

(* startSprint: the id and the inputs are set together.                     *)
OpenForm(n) == form' = n /\ drillId' = n

SprintOpens(f) ==
  /\ f.kind = "sprint" /\ Answered(f)
  /\ OpenForm(f.n)
  /\ Shows("drills", "library")
  /\ UNCHANGED <<audioVars, sessionId, shownVars, graded, micVars>>

DashboardOpens(f) ==
  /\ f.kind = "dashboard" /\ Answered(f)
  /\ Shows("dashboard", "library")
  /\ UNCHANGED <<audioVars, sessionId, shownVars, drillVars, micVars>>

(* gradeDrills: the id is forgotten, also when it is a newer sprint's.      *)
SprintGraded(f) ==
  /\ f.kind = "grade" /\ f.sid \notin graded /\ Answered(f)
  /\ graded' = graded \cup {f.sid}
  /\ drillId' = 0
  /\ UNCHANGED <<audioVars, pageVars, form, micVars>>

(* The 404 of a second Grade has no items, which throws.                    *)
GradeThrows(f) ==
  /\ f.kind = "grade" /\ f.sid \in graded /\ Answered(f)
  /\ UNCHANGED <<audioVars, pageVars, drillVars, micVars>>

(* startRecording: a second stream takes the place of the first, which is   *)
(* then beyond reach.                                                       *)
Recording(f) ==
  /\ f.kind = "microphone" /\ Answered(f)
  /\ recorder' = "recording"
  /\ microphones' = microphones + 1
  /\ UNCHANGED <<audioVars, pageVars, drillVars, voiceTurn, recorded, spoken>>

(* uploadRecording, to the session that is open by then.                    *)
Uploads(f) ==
  /\ f.kind = "stop"
  /\ flights' = (flights \ {f}) \cup
       (IF sessionId = 0 THEN {} ELSE {[f EXCEPT !.kind = "audio", !.sid = sessionId]})
  /\ UNCHANGED <<audioVars, pageVars, drillVars, micVars, issued, calm>>

(* The answer to it: the composer holds the transcript; without one the user *)
(* is asked to type.                                                        *)
Transcribed(f) ==
  /\ f.kind = "audio" /\ Answered(f)
  /\ voiceTurn' = TRUE /\ recorded' = recorded + 1
  /\ UNCHANGED <<audioVars, pageVars, drillVars, recorder, microphones, spoken>>

NotTranscribed(f) ==
  /\ f.kind = "audio" /\ Answered(f)
  /\ turns' = turns \cup {f.sid}
  /\ UNCHANGED <<audioVars, sessionId, panels, view, buttons, composer, drillVars,
                 micVars>>

(* No answer, or one that the handler reports and drops.                    *)
Lost(f) ==
  /\ f.kind # "stop"
  /\ Answered(f)
  /\ UNCHANGED <<audioVars, pageVars, drillVars, micVars>>

Arrives(f) ==
  \/ Started(f) \/ Rendered(f) \/ RenderThrows(f) \/ ExhibitShown(f)
  \/ ReviewShown(f) \/ ReviewThrows(f) \/ Speaks(f) \/ Streamed(f) \/ SprintOpens(f)
  \/ SprintGraded(f) \/ GradeThrows(f) \/ DashboardOpens(f)
  \/ Recording(f) \/ Uploads(f) \/ Transcribed(f) \/ NotTranscribed(f) \/ Lost(f)

EndOfSentence(k) ==
  /\ PlayerEnds(k)
  /\ UNCHANGED <<pageVars, drillVars, micVars, netVars, calm>>

SentenceFails(k) ==
  /\ PlayerRefused(k)
  /\ calm' = FALSE
  /\ UNCHANGED <<pageVars, drillVars, micVars, netVars>>

Clicks ==
  \/ ClickStart \/ ClickInView \/ ClickSend \/ ClickQuit \/ ClickSprint
  \/ ClickGrade \/ CloseDrills \/ ClickDashboard \/ CloseDashboard
  \/ ClickSpeak \/ ClickStop

Plays == \E k \in players : EndOfSentence(k) \/ SentenceFails(k)

Next == Clicks \/ (\E f \in flights : Arrives(f)) \/ Plays

Spec == Init /\ [][Next]_vars

(* A sentence that plays comes to its end; the user and the network owe     *)
(* nothing.                                                                 *)
FairSpec == Spec /\ WF_vars(Plays)

-----------------------------------------------------------------------------
TypeOK ==
  /\ AudioTypeOK
  /\ sessionId \in Nat /\ view \in Nat /\ buttons \in {0, view}
  /\ composer \in BOOLEAN /\ turns \subseteq Nat
  /\ panels \subseteq {"library", "session", "drills", "dashboard"}
  /\ drillId \in Nat /\ form \in Nat /\ graded \subseteq Nat
  /\ recorder \in {"none", "recording", "inactive"}
  /\ microphones \in Nat
  /\ voiceTurn \in BOOLEAN
  /\ flights \subseteq Flight
  /\ issued \in Nat /\ recorded \in Nat /\ spoken \in Nat
  /\ calm \in BOOLEAN

(* "One session at a time" (app.js:1).  While the user waits for each       *)
(* answer, one panel is visible, and the state, the turns and the exhibits  *)
(* on the page are those of the open session.                               *)
PageIsOfSession ==
  calm =>
    /\ Cardinality(panels) = 1
    /\ "session" \in panels <=> sessionId # 0
    /\ sessionId # 0 => view \in {0, sessionId} /\ turns \subseteq {sessionId}

(* startSprint and gradeDrills, in every interleaving: answers are never    *)
(* sent for another sprint than the one whose questions they answer.  While *)
(* the user waits, a sprint on the page that is not graded can be.          *)
FormIsGradable ==
  /\ drillId \in {0, form}
  /\ calm /\ "drills" \in panels /\ form \notin graded => drillId = form

(* In every interleaving, no recording has more than one reply spoken back. *)
(* (The reply may be to a typed message: voiceTurn outlives a transcript    *)
(* that is edited away, and the session.)                                   *)
SpokenOncePerRecording == spoken + (IF voiceTurn THEN 1 ELSE 0) <= recorded

(* While the user waits, a microphone that is open is being recorded from:  *)
(* stopping releases it.  (Quitting does not stop a recording.)             *)
MicrophoneReleased ==
  calm => microphones = (IF recorder = "recording" THEN 1 ELSE 0)

(* While the user waits and each sentence can be played, one is heard at a  *)
(* time.                                                                    *)
OneVoiceIfCalm == calm => OneVoice

(* What is on the page can be acted on, and belongs together.               *)
PageIsSound == PageIsOfSession /\ FormIsGradable

(* The voice path: a recording is answered aloud at most once; and while    *)
(* the user waits, no microphone is left open by a recorder that has        *)
(* stopped, and no two sentences are heard at once.                         *)
VoiceIsSound == SpokenOncePerRecording /\ MicrophoneReleased /\ OneVoiceIfCalm

(* stopAudio, playNextAudio and two chains of players after a quit share    *)
(* one queue and one flag: whatever happens, no sentence is left waiting.   *)
QueueDrains == (audioQueue # <<>>) ~> (audioQueue = <<>>)
=============================================================================
