# CasePrep in TLA+

A specification of CasePrep Local (`src/`), the case-interview trainer: a FastAPI
server around three state machines (case, guesstimate, lesson), an LLM reached
through a failover router, and an SQLite store. It models the parts where the
order of things matters, checks them with TLC on small instances, and proves the
invariants that hold for every instance with TLAPS.

## The system

| Part | Code | State | Operations |
| --- | --- | --- | --- |
| Case state machine | `app/engine/case_flow.py` | phase index, attempted, unlocked exhibits, hints, timings, transcript | advance, close, record_turn, unlock_exhibit, hint, coach_reveal, context |
| Live case session | `app/main.py` (LiveCaseSession, `_stream`, routes) | the end payload; for each request a thread and its locals | message, advance and end, hint, reveal, exhibit; review (reads) |
| Scoring | `app/engine/scoring.py` | none of its own | score_case (groups of two dimensions, one reformat retry), apply_hint_penalty, persist_scorecard |
| Provider router | `app/providers/router.py`, `llm_client.py` | last provider, surfaced auth failures; for each turn a generator in a retry loop in a failover loop | chat, status, transcribe |
| Store and session manager | `app/db/store.py`, `app/engine/session_manager.py` | tables sessions, turns, scorecards, drill_results on one shared connection | create, end, add and list rows (the diagnostic baseline of `session_manager.py` has no caller outside the tests) |
| Guesstimate session | `app/engine/guess_flow.py`, LiveGuessSession | step, segment, estimates, transcript | advance, submit_estimate, message |
| Lesson session | `app/engine/lesson_flow.py`, LiveLessonSession | stage, section, quiz position, correct answers | advance_section, answer, message |
| Live engine and drills | LiveEngine in `app/main.py`, `app/engine/drills.py` | open sessions, open sprints | start, drill_start, drill_grade |
| Progress, ladder, dashboard | `app/engine/progress.py`, `ladder.py`, `dashboard.py` | none | pure functions of the stored rows |
| Terminal interface | `app/cli.py` | none | drives the same flows, one line at a time |
| Content | `content_loader.py`, `content_models.py`, `validation.py` | the library, read at start | load, validate |
| Speech and numbers | `stt_postprocess.py`, `stt_client.py`, `math_checker.py`, `app/speech/tts.py` | the speech model | number phrases, checkpoints, sentences of a stream; recognition and synthesis are external |
| Browser client | `web/app.js` | open session, drill, recorder, audio queue | the user's side of every route |

**Interaction.** The browser sends a request per user action and may send another
before the first is answered: no button is disabled while a request runs. The
server runs each request in a worker thread, and a reply is streamed by a generator
that is pulled from worker threads until it ends or the client goes away. All
threads share the session object, its flow, the router and one SQLite connection,
and there is no lock. `app/db/store.py` and `docs/decisions.md` justify this by
sequential access; so the specification is checked both ways. In the browser, whatever
follows an `await` runs when the answer arrives, in whatever state the page is by then.
The terminal is one thread with the same flows and the same store.

**What is hard.** Requests that overlap (a message and an advance, two clicks on
*Finish*, a hint during the scoring); operations of several LLM calls and commits
that fail half-way and are tried again; streams that break or are dropped; retries
inside failover inside concurrent turns; one connection, one transaction and one
prepared statement under all threads, and a process that may die between two of them;
answers that arrive late in the browser; text cut at arbitrary places; content that
comes and goes under the rows it left behind. `PROJECT.json` lists every such hazard with
its line and the properties that watch it.

**What makes each part correct.** *Case*: phases in order, each timed once;
exhibits open when due; the model approach only after an attempt in that phase.
*Session*: the stored conversation is the transcript; a case ends once, the request that
ends it stores a whole card, after those that failed, docked consistently, and always
shows its reveal. *Router*: bounded calls, the
first provider that can serve does, failure only for a reason, no failover after a
first token, nothing keyed offline. *Guesstimate*: each segment estimated once and
in order. *Lesson*: each question graded once, and completion visible to the ladder.
*Drills*: a sprint recorded at most once, and when graded. *Store*: every call
returns the id of its own row, and the rows of an answered request are on the disk, once.
*Client*: an answer is shown in the session it belongs to, sentences are heard one at a
time, start in order, none twice, and none stays in the queue. *Terminal*: what is said is stored as said, a result is whole.
*Speech and numbers*: a reply is spoken as written, a number is read, shown and checked
as the same number. *Scoring*: hints never turn the order of the dimensions around.
*Ladder*: the next step can be defended from the rows. *Content*: what is
offered can be used, and a new file takes content away only as its namesake or by a start
that fails because of it.

## Modules

| Module | Models |
| --- | --- |
| `CaseFlow` | `CaseFlow`: its fields are the variables, its methods operators that constrain what they assign |
| `StoreCalls` | what the requests of one session see of `add_turn` and `add_scorecard`: a call is two steps, and one that meets another may fail |
| `CaseSession` | `LiveCaseSession` with its flow, scoring and rows; extends `CaseFlow` and `StoreCalls` |
| `CaseProtocol` | abstract: what a session promises the candidate |
| `CaseRefinement` | `CaseSession` implements `CaseProtocol` |
| `MCCaseSession` | the instance for TLC |
| `CaseSession_proofs` | theorems about `CaseSession` under every interleaving and for a user who waits, `CaseRefinement` among them |
| `Router` | `Router.chat` for a set of concurrent turns |
| `TurnService` | abstract: what the engine may rely on when it asks for a turn |
| `RouterRefinement` | `Router` implements `TurnService` |
| `MCRouter` | the instance for TLC |
| `Router_proofs` | theorems about `Router` and `RouterRefinement` |
| `Conversation` | a message whose reply needs no more than the transcript: `reply_tokens` and `_stream` for a set of threads, over `StoreCalls`; extended by the next two sessions |
| `GuessSession` | `LiveGuessSession` with `GuessFlow` |
| `LessonFlow` | `LessonFlow`, as operators that constrain what they assign, and when a lesson counts as taught |
| `LessonSession` | `LiveLessonSession`: `LessonFlow` behind the web, with the page the browser shows |
| `Terminal` | `app/cli.py`: a case, a lesson or a sprint at the command line, over `CaseFlow` and `LessonFlow` |
| `TerminalRefinement` | `Terminal` implements `CaseProtocol` too |
| `Terminal_proofs` | theorems about `Terminal` and `TerminalRefinement` |
| `Store` | class `Store`: its one connection, statement by statement, under several threads |
| `Engine` | `LiveEngine`'s tables and what each request writes, over `Store`; restarts |
| `Playback` | the browser's queue of spoken sentences |
| `WebClient` | the rest of `web/app.js`: requests in flight and what their answers do to the page; extends `Playback` |
| `Sentences` | cutting a streamed reply into sentences: `drain_sentences` and its loops |
| `Numbers` | number phrases, typed numbers and checkpoints: `stt_postprocess.py`, `math_checker.py` |
| `Scorecard` | the transcript a scoring call sees, the penalty, anchors, what to study next |
| `Sprint` | drawing, grading and summing up drills |
| `Progress` | coverage, ladder and dashboard over the stored rows |
| `Content` | the library that a set of files loads as |
| `MCGuessSession`, `MCLesson`, `MCTerminal`, `MCEngine`, `MCAlgorithms` | the instances for TLC; the last one is about the six modules before it |
| `Sessions_proofs` | lemmas about the conversation and about counting threads, theorems about the guesstimate and the lesson |
| `Engine_proofs`, `WebClient_proofs` | theorems about the engine on its store and about the page with its player |
| `InductionLemmas` | induction over numbers and sequences, that folds run and sums add up |
| `Algorithms_proofs` | theorems about `Content`, `Scorecard`, `Progress`, `Sprint`, `Sentences`, `Numbers` and about all six together |

Definitions whose comment starts with *Mutant* are no part of a specification. Each
is the code with a plausible bug, and is used to see that a property fails with it.

### StoreCalls

`Store` has a call of the store statement by statement; the sessions need what their own
requests can see of it. A caller binds its row (`BindRow`, into `bound`, one per table, as
the connection has one prepared statement per text) and then the statement runs
(`Returns`) with what is bound by then. `call` says whether a call under way has met
another, and `overlapped`, a history variable, which callers ever had one that did. A call
alone succeeds. Of those that meet, any may be refused before its row (`Refused`: BEGIN or
bind raises), inserted and then refused (COMMIT raises), or insert the values of the later
one twice. Each of these outcomes is one that `Store` has. The properties of overlapping
requests say what they promise to a request that is not in `overlapped`, and what the
others may do at worst.

### CaseSession

The variables `phase`, `attempted`, `unlocked`, `hints`, `timings`, `transcript`
are the fields of `CaseFlow`, `payload` is `_end_payload`, `turns` and `cards` are
the session's rows. `revealed` is a history variable: the phases whose model
approach has left the engine, by the coach's reveal or in the coach's prompt. A
request `r` is a thread: `pc[r]` says which call it makes next and `loc[r]` holds
its locals. A step lasts from one call (database, LLM, a method of the flow) to the
next, since that is where another thread can take over: the project requires Python
3.12, whose interpreter hands over when a function is entered, at a backward jump, or
in a call that releases its lock, and never inside `i += 1` of an attribute.

| Code | Actions |
| --- | --- |
| `POST /message`: `reply_tokens`, `_stream` | `SendMessage`, then `ReadPhase`, `HearUser`, `StoreUser`, `BuildContext`, `HearReply`, `StoreReply`; `StreamFails` when no provider serves or the stream breaks; `Disconnect` when the client drops the response, at a point where the generator is suspended (before its first pull or at a `yield`: between two, the worker thread runs on) |
| `record_turn` of the session manager, `add_scorecard` | `BindStored` or `StoreRefuses`, before `StoreUser`, `StoreReply`, `NoteOverruns` and `PersistRow`, each of which may return or raise |
| `POST /action` *advance*, more phases to come | `Advance`, then `LeavePhase`, `EnterPhase`, `OpenExhibits`; `AdvanceRefused` for `CaseComplete` |
| *advance* at the last phase: `_end` | `Advance`, then `CloseCase`, `NoteOverruns`, `ScoreGroup` for each group, `PersistRow` for each dimension, `Reveal`; `Unparsable` for the reformat retry and `ScoringError`, `ScoringUnserved` for an error `_end` does not catch, `PersistRaises` for evidence that cannot be joined (`scoring.py:202`; `_parse` never looks into it), `RevealFails` for a rubric without anchors, after all rows are stored (`scoring.py:237`), `EndAgain` when the payload is there, `EndFails` for an index past the phases |
| *hint*, *reveal*, *exhibit* | `Hint`, `CoachReveal`, `ShowExhibit`, one step each |

Left out: texts, the values of the scores (a row keeps the penalty it was docked
by), elapsed times (any phase with a budget may turn out overrun), the read-only
routes review and exhibit. `hint_cost` is a float in the configuration and a
natural here; the code rounds the product.

### Router

Turn `t` is one call of `chat`: `stage[t]`, `at[t]` and `attempt[t]` are the place
of its generator, the provider and the loop variable. `tries` and `verdict` are
history: how often the turn called each provider and the class of the last error.
`lastProvider` and `authSurfaced` are shared by all turns. A call and its answer are
one step: `FirstToken`, `EmptyReply`, `Malformed` (a chunk the client cannot decode,
an exception the loop does not catch), or an error, which `Classify` sends to
`Retry`, `FailOver`, `AuthFails` or `Fatal`. `Resume` ends a back-off,
`FinishStream` the stream. Left out: how long a back-off lasts, rate-limit telemetry,
and the `transcribe` arm, one
provider without retry or failover that degrades to typed input (`WebClient` has both answers).

### GuessSession

`step`, `segment`, `estimates` are `_step_i`, `_seg_i`, `_estimates`; `turns` and
`transcript` come from `Conversation`. Here a thread is reused: idle again after a
request it takes the next, so two threads are a user who waits for each answer, or
does not: the history variable `waited` tells. An estimate keeps the segment it is
recorded for and the one it is checked against.

| Code | Actions |
| --- | --- |
| `POST /message` | `SendMessage`, then `HearUser`, `BindTurn`, `StoreUser`, and `HearReply`, `BindTurn`, `StoreReply` or `ReplyFails`; `TurnRefused` when the store raises |
| `POST /action` *advance* | `AdvanceGuess` (or `AdvanceRefused`), then `LeaveStep` |
| *estimate* | `Estimate`, then `TakeSegment`, `RecordEstimate`, `CountSegment`, and `CloseEstimation` after the last segment |

Left out: the values and the checks of them, which only reach the answer; requests
that `float()` or the step refuses, which change nothing.

### LessonSession

`stage`, `section`, `question`, `correct` are the fields of `LessonFlow`; `ended` is
the row's `ended_at`; `answers` is history. The web user answers what is on the screen,
`page`, which is the state in the last response rendered; a click on an old page is how
an answer meets another question than the one it was chosen for. `freeForm`, the
questions without options, is chosen with the lesson and never changes.

| Code | Actions |
| --- | --- |
| *advance* | `Advance`, `CompareSection`, `LeaveSection` |
| *answer* | `Answer`, `ReadQuestion`, `TakeItem`, then `Grade` or `NoGrader`, and `FinishQuiz` after the last question |
| exceptions, responses | `Fail`, `Respond` |

Left out: texts, how an answer is compared with the options (a verdict is either), the
coverage shown at the end.

### Terminal

`at` is the place in the loops: a prompt, a call under way, or leaving. `command` is the
argument the program was started with; `turns` and `card` are the session's rows, `coached`
and `shown` what the user has seen, `posed` and `recorded` the sprint.

| Code | Actions |
| --- | --- |
| `run_case`, `_phase_loop` | `Say`, `Reply`; `CoachReveal`, `ShowExhibit`, `NextPhase` |
| `_end_feedback` | `Score`, `StoreScore` for each row, `ShowAnswer`; `ResultsFail` when a row or the feedback cannot be made |
| `run_lesson`, teaching and quiz | `NextLoop`, `Ask`, `Explain`, `NextSection`; `TypeAnswer`, `GradeAnswer` |
| `run_sprint` | `AnswerDrill`, `RecordSprint` |
| an exception, */quit*, `finally` | `CallFails`, `Quit`, `EndSession` |

### Store and Engine

A writing method of `Store` is `execute`, `commit`, `lastrowid`. CPython's `sqlite3`
releases the interpreter's lock inside BEGIN, the statement and COMMIT and keeps one
prepared statement per text, so a method is `Execute`, `BeginWork`, `Bind`, `Insert`,
`ReadRowid`, `TestCommit`, `Commit`; the transaction, the rowid and the bound values are
the connection's. `rows` is what the connection sees, `durable` what a restart finds
(`StoreRestart`). `BindRefused`, `InsertRefused` and a BEGIN or COMMIT at the wrong time
raise. That the steps are the right ones was confirmed with the class itself: threads
that call `create_session` on one `Store` get each other's ids and `OperationalError`s.

A request of `Engine` is a program of statements (`Program`); `Continue` makes the next
call with the id the last one returned, `Answer` and `Fail` end the request, and `Breaks`
a message between its rows or an end after any call of the store. `Start`, `Message`,
`Finish`, `StartSprint` and `Grade` are the routes; `TakeSprint` is the `pop`. An end writes
the turn about overruns, if there are any, and then the card; after a `ScoringError` it is
over without a card: `EndsUnscored` if it had overruns, else `FinishBare`, which writes
nothing at all. What happens between the statements belongs to the sessions' modules.
`DiagnosticSession` is left out: nothing but its tests makes one. `Restart` is the process killed and
started again, at any step.

### Playback and WebClient

A click runs to its first `await` (`ClickStart`, `ClickSend`, `ClickQuit`, ...) and puts a
request into `flights`; the actions named for an answer (`Rendered`, `Streamed`,
`SprintOpens`, `SprintGraded`, `Transcribed`, ...) are what follows the `await`, for the
page as it is by then; `Lost` is a request without an answer, `ReviewThrows` a review that
the server does not have, whose 404 clears the page before the script throws. Sessions and sprints are
named by the request that opened them, and what a session shows is abstracted to whose it
is. `recorder`, `microphones` and `voiceTurn` are the voice path; `audioQueue`,
`audioPlaying` and `players` the sentences that wait, the flag and the `Audio` elements
still playing, which after `StopAudio` or a refused `play()` may be several. `calm` is a
history variable: the user has waited for each answer and no sentence was refused.

### The algorithms

Each of `Sentences`, `Numbers`, `Scorecard`, `Sprint`, `Progress`, `Content` builds its
input by steps and states what its functions owe for it; the reference definition is
always another one than the code's: positions of ends in the whole text against the
draining buffer, a sum with explicit weights against two running totals, and so on.
Characters are of four classes in `Sentences`; words are units, scales, figures, the words
for percent and the rest in `Numbers`, where `Printed` is what `_fmt` makes of a value, with
an exponent below 0.0001; scores, averages and costs are integers or fractions kept as sums
and counts. In `Scorecard` the model gives any integer as a score, and a rubric anchors any
set of levels, none included. In `Progress` the rows grow (`CreateSession`, `AddScore`, `Finish`) while content comes
and goes (`Reload`); in `Content` an author writes files until a start, and a property compares what two starts
would offer: `Served` is nothing at all when the start `Raises`.

## Runs

| Run | Question | Instance |
| --- | --- | --- |
| `case_sequential` | Does a session keep its promises to a user who waits for each answer? `ScoredByTheLast`, `TranscriptStored`, `RevealIsEarned`, `PhasesInOrder`, `EndIsFinal`, `ImplementsProtocol` | 2 phases, guided, 3 exhibits, 3 dimensions, 5 requests |
| `case_threads` | What survives every interleaving, and is every request answered? `ConversationKept` (`StoreKeepsTurns`, `RepliesFollow`), `ScoringSound` (`OnePenaltyPerRun`, `RevealComesLast`), for requests whose calls of the store meet no other; `EveryRequestAnswered` | the same without exhibits and with coaching in the first phase only, 3 requests of which 2 overlap at a time, fair server |
| `router` | Who is called, who serves, why does a turn fail, does it end? `CallsBounded`, `ChainHonoured` (`ServedInOrder`, `FailsForReason`), `AuthSurfacedOnce`, `ImplementsTurnService`, `TurnEnds` | offline; 4 providers, the second keyed; 1 retry, 2 turns, fair server |
| `guess` | Is each segment estimated once, in order, if the user waits, and what survives if not? `TreeWalkedInOrder`; `EstimationNotSkipped`, `ConversationStored` | 2 segments, 2 threads, 2 turns |
| `lesson` | Is each question graded once, in order, and before completion if the user waits, and what is a complete lesson in any case? `GradedInTurn`; `CompletionIsWhole` (`CompletionCounted`, `EveryQuestionAnswered`) | 2 sections, 3 questions, any of them without options, 2 threads, 2 turns |
| `terminal` | Is what the command line leaves behind true and whole? `StoredAsSaid`, `OutcomeIsSound` (`RevealIsEarned`, `ResultsAreWhole`, `QuizGradedOnce`, `CompletionIsWhole`), `ImplementsProtocol` | 3 phases, 3 lines, 2 sections, 3 questions, 3 dimensions, 2 drills; calls fail anywhere |
| `engine` | What survives on one connection, and a restart? `NothingLeftOpen`, `SprintGradedOnce`, `TypeOK`; for a user who waits `SafeIfSequential` (`NoneRefused`, `OwnRows`, `StoredOnce`, `CardsUnbroken`) | 2 threads, 4 requests of at most 6 statements, 1 restart |
| `client` | What does the page show, hear and say? `StartedInOrder`, `QueueDrains`, `PageIsSound` (`PageIsOfSession` for a user who waits, `FormIsGradable`), `VoiceIsSound` (`SpokenOncePerRecording`; for a user who waits `MicrophoneReleased`, `OneVoice`), `TypeOK` | 6 requests, 2 at a time, 3 sentences, 2 recordings |
| `algorithms` | Do the pure functions agree with their reference definitions? `SpeechIsFaithful`, `NumbersAgree`, `CardIsFair`, `SummaryCountsItems`, `AdviceHolds`, `ProgressOnlyGrows`, `LibraryIsSound`, `UnloadedByNamesake`, `TypeOK` | texts of 6 characters in tokens of 2; phrases of 4 words; 3 turns, hints and dimensions, scores from 0 to 7, 4 rubrics; 2 sprints of 2 drills; 2 sessions; 3 files. One module takes steps in a behaviour, chosen at the start |

Several properties are conjunctions of named parts, each stated and explained where it
is defined. The type invariants of the case, the router, the guesstimate, the lesson and
the terminal are proved, and no run repeats them; those of the engine and of the page are
checked and proved.

**Bounds.** Each request is used once, so the set of requests bounds a session's
length. Two phases are enough to leave one, to be at the last one and, with overlapping
requests, to run past it. Three dimensions make two groups of unequal size. Five
sequential requests are a message, an advance, a message in the next phase, a failed
end and its retry, the longest story any sequential property tells. Three requests, two
at a time (`MaxInFlight`), suffice for two that collide and one that sees the result. In the
router, the three providers that may be called have a first, a middle and a last, and
the keyed one stands between them: online, all four would be as these three are. One
retry tells a first failure from the last one allowed; two turns share the surfaced
failures. Three questions have a first, a middle and a last; two segments a first and a
last, and the theorems are for any number. `MaxTurns`
bounds the transcript: the flow never reads it, so a message or two at any moment
stand for more. Everything else in these sessions is bounded by the flow itself, and
every run explores it to its end. The history variable `waited` says that no request
has overlapped another so far; what is promised to a user who waits is stated of the
states in which it holds. Two threads on the connection meet at every pair of steps; four
requests of six statements are a session, a message, its end and a sprint, or an end that
fails and its retry. Two requests in flight are a late answer and the one that overtook it; six are
enough to quit, open another session and speak in it. Three sentences are one that plays,
one that waits and one behind it. Six characters hold a sentence, its end with a closing
quote, and the start of the next; four words a figure, a unit, a scale and a percent; a value has up to `MaxZeros` zeros after
the point, one more than are printed without an exponent. Scores of 0 and 7 are the ones
that nothing keeps a model from giving, and one rubric has no anchors.
Three files are a case, its lesson and a namesake. The terminal's bounds are lines of
talk only: everything else there ends by itself.

**Fairness.** `FairSpec` of `CaseSession` has weak fairness on the server's steps of
each request: worker threads are scheduled by the operating system, the HTTP client
has a 30 s timeout and the router a bounded number of tries, so each call returns.
The user and the network owe nothing: sending, advancing and disconnecting are not
fair. For the router it is weak fairness on the steps of a turn that has been
started: calls time out, sleeps end. Which answer a call gets is never subject to
fairness. In `WebClient` it is one condition, that sentences which play come to an end
(`Plays`): an `Audio` element calls back. Clicks and answers are not fair.

**Disagreements with the documentation.** Three more runs end in a counterexample:

- `case_reveal_shown`: `docs/chaos-check.md` promises the model answer even when
  scoring has no provider. `_end` catches `ScoringError` only; a `RouterError`
  leaves it before the payload is set. (`_end_feedback` of the terminal is the same:
  "the reveal is always shown", `cli.py:128`, but not after a `RouterError`.)
- `lesson_not_taught`: a lesson completed in the browser never counts as taught, since
  `LiveLessonSession` does not end its row and `build_coverage` asks for `ended_at`.
- `store_shared`: two requests that overlap on the connection get each other's rows or
  an `OperationalError`; `store.py:31` calls it safe by sequential access, which nothing
  enforces. For a user who waits it is (`SafeIfSequential`).

Smaller disagreements that no run is spent on.

*Requests that overlap* (for a user who waits the runs show the opposite): two clicks on
*Finish* store two scorecards, because `_end_payload` is tested before the scoring calls
and set after them; a message that overlaps an advance counts as the attempt of the next
phase (`case_flow.py:126`: "a fresh attempt is required in each phase"); two submits are
both recorded for one segment and count two, so the next segment is never asked
(`guess_flow.py:76`); two messages may be stored in another order than the transcript has
them; an answer that arrives after a quit is rendered into the session opened since; a
second click on *Speak* while the browser asks for the microphone leaves a stream open; a
second *Grade* gets a 404, whose body has no `items`; after a quit the sentence that plays
goes on, and its end starts a second chain of sentences. Two answers that overlap are
graded as one question twice and pass over the next, and the lesson is complete with as
many answers as questions (`lesson_flow.py:91`). Two calls of `add_turn` that overlap, or of
`add_scorecard`, may be refused or store one row twice, after the transcript has both.

*Ends that fail*: `_end` commits a row at a time and sets `_end_payload` last, so an end that
raises between the rows or after them leaves them, and the retry stores a card of its own:
the session then has one card and a part, or two, and the ladder averages them all. At the
command line an interrupt or a raise between two rows leaves part of a card under a row
that `main` ends all the same (`cli.py:285`).

*Voice*: `voiceTurn` is set by a transcription and used by the next message, whatever it is:
when the transcript is edited away, or the session is quit, the reply to a typed message is
spoken, though `app.js:162` and `main.py:88` speak of turns from the microphone. Quitting
leaves the recorder running. A review that the server does not have clears the page and
then throws (`app.js:423`).

*What counts*: at the command line any lesson counts as taught, also one left at the first
prompt, since `main` ends the row whatever happens (`progress.py:6`: "Concepts come from a
completed lesson's `concepts_taught`"). Sessions of the browser are never ended, so the
dashboard's completed sessions leave them out. The message of a graduation counts attempts
that were not scored; the message of a weakness says "below the bar" of guided averages
above it.

*Numbers*: "10, 20" is detected as one number, 30, though `detect_numbers` promises every
number stated; "zero lakh" is 100000 for the detector and 0 for `parse_numbers`;
`replaceNumber` replaces the first occurrence of the value that was heard, not of the one
on the screen; a submit without a value is recorded as NaN. The two readers have different
tables: typed, "20 percent" is 20 and "2 hundred" is 2 (`math_checker.py:18`); spoken, they
are 0.2 and 200. `_fmt` prints a value below 0.0001 with an exponent
(`stt_postprocess.py:140`), and what is shown as 5e-05 is then read as 5 and -05. A score is
not checked to be from 1 to 5 (`scoring.py:142`), one below 1 is lifted to 1 by the first
point that hints cost, and a rubric without anchors raises after the scorecard is stored. The
validator takes a segment's tolerance as absolute, `check_segment` as relative.

*Content*: a file that is not UTF-8, or an expression that divides by zero, stops the
start, though `docs/03_CONTENT_SPEC.md:75` says that loading never crashes the app;
`"phase: math"` passes the validator and never opens the exhibit; a lesson that is
dropped as a duplicate still counts as a prerequisite; an empty list of phases and two
phases of one name are accepted. A question without options has no grader in the browser,
so that its lesson cannot be completed there (no lesson file has one today).

*Elsewhere*: the docstring of the router says two tries, the code makes `max_retries + 1`
calls, three by default. `evaluate_confirmed`, `check_checkpoint`, `check_estimates` and
the loader's `refresh` have no caller outside the tests.

## Proofs

All proofs are for every value of the constants that satisfies the assumptions of the
modules: `CaseAssumption` and `SessionAssumption`, `RouterAssumption`, `ThreadAssumption`
with `GuessAssumption` or `LessonAssumption`, `StoreAssumption` with `EngineAssumption`,
`ClientAssumption`, `TerminalAssumption`, and those of the algorithms. They restate what the
constructors check, what the configuration's types are and that a server has finitely many
threads.

*CaseSession*, under every interleaving (`Sequential` may be either):

- `TypeInvariant`, `TypeCorrect`: `TypeOK` needs two facts about locals to be
  inductive, that a thread that writes rows has rows left to write, and that one that has not
  begun to write them has counted none (`RowOK`).
- `CallInv`, of the calls of the store, is the basis of the next two: a thread in a call is at
  a place that stores, what is bound is what some thread has said, and a row of a request that
  is not in `overlapped` is bound only while its call is the only one.
- `StoreKeepsUp`: `[]ConversationKept`: the table invents nothing, and of a request whose
  calls met no other it has what the transcript has, once and in order. `TurnInv`
  adds, for each thread, which of its turns may be in the table at each place; a step
  that neither speaks nor stores, or is of a request whose call has met another, keeps it
  (`TurnFrame`), a step that speaks (`HeardTurns`) or stores alone (`AloneTurns`) moves its
  thread accordingly.
- `ScoringIsConsistent`: `[]ScoringSound`. The invariant
  `CardInv` adds that the rows of such a scoring run are its first `row` dimensions, all
  docked by the run's own penalty, and that threads at the end of the case have seen
  the last phase.

*CaseSession*, for a user who waits (`Sequential`): `SequentialInvariant`, `[]SeqInv`. All of
its parts rest on `Alone`, that the thread which moves is the only one under way.

- `RevealsAreEarned`: `EarnedInv` says what an attempt rests on, a stored message of this
  phase or one about to be stored, and that a message on its way is labelled with the
  phase it was sent in. Both fail as soon as a message overlaps an advance.
- `LastCardIsWhole`, `TheEndIsFinal`: `ResultInv` says that the last rows of the table are
  the first `row` dimensions of the request that wrote last, whatever ends before it have left,
  and at each place of `_end` which rows that request has (`WritesOK`).
- `PhasesAreInOrder`: `PhaseInv` counts the phases closed, one more than `phase` between
  `_close_phase` and the increment; an exhibit that is due is open or about to be opened.
- `TranscriptIsStored`: `StoredInv` says at each place what the table lacks, nothing or the
  piece just said (a user who waits meets no call of his own, so none is refused).
  `TranscriptStored` compares the rows with a fold over the transcript, which joins
  the pieces of one speaker; `ConversationRuns` gives the fold as a recursive function, and
  `ConversationAppend` what one more piece does to it.
- `SessionImplementsProtocol`: each action maps to a step of `CaseProtocol` or is not seen
  there (`StepSimulates`). `TalkInv` adds that a reply follows its message at once, and
  `TurnInv` that nobody has spoken before.

*Router*:

- `RoutingInvariant`: `[]IInv`. `TurnOK(t)` says that every eligible provider before
  `at[t]` was given up, none after it was touched, and that the calls of the current
  one are `attempt[t]`, or one more during a back-off. None of the properties is
  inductive alone: that a provider is called at most `MaxRetries + 1` times depends
  on the turn never coming back to it.
- `RouterCorrect`: `CallsBounded`, `ChainHonoured` and `AuthSurfacedOnce` follow; `RouterTypes` is the type invariant.
- `RouterImplementsService`: the router implements `TurnService`. Every action of a turn
  maps to the service's step of the same turn (`TurnSteps`) or changes nothing the caller
  sees (`Hidden`). It needs `Owned`: a stream that is being read has a provider, so that the
  abstract turn is being told exactly when the detailed one is.

*Conversation*: `TalkInv` says that the transcript is at least as long as the table of turns
and the threads between the two calls together, and just as long as no two calls of the
store have met; that a call which has met none stores its own row; and, for a user who has
waited, that the table is the transcript, turn by turn. `TalkKept` shows that a step of a message
keeps it, `TalkSilent` that any other step does, `TalkQuiet` that `ConversationStored`
follows. The lemmas `AtEnter`, `AtLeave`, `AtStay` count threads at a set of places.

*GuessSession*, for every tree and any number of threads: `GuessCorrect`,
`[](EstimationNotSkipped /\ ConversationStored)`. Overlapping submits may count one
segment twice or run past the tree, so no statement about the segments themselves
holds; but `CountInv` says that there are as many estimates as segments counted and
threads about to count one, and that a thread which closes the estimation, or a step
past it, has seen all counted. `GuessTypes` is the type invariant. `GuessInOrder`,
`[]TreeWalkedInOrder`, is about the states in which `waited` holds: there `InTurn`
says that one thread at most is busy and that the segment it captured is still the
current one, so that with `CountInv` it is the one after those estimated.

*LessonSession*, for every lesson, also one without a quiz: `LessonCorrect`,
`[](CompletionIsWhole /\ ConversationStored)`. `WalkInv` adds what each thread has seen:
one in the quiz, or about to close the teaching, the last section; one about to complete
the lesson, the last question counted. That gives `CompletionCounted`, as many answers as
questions; `EveryQuestionAnswered`, one answer to each, needs a user who waits and comes
with `GradedInTurn`. `LessonTypes` is the type invariant; a
graded item is one of the quiz because `TakeItem` tests the index again. `LessonInOrder`,
`[]GradedInTurn`, is about a user who has waited: there `InTurn` says that one thread at
most is busy, that the question it took is the current one until it has counted it, and
that the page shows the state that is (`PageIsCurrent`); without the last part the answer
that is sent next could be about a question already graded.

*Engine on its store*, for any number of threads, sessions and requests:

- `NothingLeftBehind`: `[]NothingLeftOpen`. A commit takes whatever the connection holds, so
  no thread can be told to have committed its own row. `CommitAhead` is the argument:
  whenever rows are not durable, a transaction is open and some thread has a commit ahead
  of it, which it cannot leave the method without.
- `GradedByOne`: `[]SprintGradedOnce`. `GradedApart` says that the sprint which a thread or
  an answer names is open no more and that no two of them name the same one: `pop` is what
  tells the threads apart.
- `SafeWhileSequential`: `[]SafeIfSequential`. `SeqInv` holds as long as `waited` does: one
  thread at most is in a request. `LedgerInv` is about the rows alone (ids are given once,
  each statement has left a row at most, and a row of a card the one before it), `HistoryInv`
  about what open sessions and answered requests have on the disk, `JobInv` about the request
  under way, of which the rows are its statements up to its place (`PlaceInv`, `TablesInv`).
  An end that breaks off or is killed leaves rows of no answered request; the retry is a
  request of its own.
- `TypeCorrect`: the type invariant.

*The page*, for any number of requests:

- `SentencesInOrder`: `[]StartedInOrder`, that sentences start in increasing order and so none
  twice; `stopAudio` drops what waits, so there may be gaps. `OrderInv` adds that the queue is increasing and
  starts after whatever was started; however many chains of players share it, each takes the
  head.
- `PageStaysSound` and `VoiceStaysSound`. `EverInv` is what holds whatever arrives when: the
  types, the order of the sentences, that the page knows no other sprint than the one in its
  form, and that no more is spoken than was recorded. `CalmInv`
  is about a user who waits: it says for each kind of request what its answer will find on
  the page, the session it belongs to, the form it is for, the recorder it stops.
- `TypeCorrect`: the type invariant.

*The terminal*, wherever a call fails or the user leaves:

- `TerminalInvariant`: `[]IInv`, whose parts follow the parts of the state. `PlaceInv` ties
  the place in the program to the command and its loop, `CaseInv` and `QuizInv` count what a
  loop has done, `SaidInv` pairs each row of the table with the turn it is a copy of, while
  the quiz stores rows that no transcript has. `TerminalTypes`, `ConversationIsStored` and
  `OutcomesAreSound` follow.
- `CommandLineImplementsProtocol`: the loops implement `CaseProtocol`, the promise which the
  web session keeps to a user who waits: one abstract specification, two implementations.
  `CountedInv` adds that a message which is being answered is the last one asked.

*Induction over data.* The library states induction with an operator parameter, which no
backend can instantiate. `InductionLemmas` states it with sets and functions: a property of
numbers is the set of those that have it (`SetInduction`, from the least element of a set),
a step of a fold is a function on a set of states. `FoldExists` shows that the recursive
function behind a fold exists, `LeftFoldRuns` and `RightFoldRuns` that the folds of the
community modules run it; `Adds` is the sum of a sequence with its laws, `PartsAddUp` that
the sums over the classes of a partition add up to the whole. What is proved of the
algorithms, for inputs of any length, rests on these:

- `LoadedIsUsable`, `AddingUnloadsNamesakesOnly`, `ContentTypes`: `ContentInv` says that a
  start which got through shows the library of the folder as it was then. That a new file
  takes content away as a namesake or through a start that raises because of it rests on
  what it can add: lesson ids and benchmarks only grow.
- `CardsAreFair`, `ScoresAreInRange`: `Fits` is the invariant of the loop that trims the
  transcript from its end; docking keeps the order of the dimensions because rounding is
  monotonic, at every cost, for any integers as scores and any rubric. A score stays from 1
  to 5 if the model gave one (`ScoresAreInRange`).
- `LearntIsKept`: a step of a history keeps every row, and what is counted of it, as long as
  no content goes.
- `AdviceIsDefensible`: the topic that the ladder calls weak is the least of a set of means
  compared by cross-multiplication, so a least one must exist. That it shows as a weak
  dimension of the dashboard is shown by counting twice: the distances of all scores from
  the bar, added by dimension and added by topic, are the same sum (`WeighedTwice`).
- `SprintsAreCounted`: the rollup of a sprint agrees with its rows, column by column and
  then kind by kind.
- `SpokenAsItStreams`: `SpeechInv` is about every text the stream may still bring: splitting
  the whole reply gives what was said and then what splitting the buffer with that text
  gives, and the buffer holds no boundary. Draining early makes no difference (`DrainAhead`,
  sentence by sentence), `ScanExists` and `DrainStep` unfold the loop of `DrainSentences`, and
  `OneForEach` counts a sentence for each boundary.
- `NumbersAlwaysAgree`, for turns of any length and any tables whose words are told apart
  and whose homophones come in pairs; what is shown is what was detected unless a value is
  printed with an exponent, and a figure that is typed is the one that is spoken with the
  suffixes that both tables have. `ReadingStep` is the invariant of the loop
  of `_phrase_value`, with the weights still to come: the closed groups, and the open one
  times the factor that awaits it, add up to what was counted so far. What makes it
  inductive is `OpenGroup`: the open group is zero only if nothing but zeros was said in
  it, which is what `current or 1` takes for an amount left out. That the text shows what
  is offered rests on `InOrderOnly`, that positions have one order only:
  `ShownApart` keeps two figures of the shown text from running into one phrase, so its
  figures are the phrases of the raw one (`FiguresInOrder`), and each is a run of one
  (`RunOfOne`), which a second cleaning leaves as it is.
- `AllTypes`: the six type invariants hold together, whichever subject takes the steps
  (`StepOfEach`).

**Model-checked only.** Liveness (`EveryRequestAnswered`, `TurnEnds`, `QueueDrains`) and
anything about ENABLED are out of the prover's reach.
No module here declares a RECURSIVE operator.

## Plan

Done: the sessions, the router, the store under the engine, the browser's page, the
terminal, and the pure algorithms, with the proofs above. Every invariant that a passing
run checks is a theorem. What is left is to carry more of what is proved for a user who
waits over to overlapping requests, with the weakest condition that each property needs.

## Not modelled

`DiagnosticSession` and the `ladder_state` table, which only the tests use. What the calls of
other sessions on the connection do to a session's own: `StoreCalls` has the calls of one
session, `Store` and `Engine` those of all. Prompt texts, formatting and layout: the one decision in `llm/templates.py`, to withhold
the model approach, is `MayReveal` of `CaseFlow`. The schema of content files, which is
declarative, and the arithmetic of their segments. Recognition and synthesis of speech,
which are external programs. The floating point comparisons of segments and ranges, whose
result only reaches an answer. Configuration, whose values are the constants. The scripts,
which are manual tools without state of their own.
