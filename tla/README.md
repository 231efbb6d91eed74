# A verification project for SEMAINE 3.1

SEMAINE is a distributed multimodal dialogue system. Its programs are
*components*, each with a thread of its own, that talk over JMS topics
(ActiveMQ). Input components publish what the user does, interpreters and
fusion components turn that into a state of user, agent and dialogue, action
proposers select what the agent says, and output components generate, prepare
and play it. Most of the repository is third-party code (MARY, Boost and other
headers, ActiveMQ) and data; the code of its own is the framework (Java in
`java/src/eu/semaine/{components,jms,system}`, C++ in `c++/src/semaine`), the
Java components of dialogue management and audio output, and the changes that
let the speech recogniser Julius run inside a C++ component, fed with feature
vectors (`c++/src/tum/julius4.mod`).

This directory holds TLA+ models of the parts where threads, processes and
messages meet, the TLC runs that check them, and TLAPS proofs.

## Inventory

| Part | State | Operations | Interacts through |
|---|---|---|---|
| `Component` (Java, C++) | `inputWaiting`, `exitRequested`, `state`, `hasSystemJustBecomeReady` | `startIO`, loop of `run`, `act`, `react`, `requestExit` | alerts from receivers; `wait`/`notify` on its messenger |
| `Receiver` | the one-place field `message` | `onMessage` (dispatch thread), `getMessage` (component thread) | monitor of the receiver |
| `MetaMessenger` | `lastSeenState`, `systemReady`, `lastSeenAlive`, `timeDelta` | `reportState`, `IamAlive`, `onMessage` | topic `semaine.meta` |
| `SystemManager` | `componentInfos`, `lastReportSystemReady` | `onMessage`, `pingComponents`, `checkComponentsAlive` | topic `semaine.meta` |
| `QueuingAudioPlayer` | `availableAnimations`, `animationStates`, `playerQueue` | `react`, thread `Playloop` | topics `synthesis.lowlevel.*`, `callback.output.Animation` |
| `UtteranceActionProposer` | information state, `preparingResponses`, `preparedResponses`, `feedbackId`, `dataSendQueue`, `queueWaitingCounter` | `act`, `react`, `execute`, `prepare` | callbacks, `state.dialog`, `state.context`, `state.agent` |
| `TemplateController`, `InformationState` | templates, recent behaviours; nested lists | `checkTemplates`, access by path | called by the proposer |
| `TurnTakingInterpreter` | speaking states and times, intention | `act`, `react` | `state.agent`, `state.dialog` |
| Julius (`recogmain.c`, `realtime-1stpass.c`, `jfunc.c`, ...) | request flags, processes live and booked, frames of the segment, rest of the last | `j_recognize_stream`, `mfcc_go`, `j_request_*`, `j_process_*`, `schedule_grammar_update` | callbacks; flags set by the application |
| `UserPresenceInterpreter`, `EmotionFusion`, other interpreters | last values and time stamps | `act`, `react` | `state.*` topics |
| `IOBase`, `Sender` | connection, started flag, event type | `startConnection`, `send*` | broker |
| `ComponentRunner`, GUI, logging, wizard-of-Oz and test components | | | |

What is hard here: a dispatch thread per receiver hands its messages to one
component thread; in every component process two threads share the fields of
the messenger without a common lock, and the manager's two threads share its
flag; component processes fail, crash and start again while reports of their
former life are under way; callbacks of the player come seconds after the
request, in any order with everything else, late or never; proposer and
interpreter each keep a copy of the other's state and update it by messages
that cross; the recogniser looks at the application's requests at a few places
of a long loop only.

What makes the parts correct:

* hand-over: nothing is lost, repeated or reordered, every alert has a message,
  no thread sleeps for good;
* readiness: all agree on it, up to messages under way; a component that fails
  or dies is noticed;
* player: only complete and triggered animations are played, each once, one
  sound at a time, with the callbacks ready, start, end in this order;
* proposer: what it believes of prepared utterances agrees with the player, it
  triggers each once, publishes the turn state it is in, and gives the turn back;
* interpreter and proposer together: a request for the turn is not lost for
  good, and a silence ends;
* recogniser: every announced segment is answered, begin and end callbacks
  match, requests to stop are honoured, at once where this is promised.

`PROJECT.json` lists every component, modelled or not, and the hazards at the
lines where they bite.

## Modules

| Module | Models |
|---|---|
| `ComponentLoop` | `Component.run`, `Receiver.onMessage`/`getMessage`, Java and C++ |
| `OrderedDelivery` | abstract: messages of one receiver are taken in order, at most once |
| `SystemReadiness` | `MetaMessenger` of every component, `SystemManager`, the broker between |
| `QueuingAudioPlayer` | `react` and `Playloop` |
| `AnimationLife` | abstract: the callbacks of one animation |
| `UtteranceActionProposer` | `act` and `react` with the templates' choice left free; the player as its environment |
| `AgentTurn` | abstract: the turns of the agent, as the proposer takes and gives them |
| `TurnTaking` | `TurnTakingInterpreter`: `act`, `react`, the clock reset |
| `DialogueTurn` | `TurnTaking` and `AgentTurn` composed over the two topics between them |
| `JuliusEngine` | the recognition loop of the modified Julius with external feature vectors |
| `*Proofs` | theorems about the module of that name |

All runs use the modules directly; the constants get their values in the `.cfg`
files. Definitions ending in `_Something` (`GetMessage_NoNotify`) that are
marked as mutants are faulty variants used to show that the properties can
fail; no specification uses them.

### ComponentLoop

`pc` is where the component thread is in `run()`, `session[r]` where receiver
`r`'s dispatch thread is in `onMessage`. Messages are numbered per receiver;
`published` counts what the topic carried, `dispatched` what the session has
taken up, `delivered` logs what the component got. An action is what happens
between two points where another thread can come in. Java's `onMessage` holds
the monitor from its first statement to `wait()`; C++'s does not, and the model
allows what C++ allows. `timedReadyWait`, chosen at the start among the
constant `TimedReadyWaits` and never changed, says whether the component has
the C++ readiness wait (1 s time-out, looks at `exitRequested`) or the Java one;
`justReady` is `hasSystemJustBecomeReady`. `overrun` is a history variable.
`SetSystemReady` is free: what the manager really announces is the subject of
`SystemReadiness`.

### SystemReadiness

Per component: the thread (`pc`), the messenger's fields, where its `onMessage`
is (`handler`), and the messages under way in either direction, first in first
out. `onMessage` of the messenger is split where the component thread can come
in: between the decision that the component has stalled, the assignment and the
reply. A ping that comes before the first report finds no state: the Java
messenger throws and sends nothing, the C++ one (`Cpp`) replies with an empty
state, which the manager takes for a failure. The manager has its own thread
(`managerPc`) and its dispatch thread (`dispatch`), which have no lock in
common. `onMessage` is therefore split: the report is recorded (`OnNotReady`,
`OnReady`), all components are looked at (`SurveyComponents`), and that all are
ready is announced a moment later (`AnnounceReady`), even if
`checkComponentsAlive` has marked one as stalled in between. The look at all
components is one step: the manager's thread only ever marks components as
stalled, so a look that it comes into ends as one made before or after it.
Subscriptions are not durable: what is sent to a
process that is down, or to the manager before it listens, is lost. Time is not
counted: every comparison of a time stamp with the clock may go either way.

### QueuingAudioPlayer

`react()` on the component thread and `Playloop` on its own. An animation is
its content ID; `data`, `needs` and `commanded` are the fields of `Animation`
(kinds of data present, needed, and whether it was triggered), and `typed` says
whether its content type is known. Kinds of data are abstract, the message
bodies are left out; a command message may be malformed, which ends the
component. `callbacks[id]` is the history of callbacks sent, `unsent` that of
the callbacks whose sender threw, by type and animation.

### UtteranceActionProposer

`act()` and `react()` run on one thread, so each of their cases is one action.
`speakingState`, `speakingIntention` and `userWaiting` are the entries of the
information state that the control depends on; `overdue` says that eight
seconds have passed since the speaking state was set. What `checkTemplates`
selects is a free choice between running a behaviour (prepared or not),
preparing one and doing nothing; the effects that queue data for the end of the
turn are kept. `turnState` is the `agentTurnState` published last. The player
and the pipeline before it are environment: `stage[id]` is what they have done
with an utterance, and callbacks of one utterance come in the order that
`AnimationLife` describes. With the fault "lost" an utterance is lost on its
way, or its end is not announced and the player goes on (`PlayerGiveUp`, the
counterpart of an end callback that `QueuingAudioPlayer` fails to send).
With the fault "send" a sender throws: in `execute` (`ExecuteFails`), or where
the agent begins or gives back its turn (`OnStartFails`, `OnEndFails`,
`ActTimeoutFails`, `ActClockResetFails`). The state is set before the message is
sent, and data queued for the end of the turn follows the message "listening",
so a failed proposer may have changed its state without telling, or have told
without sending all the data; `TurnStateAgrees` is about one that has not failed.

### AgentTurn, TurnTaking and DialogueTurn

`AgentTurn` keeps five variables of the proposer: its speaking state and
intention, the turn state published last, whether it has ever taken a turn
(`taken`), and whether it has failed. Its steps are to be asked for a turn, take
it, be heard (only after a turn was taken), give it back, have the clock set
back, fail. `UtteranceActionProposer` implements it: `TurnSpec`, the steps, by
proof; `AgentTurnSpec`, with the fairness of giving back, by a run. `taken` is
mapped to `latestResponse`, all other variables to themselves.

`TurnTaking` has the three states of the interpreter and, instead of its two
time stamps, the class of the time since each was set (now, less than a second,
up to eight seconds, more) and whether both were set in the same call. The
speaking intention is a sum of five terms, two of which depend on emotions,
backchannels and the character's threshold. `Wants` is the set of answers that
the comparison with the threshold can have: a single one where the terms that
are modelled decide it (silence of the agent in its first second; a user who
was waited for, or silent, for more than eight seconds), both otherwise.
The component's loop may wait for any time between `react()` and the next
`act()`, because the system is not ready; `evaluated` says that a decision was
made since the last news, and `heldUp`, a history variable, that more than a
second of the agent's silence has passed without one while the turn was asked
for. A sender that throws ends the interpreter (`interpreterFailed`).

`DialogueTurn` adds the two topics as queues. The interpreter's own message
"listening", sent when an answer is overdue, goes into the same queue as the
proposer's. A response that expects an answer publishes "listening" and then
"expectingAnswer" (the data queued for the end of the turn). Publishers wait
while `MaxQueue` messages are under way; with two, messages of both publishers
cross with a request in the other direction. Each side finds the clock set back
by itself, up to `MaxResets` times. `AfterFailure` says whether the run follows
the one component when the other has failed; the theorems hold for both values.

### JuliusEngine

`pc` is the place in `j_recognize_stream_core` or `mfcc_go`. Between any two
steps the application may call the request functions: they are called from
callbacks, which the engine executes at all these places, or from another
thread, and only set flags. The head of the loop is split accordingly: booked
changes are made, the state is announced, the reload flag is reset,
`process_active` is looked at, the state is announced again, the lexicon is
rebuilt. A request that the code ignores (to pause or terminate an engine that
is paused already, to resume one that is active) is a step without effect.

Frames are counted, not their contents; whether the decoder fails, ends the
segment or goes on at a frame is free. A segment that ends at a pause has
`f + 1` frames, and those from `spStart` on, where the pause began, are kept
(`rest`, then `param`); the pause that an input begins with does not count.
`RealTimeResume` decodes what was kept frame by frame (`ResumeFrame`) without a
look at the requests; if the segment ends again within it, the frames behind are
dropped, as in the code. A read that fails leaves `new_f` unset, and at the
first read it is not initialised: then any number of frames may be decoded
without a poll (`pending`).

`recOpen`, `owed`, `overrun`, `crossed` and `grammarPending` are history
variables: which begin callbacks have no end callback or result yet, frames
decoded since termination was wanted (those of `ResumeFrame` included), whether
a request to stop fell in between the last look at `process_active` and the
announcement, and whether the input is to be discarded for a change of grammar.

## Runs

| Run | Checks | Bounds |
|---|---|---|
| `component_loop` | `TypeOK`, `AlertHasMessage`, `AlertedOnce`, `NoLostWakeup`, `AtMostOneOverrun`, `DeliverySpec`, `EveryMessageTaken`, `TimedExitHonoured` | 2 receivers, 2 messages each: a second message must wait for the pick-up of the first, also behind a dispatch thread that is notified before it waits, and two dispatch threads compete for the queue; the Java and the C++ loop |
| `java_exit_while_waiting` | `ExitHonoured`, violated | 1 receiver |
| `readiness_safety` | `TypeOK`, `Agreement`, `NoReadyWhileStarting`, `OutageLasts` | a C++ component that may crash and a Java one, not to be marked as stalled (`IgnoreStalled`), 3 process starts (one restart); failures are left to the next run |
| `readiness_failure` | `OutageLasts`, `FailureAnnounced` | 1 failing and 1 hidden component |
| `readiness_crash` | `CrashDetected` | 2 components, one may crash |
| `stuck_waiting` | `WaitingComponentReportedBack`, violated | 1 component |
| `audio_player` | `TypeOK`, `HandedIsComplete`, `PlayedOnce`, `ReadyIsStable`, `OneSoundAtATime`, `LifeSpec`, `TriggeredIsPlayed` | 2 animations, 2 kinds of data, 5 messages per animation (all parts, both commands and one message too many), all faults |
| `utterance_proposer` | `TypeOK`, `TriggeredOnce`, `PreparationTracked`, `TurnStateAgrees`, `IntentionUsedUp`, `TurnGivenBack`, `AgentTurnSpec` | 2 responses, 2 utterances, all faults: one utterance can be prepared or late while the other one is executed |
| `unexpected_start` | `StartIsExpected`, violated | 2 responses, 2 utterances, no faults |
| `dialogue_turn` | `TurnTakingTypeOK`, `WaitingTogether`, `NotTakenForSpeaking`, `RequestKept`, `SilenceEnds` | queues of 2, 1 turn (requests before, during and after it), 2 user events, the clock set back once at each side, behaviours up to a failure of either side |
| `julius_engine` | `TypeOK`, `SegmentAnswered`, `BracketsMatch`, `StopsAtOnce`, `OnlineWhileRecognising`, `StopHonoured` | 2 processes, one with a grammar, segments of 4 frames (the pause begins at the second or third, and up to three frames are kept, enough for the kept part to be segmented again), 3 requests (stop, resume, stop again), 2 streams |
| `grammar_terminate` | `RestartsAfterUpdate`, violated | 1 process with a grammar, segments of 2 frames, 1 request, 1 stream |

`PingBound` keeps the queues of `SystemReadiness` finite: the manager pings
only while few messages are under way. In the code the ping period is long
compared with delivery, so this is the normal case; announcements are not
bounded. `MaxStarts`, `MaxMessages`, `MaxOutputs` and `MaxData` are bounds on
what the environment does. `QueueWait` is 5 in the code; 1 and 2 show the same
control (a wait that is not over, and one that is).

Deadlock is checked where the system has no end. A component loop that has
exited, or an environment that has used up its messages, may stop, and these
runs say `CHECK_DEADLOCK FALSE`.

### The violated properties

They state what a comment or an assertion says, and the code does otherwise:

* A Java component that waits for readiness does not notice `requestExit()`,
  which notifies the component while the loop sleeps on the messenger.
* A component can be marked stalled by its messenger just after it has
  "reported back", and then wait for the readiness that its own mark prevents.
  Nothing in the component changes the mark until the system becomes ready.
* A start callback makes the agent count as speaking whatever utterance it is
  for: when the user leaves while an utterance is prepared, the templates are
  checked at once and may send another one, and then the first one starts.
* A grammar change with `SM_TERMINATE` leaves `process_want_terminate` set while
  the engine stays active. So when the lexicon has been rebuilt, recognition
  does not restart: the next input is cancelled at its first poll, and so is
  every other until the engine gets another request.

### Fairness

* `ComponentLoop`: weak fairness of the component thread and of each dispatch
  thread. The JVM and the operating system schedule runnable threads, the polls
  and the C++ wait time out, and `act()` and `react()` are assumed to return.
  Nothing is assumed of publishers, of the manager or of exit requests.
* `SystemReadiness`: weak fairness of every thread; processes are not assumed
  to start. `FindDead` is strongly fair: the manager checks again and again,
  and the time stamp of a dead component does not change while the clock runs,
  so some check finds it too old.
* `QueuingAudioPlayer`: weak fairness of the component thread for a message it
  has begun to handle, of the player thread, and of the end of every sound.
* `UtteranceActionProposer`: the clock runs, and the time-out in `act()` is
  strongly fair: the component loop calls `act()` at least every 50 ms and
  before every `react()`, so no message can get in between a time-out that is
  due and the call that finds it. Nothing is assumed of the player. That the
  eight seconds do pass leaves out a user who leaves and returns for ever
  within eight seconds, making the agent begin anew every time.
* `DialogueTurn`: weak fairness of both loops (messages are taken, `act()` is
  called), of the clock and of giving the turn back, which `AgentTurn` promises.
  Where `act()` may want the turn or not, fairness does not choose: only an
  `act()` whose outcome the model decides is fair (`DecidedAct`), and the first
  one after a piece of news. The clock may move on before `act()` is called; the
  properties except a loop that was held up for a second right after the news
  that the agent listens. Nothing is assumed of the user and of the templates.
* `JuliusEngine`: weak fairness of the engine's thread; the external program
  returns from every read and no input goes on for ever. Nothing is assumed of
  the application: a pause function need not return.

## Proofs

The theorems hold for every value of the constants that satisfies the named
assumptions. These are the typing of the constants (bounds are natural
numbers, `Hidden` is a set of components, `NoReceiver` and `NoAnimation` are
not members of the sets they stand beside, "audio" is a kind of data,
`Grammars` is a set of processes).

* **ComponentLoop.** Inductive invariant `HandOff`: types, with the message
  in a receiver's field not ahead of what was dispatched, nor that of what was
  published; a thread that is
  about to get or react has a current receiver; the field of a receiver is
  full from `StoreMessage` to `GetMessage`; and a receiver's alert is in the
  queue, once, exactly when the field is full and the alert was put, or the
  component thread holds it. `AlertHasMessage` alone is not inductive: that
  the second alert of a receiver does not come before the first is answered
  follows only from where the dispatch thread is. From `HandOff` follow
  `TypeCorrect`, `AlertsAreGood`, `AlertsAreUnique`, `WakeupsAreKept`,
  and, with a step lemma each, `OverrunBounded` and `DeliveryRefined`
  (refinement of `OrderedDelivery`).
* **SystemReadiness.** Inductive invariant: types; a manager that is not up has
  announced nothing and nothing is under way to it; a component that has not
  reported yet has said nothing else; the start report of a component is
  respected (either under way, or the last thing the manager knows of it before
  it was ready; neither is a verdict pending that all are ready); and
  `Agreement`. The hard case is the report of a component
  that was started again: the reports of its former life come first, and each
  may lead to an announcement that the new process gets too. The lemmas about
  `WillBelieve` say what a queue of announcements leads to when one is appended
  or taken. Theorems: `ReadinessTypeCorrect`, `ReadinessAgreement`,
  `StartsAreRespected`. `OutagesLast` is an action property, `OutageLasts`, and
  the part of `FailureAnnounced` and `CrashDetected` that needs no fairness:
  once an outage has come through, no step but a new start ends it. What "come
  through" means is the point: it is not enough that the manager knows of the
  failure, because a reply that was read before it, and is still in the
  messenger's hands or under way, revokes it, and so does a verdict that the
  dispatch thread reached before the manager's thread marked the component
  (`OutOfService`). That such replies are used up in the end is left to the two runs.
* **QueuingAudioPlayer.** Inductive invariant: types; every animation is at
  exactly one place (not known, being put together, queued, playing, done) and
  its callbacks and state are those of that place; what the player has is
  complete; what `react()` is about to announce or hand over is so for the
  reason the code checked; a sound that is heard is that of the animation being
  played, or of one whose own start callback could not be sent. Theorems: `PlayerTypeCorrect`,
  `HandedAnimationsAreComplete`, `AnimationsArePlayedOnce`,
  `ReadinessIsStable`, `SoundsDoNotOverlap`, `LifeRefined` (refinement of
  `AnimationLife`).
* **UtteranceActionProposer.** Inductive invariant `ProposerInv`. None of the
  run's invariants is inductive, and they need each other. `TriggeredOnce`
  needs that a prepared response was not triggered yet, which is in
  `PreparationTracked`, and that no other response has the same ID
  (`OneOwner`), which in turn needs that the next ID is one that neither the
  lists nor the player know (`Given`, `Fresh`). `PreparationTracked` needs to
  know about callbacks that cross: a ready callback on its way is either true
  or followed by the deletion that corrects it, which is about the order in the
  channel (`ReadyReports`), and nothing is played that was not triggered
  (`SilentUntilTriggered`). The proof has one lemma per step of `act()`,
  `react()` and the player. Theorems: `ProposerTypeCorrect`,
  `UtterancesAreTriggeredOnce`, `PreparationsAreTracked`, `TurnStatesAgree`,
  `IntentionsAreUsedUp`, and `AgentTurnRefined`: every step is one of
  `AgentTurn` or leaves the turn alone. Two steps are so only because of what
  came before: an end callback gives back a turn that was taken, since an agent
  that has not spoken yet waits for no utterance (`NotYetSpoken`); and nothing
  is heard before the first turn (`HeardAfterTurn`).
* **DialogueTurn.** Inductive invariant `TurnInv`: types; `WaitingTogether`;
  `SpeakingKnown`, about what the interpreter will believe when the last message
  of the queue has arrived, because `NotTakenForSpeaking` speaks only of an
  empty queue; and `RequestUnderWay`: if the interpreter has asked and a
  listening agent does not know of it, then the request is still in the queue,
  or news of the agent's state is, or the next decision can only be to withdraw
  (or the interpreter was held up, or one of the two has failed).
  The last holds because a dropped request means that the agent was not
  listening, so "listening" has been published since, and its arrival sets the
  agent's time to now; for a second no decision wants the turn (`NotAtOnce`), and
  after that second the loop counts as held up.
  Theorems: `TurnTakingTypeCorrect`, `TimesAreSetTogether`,
  `ListeningIsNoticed`, `RequestsAreKept`.
* **JuliusEngine.** Inductive invariant `EngineInv`. `Frames`: a frame is begun
  only where there is room, a rest exists only until the end of its segment, and
  the pause of a segmented input began after its first frame. `Overrun`: no
  frame was decoded since termination was wanted when `mfcc_go` begins one,
  because the poll just before would have left; `RealTimeResume`, which does not
  poll, has counted no more than it has decoded. `Online`: an engine past the
  check of `process_active` is active, or a request has crossed. `Brackets`,
  `Answers`: within a segment a decoded frame means that both begin callbacks
  were made, and at its end that it was answered. Theorems: `EngineTypeCorrect`,
  `SegmentsAreAnswered`, `CallbacksMatch`, `TerminationIsImmediate`,
  `AnnouncedOnline`.

Because of `AgentTurnRefined`, what is proved of `DialogueTurn`, whose agent is
`AgentTurn`, holds of the interpreter together with the proposer of
`UtteranceActionProposer`.

Only model-checked: the liveness properties, because fairness and `ENABLED` are
out of the prover's reach: `EveryMessageTaken`,
`TimedExitHonoured`, `FailureAnnounced`, `CrashDetected`, `TriggeredIsPlayed`, `TurnGivenBack`,
`SilenceEnds`, `StopHonoured`, and the fairness that `AgentTurnSpec` adds to
`TurnSpec`. Every invariant and action property that a run checks is also
proved.

## Not modelled

Topic reports, statistics and the display of the manager; a restart of the
manager; the contents of messages; the conditions of templates; floating-point
computations of the interpreters beyond their classes; start-up configuration;
GUI, logging, MARY and the test components; of Julius, audio and buffered
input, decoder-based voice detection, adding and removing processes, and the
two search passes. Reasons are in `PROJECT.json`.

## Plan

1. `UserPresence` and `EmotionFusion`: presence and fusion with time-outs.
2. `TemplateSelection`: `checkTemplates`, quality by history and the choice
   among the least recent responses, as functions checked against reference
   definitions; access to lists of the information state; `FuzzySort`.
3. `Connection`: life-cycle of `IOBase`, senders and receivers; restart of the
   manager in `SystemReadiness`.
