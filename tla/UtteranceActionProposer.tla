----------------------- MODULE UtteranceActionProposer -----------------------
(***************************************************************************)
(* The dialogue component that speaks for the agent.  act() selects a      *)
(* response with the templates, when the agent has nothing to say it lets  *)
(* one be prepared; react() follows the callbacks of the player, the       *)
(* presence of the user, the character and the turn-taking intention.      *)
(*                                                                         *)
(* A response is sent on to be played directly, or, if it was prepared     *)
(* before, triggered.  The player answers much later, with callbacks; a    *)
(* time-out of eight seconds stands in for the ones that do not come.      *)
(*                                                                         *)
(* act() and react() run on one thread, so each is one action.  Which      *)
(* response a template selects depends on the whole information state; it  *)
(* is a free choice here.  The player is external: what the callbacks say  *)
(* of one animation comes in the order that AnimationLife describes.       *)
(***************************************************************************)
EXTENDS Integers, Sequences

CONSTANTS Hashes,       \* responses, as createHash() tells them apart
          MaxOutputs,   \* bound: utterances sent to the generation pipeline
          MaxData,      \* bound: length of dataSendQueue
          QueueWait,    \* act() calls without templates after a turn (5)
          Faults        \* "send": a sender throws; "lost": an utterance or
                        \* the report of its end is lost on its way;
                        \* "delete": the player deletes an utterance;
                        \* "clock": the system time is set back;
                        \* "response": a template names an unknown response

ASSUME MaxOutputsAssumption == MaxOutputs \in Nat
ASSUME MaxDataAssumption == MaxData \in Nat
ASSUME QueueWaitAssumption == QueueWait \in Nat \ {0}
ASSUME FaultsAssumption ==
    Faults \subseteq {"send", "lost", "delete", "clock", "response"}

VARIABLES
    speakingState,        \* Agent.speakingState, "null" if not set
    overdue,              \* Agent.speakingStateTime is 8000 ms ago
    userWaiting,          \* User.speakingState = "waiting"
    speakingIntention,    \* Agent.speakingIntention
    present,              \* User.present, and systemStarted
    queueWaitingCounter,
    dataSendQueue,        \* data to send at the end of the turn
    preparing,            \* preparingResponses: hash to ID, NoId for no entry
    prepared,             \* preparedResponses
    feedbackId,           \* the utterance whose end ends the turn
    output_counter,
    latestResponse,       \* whether a response has been executed
    failed,               \* the component has ended with an exception
    turnState,            \* the agentTurnState published last
    channel,              \* callbacks on their way: <<type, id>>
    stage,                \* stage[id]: what the player has done with id
    triggered             \* triggered[id]: how often id was told to play

agentVars == <<speakingState, overdue, feedbackId>>
turnVars == <<userWaiting, speakingIntention, dataSendQueue, turnState>>
responseVars == <<preparing, prepared, output_counter, latestResponse>>
playerVars == <<channel, stage, triggered>>
vars == <<agentVars, turnVars, responseVars, playerVars, present,
          queueWaitingCounter, failed>>

NoId == 0
Ids == 1 .. MaxOutputs
Data == {"expectingAnswer", "character"}
Callbacks == {"ready", "start", "end", "deleted"}

Nothing == [h \in Hashes |-> NoId]

Init ==
    /\ speakingState = "null"
    /\ overdue = FALSE
    /\ userWaiting = FALSE
    /\ speakingIntention = "null"
    /\ present = FALSE
    /\ queueWaitingCounter = 0
    /\ dataSendQueue = << >>
    /\ preparing = Nothing
    /\ prepared = Nothing
    /\ feedbackId = NoId
    /\ output_counter = 1
    /\ latestResponse = FALSE
    /\ failed = FALSE
    /\ turnState = "none"
    /\ channel = << >>
    /\ stage = [id \in Ids |-> "none"]
    /\ triggered = [id \in Ids |-> 0]

------------------------------------------------------------------------------
(* What a template makes the proposer do.                                   *)

(* Its effects may put something into dataSendQueue. *)
Effects ==
    \/ UNCHANGED dataSendQueue
    \/ /\ Len(dataSendQueue) < MaxData
       /\ \E d \in Data : dataSendQueue' = Append(dataSendQueue, d)

(* The response becomes the latest one, and sendSpeaking is called. *)
SendSpeaking ==
    /\ latestResponse' = TRUE
    /\ speakingState' = "preparing"
    /\ speakingIntention' = "null"
    /\ overdue' = FALSE

(* Mutant: a prepared response is not taken out when it is triggered. *)
TriggerPrepared_Kept(h) ==
    /\ prepared[h] # NoId
    /\ SendSpeaking
    /\ feedbackId' = prepared[h]
    /\ triggered' = [triggered EXCEPT ![prepared[h]] = @ + 1]
    /\ UNCHANGED <<preparing, prepared, output_counter, channel, stage, failed>>

(* execute: the response has been prepared before, so it only has to be    *)
(* started.                                                                *)
TriggerPrepared(h) ==
    /\ prepared[h] # NoId
    /\ SendSpeaking
    /\ feedbackId' = prepared[h]
    /\ triggered' = [triggered EXCEPT ![prepared[h]] = @ + 1]
    /\ prepared' = [prepared EXCEPT ![h] = NoId]
    /\ UNCHANGED <<preparing, output_counter, channel, stage, failed>>

(* execute: it has not been prepared, so it has to be sent directly. *)
SendDirectly(h) ==
    /\ prepared[h] = NoId
    /\ output_counter \in Ids
    /\ SendSpeaking
    /\ feedbackId' = output_counter
    /\ stage' = [stage EXCEPT ![output_counter] = "sent"]
    /\ triggered' = [triggered EXCEPT ![output_counter] = @ + 1]
    /\ output_counter' = output_counter + 1
    /\ UNCHANGED <<preparing, prepared, channel, failed>>

(* execute: the sender throws.  The state is "preparing" by then. *)
ExecuteFails(h) ==
    /\ "send" \in Faults
    /\ SendSpeaking
    /\ \/ prepared[h] # NoId /\ UNCHANGED output_counter
       \/ /\ prepared[h] = NoId /\ output_counter \in Ids
          /\ output_counter' = output_counter + 1
    /\ UNCHANGED <<feedbackId, preparing, prepared, playerVars, failed>>

(* execute returns early: there is no such response.  The caller then logs *)
(* the latest response; if there is none, that throws.                     *)
NoResponse ==
    /\ "response" \in Faults
    /\ failed' = ~latestResponse
    /\ UNCHANGED <<agentVars, speakingIntention, responseVars, playerVars>>

(* prepare: one response at a time, and none that is prepared already. *)
Prepare(h) ==
    /\ preparing = Nothing /\ prepared[h] = NoId
    /\ output_counter \in Ids
    /\ output_counter' = output_counter + 1
    /\ \/ /\ preparing' = [preparing EXCEPT ![h] = output_counter]
          /\ stage' = [stage EXCEPT ![output_counter] = "sent"]
       \/ /\ "send" \in Faults
          /\ UNCHANGED <<preparing, stage>>
    /\ UNCHANGED <<agentVars, speakingIntention, prepared, latestResponse,
                   channel, triggered, failed>>

(* There is nothing to run, and nothing to prepare that is not prepared or  *)
(* waiting for its turn.                                                    *)
NoBehaviour ==
    UNCHANGED <<agentVars, speakingIntention, responseVars, playerVars, failed>>

(* TemplateController.checkTemplates: it runs one behaviour or, if there is *)
(* none to run, prepares one.  Effects are applied either way.              *)
CheckTemplates ==
    /\ Effects
    /\ \/ \E h \in Hashes : \/ TriggerPrepared(h) \/ SendDirectly(h)
                            \/ ExecuteFails(h) \/ Prepare(h)
       \/ NoResponse
       \/ NoBehaviour
    /\ UNCHANGED <<userWaiting, turnState>>

------------------------------------------------------------------------------
(* act()                                                                    *)

Overdue == speakingState \in {"speaking", "preparing"} /\ overdue

(* The agent listens, and the user is waited for. *)
SetListening ==
    /\ speakingState' = "listening"
    /\ overdue' = FALSE
    /\ userWaiting' = TRUE

(* The agentTurnState when, after "listening", the first n items of what    *)
(* was kept for the end of the turn have been sent.                         *)
SentWith(n) == IF \E i \in 1 .. n : dataSendQueue[i] = "expectingAnswer"
               THEN "expectingAnswer" ELSE "listening"

(* The end of the agent's turn: to the listening state, and tell everyone; *)
(* what was kept for the end of the turn follows.                          *)
EndTurn ==
    /\ SetListening
    /\ turnState' = SentWith(Len(dataSendQueue))
    /\ dataSendQueue' = << >>

(* sendData throws, for "listening" or for an item of the queue, and the    *)
(* exception leaves act() or react(): the component has failed.             *)
EndTurnFails ==
    /\ "send" \in Faults
    /\ SetListening
    /\ \/ UNCHANGED turnState
       \/ \E n \in 0 .. Len(dataSendQueue) - 1 : turnState' = SentWith(n)
    /\ failed' = TRUE
    /\ UNCHANGED dataSendQueue

(* Mutant: only an agent that has started to speak times out. *)
ActTimeout_Speaking ==
    /\ ~failed
    /\ Overdue /\ speakingState = "speaking"
    /\ EndTurn
    /\ queueWaitingCounter' = QueueWait - 1
    /\ UNCHANGED <<feedbackId, speakingIntention, responseVars, playerVars,
                   present, failed>>

(* Time-out: the counter is set and, at the end of act(), counted down. *)
ActTimeout ==
    /\ ~failed
    /\ Overdue
    /\ EndTurn
    /\ queueWaitingCounter' = QueueWait - 1
    /\ UNCHANGED <<feedbackId, speakingIntention, responseVars, playerVars,
                   present, failed>>

ActTimeoutFails ==
    /\ ~failed
    /\ Overdue
    /\ EndTurnFails
    /\ UNCHANGED <<feedbackId, speakingIntention, responseVars, playerVars,
                   present, queueWaitingCounter>>

(* The clock was set back: listen, and forget what was prepared.  If this  *)
(* call goes on to the templates, that is the step ActOnTemplates after    *)
(* this one; the steps of others in between only add behaviours.           *)
ActClockReset ==
    /\ ~failed
    /\ "clock" \in Faults
    /\ SetListening
    /\ turnState' = "listening"
    /\ prepared' = Nothing
    /\ preparing' = Nothing
    /\ queueWaitingCounter' = IF queueWaitingCounter > 0
                              THEN queueWaitingCounter - 1 ELSE 0
    /\ UNCHANGED <<feedbackId, speakingIntention, dataSendQueue,
                   output_counter, latestResponse, playerVars, present, failed>>

(* The same, but sendData throws. *)
ActClockResetFails ==
    /\ ~failed
    /\ {"clock", "send"} \subseteq Faults
    /\ SetListening
    /\ failed' = TRUE
    /\ UNCHANGED <<feedbackId, speakingIntention, dataSendQueue, turnState,
                   responseVars, playerVars, present, queueWaitingCounter>>

(* Mutant: the counter goes on below zero. *)
ActWait_NoCheck ==
    /\ ~failed
    /\ ~Overdue
    /\ queueWaitingCounter' = queueWaitingCounter - 1
    /\ UNCHANGED <<agentVars, turnVars, responseVars, playerVars, present, failed>>

(* No templates yet. *)
ActWait ==
    /\ ~failed
    /\ ~Overdue
    /\ queueWaitingCounter > 0
    /\ queueWaitingCounter' = queueWaitingCounter - 1
    /\ UNCHANGED <<agentVars, turnVars, responseVars, playerVars, present, failed>>

MayCheckTemplates ==
    /\ ~failed
    /\ queueWaitingCounter = 0
    /\ present
    /\ speakingState \in {"null", "listening"}

ActOnTemplates ==
    /\ MayCheckTemplates
    /\ CheckTemplates
    /\ UNCHANGED <<present, queueWaitingCounter>>

------------------------------------------------------------------------------
(* react()                                                                  *)

Receive(type, id) ==
    /\ ~failed
    /\ channel # << >> /\ Head(channel) = <<type, id>>
    /\ channel' = Tail(channel)
    /\ UNCHANGED <<stage, triggered>>

(* speechStarted, of a start callback: the content ID is not looked at. *)
SpeechStarted == speakingState \in {"null", "preparing", "listening"}

(* speechReady, of an end callback. *)
SpeechReady == speakingState \in {"null", "preparing", "speaking"}

(* Mutant: the others are not told that the agent speaks. *)
OnStart_Silent(id) ==
    /\ Receive("start", id)
    /\ IF SpeechStarted
       THEN /\ speakingState' = "speaking"
            /\ overdue' = FALSE
       ELSE UNCHANGED <<speakingState, overdue>>
    /\ UNCHANGED <<feedbackId, turnState, userWaiting, speakingIntention,
                   dataSendQueue, responseVars, present, queueWaitingCounter,
                   failed>>

(* A start callback: the agent is speaking, and the others are told so. *)
OnStart(id) ==
    /\ Receive("start", id)
    /\ IF SpeechStarted
       THEN /\ speakingState' = "speaking"
            /\ overdue' = FALSE
            /\ turnState' = "speaking"
       ELSE UNCHANGED <<speakingState, overdue, turnState>>
    /\ UNCHANGED <<feedbackId, userWaiting, speakingIntention, dataSendQueue,
                   responseVars, present, queueWaitingCounter, failed>>

(* The agent is speaking, but sendData throws. *)
OnStartFails(id) ==
    /\ Receive("start", id)
    /\ "send" \in Faults
    /\ SpeechStarted
    /\ speakingState' = "speaking"
    /\ overdue' = FALSE
    /\ failed' = TRUE
    /\ UNCHANGED <<feedbackId, turnVars, responseVars, present,
                   queueWaitingCounter>>

(* An end callback: the turn ends with the utterance executed last. *)
OnEnd(id) ==
    /\ Receive("end", id)
    /\ IF SpeechReady /\ id = feedbackId
       THEN EndTurn /\ queueWaitingCounter' = QueueWait
       ELSE UNCHANGED <<speakingState, overdue, userWaiting, dataSendQueue,
                        turnState, queueWaitingCounter>>
    /\ UNCHANGED <<feedbackId, speakingIntention, responseVars, present, failed>>

OnEndFails(id) ==
    /\ Receive("end", id)
    /\ SpeechReady /\ id = feedbackId
    /\ EndTurnFails
    /\ UNCHANGED <<feedbackId, speakingIntention, responseVars, present,
                   queueWaitingCounter>>

Without(id, responses) ==
    [h \in Hashes |-> IF responses[h] = id THEN NoId ELSE responses[h]]

OnReady(id) ==
    /\ Receive("ready", id)
    /\ prepared' = [h \in Hashes |-> IF preparing[h] = id THEN id ELSE prepared[h]]
    /\ preparing' = Without(id, preparing)
    /\ UNCHANGED <<agentVars, turnVars, output_counter, latestResponse, present,
                   queueWaitingCounter, failed>>

(* Mutant: only what is being prepared is looked at. *)
OnDeleted_PreparingOnly(id) ==
    /\ Receive("deleted", id)
    /\ preparing' = Without(id, preparing)
    /\ UNCHANGED <<agentVars, turnVars, prepared, output_counter,
                   latestResponse, present, queueWaitingCounter, failed>>

OnDeleted(id) ==
    /\ Receive("deleted", id)
    /\ preparing' = Without(id, preparing)
    /\ prepared' = Without(id, prepared)
    /\ UNCHANGED <<agentVars, turnVars, output_counter, latestResponse, present,
                   queueWaitingCounter, failed>>

OnUserPresent ==
    /\ ~failed
    /\ ~present
    /\ present' = TRUE
    /\ UNCHANGED <<agentVars, turnVars, responseVars, playerVars,
                   queueWaitingCounter, failed>>

(* The templates are checked at once, whatever the agent is doing. *)
OnUserAbsent ==
    /\ ~failed
    /\ present
    /\ present' = FALSE
    /\ CheckTemplates
    /\ UNCHANGED queueWaitingCounter

(* A new character says different things: forget what was prepared. *)
OnCharacter ==
    /\ ~failed
    /\ preparing' = Nothing
    /\ prepared' = Nothing
    /\ UNCHANGED <<agentVars, turnVars, output_counter, latestResponse,
                   playerVars, present, queueWaitingCounter, failed>>

(* Mutant: an agent that is about to speak can want the turn again. *)
OnStartSpeaking_Always ==
    /\ ~failed
    /\ speakingIntention' = IF userWaiting THEN "retake_turn" ELSE "want_turn"
    /\ UNCHANGED <<agentVars, userWaiting, dataSendQueue, turnState,
                   responseVars, playerVars, present, queueWaitingCounter,
                   failed>>

(* Mutant: an agent that has not spoken yet can want the turn. *)
OnStartSpeaking_Null ==
    /\ ~failed
    /\ speakingState \in {"null", "listening"}
    /\ speakingIntention' = IF userWaiting THEN "retake_turn" ELSE "want_turn"
    /\ UNCHANGED <<agentVars, userWaiting, dataSendQueue, turnState,
                   responseVars, playerVars, present, queueWaitingCounter,
                   failed>>

(* The turn-taking interpreter wants the agent to speak. *)
OnStartSpeaking ==
    /\ ~failed
    /\ speakingState = "listening"
    /\ speakingIntention' = IF userWaiting THEN "retake_turn" ELSE "want_turn"
    /\ UNCHANGED <<agentVars, userWaiting, dataSendQueue, turnState,
                   responseVars, playerVars, present, queueWaitingCounter,
                   failed>>

(* The user was heard to start or to stop speaking. *)
OnUserSpeaking ==
    /\ ~failed
    /\ userWaiting' = FALSE
    /\ UNCHANGED <<agentVars, speakingIntention, dataSendQueue, turnState,
                   responseVars, playerVars, present, queueWaitingCounter,
                   failed>>

------------------------------------------------------------------------------
(* The generation pipeline and the player, and the time.                    *)

Proposer == <<agentVars, turnVars, responseVars, present,
              queueWaitingCounter, failed>>

Report(type, id) == channel' = Append(channel, <<type, id>>)

PlayerReady(id) ==
    /\ stage[id] = "sent"
    /\ stage' = [stage EXCEPT ![id] = "ready"]
    /\ Report("ready", id)
    /\ UNCHANGED <<Proposer, triggered>>

PlayerStart(id) ==
    /\ stage[id] = "ready" /\ triggered[id] > 0
    /\ \A other \in Ids : stage[other] # "started"
    /\ stage' = [stage EXCEPT ![id] = "started"]
    /\ Report("start", id)
    /\ UNCHANGED <<Proposer, triggered>>

PlayerEnd(id) ==
    /\ stage[id] = "started"
    /\ stage' = [stage EXCEPT ![id] = "ended"]
    /\ Report("end", id)
    /\ UNCHANGED <<Proposer, triggered>>

PlayerDelete(id) ==
    /\ "delete" \in Faults
    /\ stage[id] = "ready"
    /\ stage' = [stage EXCEPT ![id] = "gone"]
    /\ Report("deleted", id)
    /\ UNCHANGED <<Proposer, triggered>>

Lose(id) ==
    /\ "lost" \in Faults
    /\ stage[id] = "sent"
    /\ stage' = [stage EXCEPT ![id] = "gone"]
    /\ UNCHANGED <<Proposer, channel, triggered>>

(* The end of an utterance fails to be announced, and the player goes on. *)
PlayerGiveUp(id) ==
    /\ "lost" \in Faults
    /\ stage[id] = "started"
    /\ stage' = [stage EXCEPT ![id] = "ended"]
    /\ UNCHANGED <<Proposer, channel, triggered>>

(* Eight seconds have passed since the speaking state was set. *)
TimePasses ==
    /\ ~overdue
    /\ overdue' = TRUE
    /\ UNCHANGED <<speakingState, feedbackId, turnVars, responseVars,
                   playerVars, present, queueWaitingCounter, failed>>

------------------------------------------------------------------------------
React ==
    \/ \E id \in Ids : \/ OnStart(id) \/ OnEnd(id) \/ OnReady(id) \/ OnDeleted(id)
                      \/ OnStartFails(id) \/ OnEndFails(id)
    \/ OnUserPresent \/ OnUserAbsent \/ OnCharacter
    \/ OnStartSpeaking \/ OnUserSpeaking

Player ==
    \E id \in Ids : \/ PlayerReady(id) \/ PlayerStart(id) \/ PlayerEnd(id)
                    \/ PlayerDelete(id) \/ Lose(id) \/ PlayerGiveUp(id)

Act == \/ ActTimeout \/ ActClockReset \/ ActWait \/ ActOnTemplates
       \/ ActTimeoutFails \/ ActClockResetFails

Next ==
    \/ Act
    \/ React
    \/ Player
    \/ TimePasses

Spec == Init /\ [][Next]_vars

(* Time passes, and the component loop calls act() again and again, before  *)
(* every react(): what is due at infinitely many of these calls is done.    *)
Fairness == SF_vars(ActTimeout) /\ WF_vars(TimePasses)

FairSpec == Spec /\ Fairness

------------------------------------------------------------------------------
(* Properties                                                               *)

(* Every variable has its type; the counter that keeps the templates from   *)
(* being checked after a turn stays within its range.                       *)
TypeOK ==
    /\ speakingState \in {"null", "listening", "preparing", "speaking"}
    /\ overdue \in BOOLEAN
    /\ userWaiting \in BOOLEAN
    /\ speakingIntention \in {"null", "want_turn", "retake_turn"}
    /\ present \in BOOLEAN
    /\ queueWaitingCounter \in 0 .. QueueWait
    /\ dataSendQueue \in Seq(Data) /\ Len(dataSendQueue) <= MaxData
    /\ preparing \in [Hashes -> Ids \cup {NoId}]
    /\ prepared \in [Hashes -> Ids \cup {NoId}]
    /\ feedbackId \in Ids \cup {NoId}
    /\ output_counter \in 1 .. MaxOutputs + 1
    /\ latestResponse \in BOOLEAN
    /\ failed \in BOOLEAN
    /\ turnState \in {"none", "speaking", "listening", "expectingAnswer"}
    /\ channel \in Seq(Callbacks \X Ids)
    /\ stage \in [Ids -> {"none", "sent", "ready", "started", "ended", "gone"}]
    /\ triggered \in [Ids -> Nat]

InChannel(type, id) ==
    \E i \in 1 .. Len(channel) : channel[i] = <<type, id>>

(* No utterance is told to play twice: what is triggered leaves the list   *)
(* of prepared responses, an ID is given to one utterance only, and none   *)
(* is both sent directly and prepared.                                     *)
TriggeredOnce == \A id \in Ids : triggered[id] <= 1

(* What the proposer believes of the player is true, or the callback that  *)
(* will correct it is on its way: a prepared response waits in the player  *)
(* to be triggered, and one that is being prepared is on its way there.    *)
PreparationTracked ==
    \A h \in Hashes :
        /\ prepared[h] # NoId =>
               /\ triggered[prepared[h]] = 0
               /\ stage[prepared[h]] = "ready" \/ InChannel("deleted", prepared[h])
        /\ preparing[h] # NoId =>
               /\ triggered[preparing[h]] = 0
               /\ \/ stage[preparing[h]] = "sent"
                  \/ InChannel("ready", preparing[h])
                  \/ "lost" \in Faults /\ stage[preparing[h]] = "gone"

(* The agentTurnState that was published last, which the turn-taking       *)
(* interpreter goes by, is that of the proposer, unless it has failed in   *)
(* telling.                                                                *)
TurnStateAgrees ==
    ~failed =>
        /\ speakingState = "speaking" => turnState = "speaking"
        /\ speakingState = "listening" => turnState \in {"listening", "expectingAnswer"}

(* An agent that is about to speak does not want the turn: the intention   *)
(* is used up by the response, and not set again before it was heard.      *)
IntentionUsedUp == speakingState = "preparing" => speakingIntention = "null"

(* Whatever happens to the utterance, its callbacks and the senders, the   *)
(* agent goes back to listening, unless the component itself fails.        *)
TurnGivenBack ==
    speakingState \in {"preparing", "speaking"}
        ~> speakingState = "listening" \/ failed

(* The proposer implements AgentTurn: whatever happens to responses and    *)
(* callbacks, the agent's turns follow that life, those who follow the     *)
(* dialogue are told of every start and end, and a turn is given back.     *)
Turn == INSTANCE AgentTurn WITH taken <- latestResponse
AgentTurnSpec == Turn!FairTurn

(* The agent counts as speaking from the start of the utterance that it    *)
(* is going to play next.                                                  *)
StartIsExpected ==
    [][speakingState # "speaking" /\ speakingState' = "speaking"
           => Head(channel)[2] = feedbackId]_vars
==============================================================================
