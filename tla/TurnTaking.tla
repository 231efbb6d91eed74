----------------------------- MODULE TurnTaking -----------------------------
(***************************************************************************)
(* The turn-taking interpreter: from what the user does and what the agent *)
(* is said to do, it decides when the agent wants to speak, and asks for   *)
(* the turn with one message, startSpeaking, which it does not repeat      *)
(* before it has withdrawn it with stopSpeaking.                           *)
(*                                                                         *)
(* It runs on one thread; act() is called every 50 ms, and before every    *)
(* react().  How much it wants to speak is a number that depends on the    *)
(* times since the agent's and the user's state were set, on emotions and  *)
(* backchannels.  Here the times are classes, and whether the number is at *)
(* the character's threshold is a free choice wherever the terms that are  *)
(* not modelled can decide it.                                             *)
(***************************************************************************)
EXTENDS Integers, Sequences

CONSTANTS MaxQueue,      \* bound: messages under way on a topic
          MaxUserEvents  \* bound: messages about what the user does

ASSUME MaxQueueAssumption == MaxQueue \in Nat \ {0}
ASSUME MaxUserEventsAssumption == MaxUserEvents \in Nat

VARIABLES
    agentSpeakingState,      \* "WAITING" for an answer, "SILENT", "SPEAKING"
    userSpeakingState,       \* "WAITING" for the user, "SILENT", "SPEAKING"
    agentSpeakingIntention,  \* "none", "SILENT", "SPEAKING"
    agentAge, userAge,       \* the time since the state was set
    together,                \* both were set within 30 ms
    evaluated,               \* determineAgentTurn has been called since
    heldUp,                  \* a second of an agent's silence has passed
                             \* without that, while the turn is asked for
    interpreterFailed,       \* the component has ended with an exception
    dialogQueue,             \* agentTurnStates on their way to us
    agentQueue,              \* turnTakingIntentions on their way from us
    userEvents

turnTakingVars == <<agentSpeakingState, userSpeakingState,
                    agentSpeakingIntention, agentAge, userAge, together,
                    evaluated, heldUp, interpreterFailed, dialogQueue,
                    agentQueue, userEvents>>

(* Classes of times: at this moment; less than a second; up to eight        *)
(* seconds; more.                                                           *)
Now == 0
Second == 1
Seconds == 2
Long == 3

TurnStates == {"speaking", "listening", "expectingAnswer"}

(* The times are zero at first, that is, long ago. *)
InitTurnTaking ==
    /\ agentSpeakingState = "SILENT"
    /\ userSpeakingState = "WAITING"
    /\ agentSpeakingIntention = "none"
    /\ agentAge = Long /\ userAge = Long
    /\ together = TRUE
    /\ evaluated = FALSE /\ heldUp = FALSE /\ interpreterFailed = FALSE
    /\ dialogQueue = << >> /\ agentQueue = << >>
    /\ userEvents = 0

------------------------------------------------------------------------------
(* determineAgentTurn                                                       *)

(* Mutant: an agent that gets no answer does not come to want the turn. *)
Wants_NoAnswer(agent, user, aAge, uAge, tog) ==
    {w \in BOOLEAN :
        /\ agent # "SPEAKING" /\ aAge <= Second
              /\ (user = "SILENT" => uAge = Now)
           => ~w
        /\ agent # "SPEAKING" /\ aAge >= Seconds /\ user = "SILENT" /\ uAge = Long
           => w}

(* getSpeakingIntentionValue >= curr_TT_Threshold, which is at most 100, in *)
(* the state (agent, user) with times (aAge, uAge): what it can be.  In the *)
(* first second of its silence the agent waits: the value is at most 30 - 50*)
(* and what the user's silence adds, which is nothing at first.  A user who *)
(* is waited for, or is silent, for long makes the value 100.               *)
Wants(agent, user, aAge, uAge, tog) ==
    {w \in BOOLEAN :
        /\ agent # "SPEAKING" /\ aAge <= Second
              /\ (user = "SILENT" => uAge = Now)
           => ~w
        /\ agent # "SPEAKING" /\ user = "WAITING" /\ uAge = Long /\ tog => w
        /\ agent # "SPEAKING" /\ aAge >= Seconds /\ user = "SILENT" /\ uAge = Long
           => w}

(* The intention is set, then sent; the sender may throw. *)
SendTurnState(intention, throws) ==
    /\ agentSpeakingIntention' = intention
    /\ heldUp' = FALSE
    /\ IF throws THEN UNCHANGED agentQueue
       ELSE /\ Len(agentQueue) < MaxQueue
            /\ agentQueue' = Append(agentQueue, IF intention = "SPEAKING"
                                                THEN "startSpeaking"
                                                ELSE "stopSpeaking")

(* Mutant: an intention to speak is not taken back. *)
determineAgentTurn_Keeps(throws) ==
    /\ evaluated' = TRUE
    /\ \E wants \in Wants(agentSpeakingState', userSpeakingState', agentAge',
                          userAge', together') :
          IF /\ wants /\ agentSpeakingIntention # "SPEAKING"
             /\ agentSpeakingState' # "SPEAKING"
          THEN SendTurnState("SPEAKING", throws)
          ELSE IF ~wants /\ agentSpeakingIntention = "none"
          THEN SendTurnState("SILENT", throws)
          ELSE /\ ~throws
               /\ UNCHANGED <<agentSpeakingIntention, agentQueue, heldUp>>

(* Asks for the turn, or withdraws, if it has not done so before.  It is    *)
(* called at the end of a step, when the states and times are set.          *)
determineAgentTurn(throws) ==
    /\ evaluated' = TRUE
    /\ \E wants \in Wants(agentSpeakingState', userSpeakingState', agentAge',
                          userAge', together') :
          IF /\ wants /\ agentSpeakingIntention # "SPEAKING"
             /\ agentSpeakingState' # "SPEAKING"
          THEN SendTurnState("SPEAKING", throws)
          ELSE IF ~wants /\ agentSpeakingIntention # "SILENT"
          THEN SendTurnState("SILENT", throws)
          ELSE /\ ~throws
               /\ UNCHANGED <<agentSpeakingIntention, agentQueue, heldUp>>

------------------------------------------------------------------------------
(* act() and react()                                                        *)

(* A sender throws, and the exception leaves act() or react(): the         *)
(* interpreter does nothing any more.                                      *)
FailIf(throws) == ~interpreterFailed /\ interpreterFailed' = throws

(* act(): after eight seconds without an answer the agent is said to be     *)
(* listening.  The message comes back to us as well; until it has, every    *)
(* act() sends another.                                                     *)
ActTurnTaking ==
    /\ UNCHANGED <<agentSpeakingState, userSpeakingState, agentAge, userAge,
                   together, userEvents>>
    /\ \/ determineAgentTurn(TRUE) /\ FailIf(TRUE) /\ UNCHANGED dialogQueue
       \/ /\ determineAgentTurn(FALSE)
          /\ IF agentSpeakingState = "WAITING" /\ agentAge = Long
             THEN \/ /\ FailIf(FALSE)
                     /\ Len(dialogQueue) < MaxQueue
                     /\ dialogQueue' = Append(dialogQueue, "listening")
                  \/ FailIf(TRUE) /\ UNCHANGED dialogQueue
             ELSE FailIf(FALSE) /\ UNCHANGED dialogQueue

(* getSpeakingIntentionValue finds that the clock was set back: the states  *)
(* count as set now.                                                        *)
TurnTakingClockReset ==
    /\ agentAge' = Now /\ userAge' = Now /\ together' = TRUE
    /\ UNCHANGED <<agentSpeakingState, userSpeakingState, userEvents,
                   dialogQueue>>
    /\ \E throws \in BOOLEAN : determineAgentTurn(throws) /\ FailIf(throws)

(* Mutant: the time of a user who is waited for already is not set. *)
setAgentSpeakingState_OldTime(state) ==
    /\ agentAge' = Now
    /\ agentSpeakingState' = CASE state = "speaking" -> "SPEAKING"
                               [] state = "listening" -> "SILENT"
                               [] state = "expectingAnswer" -> "WAITING"
    /\ IF state # "speaking" /\ userSpeakingState = "SILENT"
       THEN userSpeakingState' = "WAITING" /\ userAge' = Now /\ together' = TRUE
       ELSE together' = FALSE /\ UNCHANGED <<userSpeakingState, userAge>>

(* Mutant: the state is kept as it was sent. *)
setAgentSpeakingState_Raw(state) ==
    /\ agentAge' = Now
    /\ agentSpeakingState' = state
    /\ together' = FALSE /\ UNCHANGED <<userSpeakingState, userAge>>

(* The agent speaks, or has stopped: then the user is waited for, unless    *)
(* speaking.                                                                *)
setAgentSpeakingState(state) ==
    /\ agentAge' = Now
    /\ agentSpeakingState' = CASE state = "speaking" -> "SPEAKING"
                               [] state = "listening" -> "SILENT"
                               [] state = "expectingAnswer" -> "WAITING"
    /\ IF state # "speaking" /\ userSpeakingState # "SPEAKING"
       THEN userSpeakingState' = "WAITING" /\ userAge' = Now /\ together' = TRUE
       ELSE together' = FALSE /\ UNCHANGED <<userSpeakingState, userAge>>

(* react() to a dialog state; no decision is made. *)
OnDialogState ==
    /\ dialogQueue # << >>
    /\ setAgentSpeakingState(Head(dialogQueue))
    /\ dialogQueue' = Tail(dialogQueue)
    /\ evaluated' = FALSE
    /\ FailIf(FALSE)
    /\ UNCHANGED <<agentSpeakingIntention, agentQueue, heldUp, userEvents>>

(* react() to a user state: the user is heard to start or to stop, has      *)
(* nodded or shaken the head, or shows an emotion.                          *)
OnUserState ==
    /\ userEvents < MaxUserEvents
    /\ userEvents' = userEvents + 1
    /\ \/ \E heard \in {"SILENT", "SPEAKING"} :
             /\ userSpeakingState # heard
             /\ userSpeakingState' = heard
             /\ userAge' = Now /\ together' = FALSE
       \/ userSpeakingState' = "SILENT" /\ userAge' = Now /\ together' = FALSE
       \/ UNCHANGED <<userSpeakingState, userAge, together>>
    /\ UNCHANGED <<agentSpeakingState, agentAge, dialogQueue>>
    /\ \E throws \in BOOLEAN : determineAgentTurn(throws) /\ FailIf(throws)

(* Time passes, with or without an act(): the component's loop may wait     *)
(* between react() and the next act(), as long as the system is not ready.  *)
(* Times that were set together advance together.                           *)
TurnTakingTime ==
    /\ agentAge' \in {agentAge, agentAge + 1} /\ agentAge' <= Long
    /\ userAge' \in {userAge, userAge + 1} /\ userAge' <= Long
    /\ agentAge' # agentAge \/ userAge' # userAge
    /\ together => agentAge' = userAge'
    /\ heldUp' = (heldUp \/ (/\ ~evaluated /\ agentAge' > Second
                             /\ agentSpeakingIntention = "SPEAKING"))
    /\ UNCHANGED <<agentSpeakingState, userSpeakingState,
                   agentSpeakingIntention, together, evaluated,
                   interpreterFailed, dialogQueue, agentQueue, userEvents>>

------------------------------------------------------------------------------
(* Properties                                                               *)

(* Every variable has its type. *)
TurnTakingTypeOK ==
    /\ agentSpeakingState \in {"WAITING", "SILENT", "SPEAKING"}
    /\ userSpeakingState \in {"WAITING", "SILENT", "SPEAKING"}
    /\ agentSpeakingIntention \in {"none", "SILENT", "SPEAKING"}
    /\ agentAge \in Now .. Long /\ userAge \in Now .. Long
    /\ together \in BOOLEAN /\ evaluated \in BOOLEAN /\ heldUp \in BOOLEAN
    /\ interpreterFailed \in BOOLEAN
    /\ dialogQueue \in Seq(TurnStates) /\ Len(dialogQueue) <= MaxQueue + 1
    /\ agentQueue \in Seq({"startSpeaking", "stopSpeaking"})
    /\ userEvents \in 0 .. MaxUserEvents

(* While the user is waited for, the two times were set together: the term  *)
(* that makes the agent speak again when the user does not answer depends   *)
(* on that, and nothing else makes it speak then.                           *)
WaitingTogether ==
    userSpeakingState = "WAITING" /\ agentSpeakingState # "SPEAKING" => together
==============================================================================
